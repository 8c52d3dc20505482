---------------------------- MODULE MCStdioTransport -------------------------
(* Two calls: one request, and one that is a request with the same id, a      *)
(* request with an id of its own, or a notification; and two processes: a     *)
(* first spawn and a respawn or restart.                                      *)
EXTENDS StdioTransport, TLC

CONSTANTS a, b, one, two

MCIds == {one, two}
MCIdsOf == a :> {one} @@ b :> {one, two, NoId}
==============================================================================
