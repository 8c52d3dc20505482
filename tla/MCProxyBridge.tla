---------------------------- MODULE MCProxyBridge ----------------------------
(***************************************************************************)
(* ProxyBridge on two requests and a notification that share a queue of  *)
(* two places: the queue fills, a place freed by a timeout is taken again  *)
(* while the abandoned request still runs, and every ending is reached.    *)
(***************************************************************************)
EXTENDS ProxyBridge

CONSTANTS r1, r2, n1

MCCalls == {r1, r2, n1}
MCNotifications == {n1}
==============================================================================
