---------------------------- MODULE MCRuntimeConfig --------------------------
(* Two upstreams, one of them with two possible settings, two telemetry       *)
(* sections and two calls; the server starts with both upstreams configured.  *)
(* A call may leave them as they are, replace one, remove one, or do both.    *)
EXTENDS RuntimeConfig, TLC

CONSTANTS x, y, s1, s2, t1, t2

Up(ofX, ofY) == x :> ofX @@ y :> ofY
MCInitial == {[upstreams |-> Up(s1, s1), telemetry |-> t1]}
MCConfigs ==
  {[upstreams |-> u, telemetry |-> t1] : u \in {Up(s1, s1), Up(s2, s1), Up(Absent, s1), Up(s2, Absent)}}
  \cup {[upstreams |-> Up(s2, Absent), telemetry |-> t2]}
==============================================================================
