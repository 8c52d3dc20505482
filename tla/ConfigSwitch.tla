----------------------------- MODULE ConfigSwitch ------------------------------
(***************************************************************************)
(* What apply() promises to those who call it, without saying how: calls   *)
(* may overlap, but the configuration in force goes at one moment from one *)
(* to the next, and only to one that a call in progress has asked for.     *)
(* There is no lock, no phase, no plan and no backup here.  RuntimeConfig  *)
(* is shown to keep this contract; FileDrop and Onboarding, which apply a  *)
(* configuration in one step, are shown to use no more than it.            *)
(***************************************************************************)
CONSTANTS
  Configs,  \* records with a field upstreams, and with others
  Callers

VARIABLES
  current,  \* the configuration in force
  serving,  \* the upstreams in service
  asked     \* what each call in progress has asked for

switchVars == <<current, serving, asked>>

InProgress == DOMAIN asked

SwitchInit ==
  /\ current \in Configs
  /\ serving = current.upstreams
  /\ InProgress = {}

Ask(c, k) ==
  /\ c \notin InProgress
  /\ asked' = [d \in InProgress \cup {c} |-> IF d = c THEN k ELSE asked[d]]
  /\ UNCHANGED <<current, serving>>

End(c) ==
  /\ c \in InProgress
  /\ asked' = [d \in InProgress \ {c} |-> asked[d]]

Succeed(c) ==
  /\ End(c)
  /\ current' = asked[c]
  /\ serving' = asked[c].upstreams

\* The configuration stays.  The upstreams do too, or, where the database
\* refused the configuration, stay those that were asked for.
Fail(c) ==
  /\ End(c)
  /\ serving' \in {serving, asked[c].upstreams}
  /\ UNCHANGED current

\* The process ends, and starts again with the configuration in force.
Restart ==
  /\ asked' = [d \in {} |-> asked[d]]
  /\ serving' = current.upstreams
  /\ UNCHANGED current

SwitchNext ==
  \/ \E c \in Callers : (\E k \in Configs : Ask(c, k)) \/ Succeed(c) \/ Fail(c)
  \/ Restart

SwitchSpec == SwitchInit /\ [][SwitchNext]_switchVars
===============================================================================
