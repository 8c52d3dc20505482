------------------------------- MODULE RoutesPage ------------------------------
(***************************************************************************)
(* Routes.tsx: the upstreams, polled every eight seconds, with buttons to  *)
(* restart or remove each and to rediscover the tools of all.  One `busy`  *)
(* has the name of what was clicked last, and the end of any clears it.    *)
(***************************************************************************)
EXTENDS Console

\* Whatever became of the earlier ones.
Poll ==
  /\ page = "routes"
  /\ Ask("poll", "", revision)
  /\ UNCHANGED <<busy, error, revision, display>>

Rediscover ==
  /\ page = "routes" /\ busy # "all"
  /\ Ask("rediscover", "all", revision)
  /\ busy' = "all"
  /\ UNCHANGED <<error, revision, display>>

\* The upstream may be gone already.
ActOn(op, name) ==
  /\ page = "routes" /\ busy # name
  /\ op \in {"restart", "remove"}
  /\ Ask(op, name, revision)
  /\ busy' = name
  /\ UNCHANGED <<error, revision, display>>

\* A restart of an upstream that is gone is answered like one that was done.
ServeAction(c, how) ==
  /\ page = "routes" /\ c.op \in {"restart", "remove"}
  /\ \E changes \in BOOLEAN :
       /\ changes => how = "ok"
       /\ c.op = "remove" => changes = (how = "ok")
       /\ Settled(c, how, changes)

\* The load that follows is awaited, so the name stays busy ...
Acted(c) ==
  /\ page = "routes" /\ Back(c, {"restart", "remove"}) /\ c.at = "ok"
  /\ GoesOn(c, "reload")
  /\ Promised(c)
  /\ UNCHANGED <<busy, error>>

ActionFailed(c) ==
  /\ page = "routes" /\ Back(c, {"restart", "remove"}) /\ c.at # "ok"
  /\ error' = TRUE
  /\ busy' = ""
  /\ Over(c)
  /\ UNCHANGED display

\* ... unless another click or another end comes first.  A load that succeeds
\* removes the error, also that of an action.
RoutesLoaded(c) ==
  /\ page = "routes" /\ Back(c, {"load", "poll", "reload"})
  /\ IF c.at = "ok" THEN Displays(c) /\ error' = FALSE ELSE LoadFails /\ error' = TRUE
  /\ busy' = IF c.op = "reload" THEN "" ELSE busy
  /\ Over(c)

\* A rediscovery answers with the routes, and removes no error.
Rediscovered(c) ==
  /\ page = "routes" /\ Back(c, {"rediscover"})
  /\ IF c.at = "ok" THEN Displays(c) /\ UNCHANGED error
                    ELSE error' = TRUE /\ UNCHANGED display
  /\ busy' = ""
  /\ Over(c)

RoutesClicks ==
  \/ Poll \/ Rediscover
  \/ \E op \in {"restart", "remove"}, name \in Names : ActOn(op, name)
RoutesAnswer(c) == Acted(c) \/ ActionFailed(c) \/ RoutesLoaded(c) \/ Rediscovered(c)
===============================================================================
