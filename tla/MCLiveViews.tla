------------------------------ MODULE MCLiveViews ------------------------------
(* Two upstreams, one of them with failures; a table of one row. *)
EXTENDS LiveViews
CONSTANTS a, b
MCKinds == {[upstream |-> a, status |-> "ok"], [upstream |-> a, status |-> "error"],
            [upstream |-> b, status |-> "ok"]}
MCFade == [w \in Windows |-> IF w = 60 THEN 1 ELSE 2]
===============================================================================
