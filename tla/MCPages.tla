-------------------------------- MODULE MCPages --------------------------------
(* Two upstreams, two requests at a time, two changes or questions and a      *)
(* request that is lost.                                                       *)
EXTENDS Pages
===============================================================================
