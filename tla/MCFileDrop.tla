------------------------------ MODULE MCFileDrop -----------------------------
(* Two upstreams, of two definitions one is refused, one call, two writes.  *)
EXTENDS FileDrop
==============================================================================
