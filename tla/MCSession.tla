------------------------------ MODULE MCSession ------------------------------
(* One dialect besides SQLite and one text for its fields or its URL; two   *)
(* session tokens, of which one may run out, a sign-out, and one reload or  *)
(* change of a role.                                                        *)
EXTENDS Session
==============================================================================
