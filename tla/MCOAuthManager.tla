---------------------------- MODULE MCOAuthManager ---------------------------
(* Two requests, one authorization, one config with a client_id and one       *)
(* without.                                                                *)
EXTENDS OAuthManager, TLC
==============================================================================
