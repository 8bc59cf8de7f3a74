----------------------------- MODULE MCOAuthPause -----------------------------
(* Instances of OAuthPause for TLC; the values are in the .cfg files. *)
EXTENDS OAuthPause
=============================================================================
