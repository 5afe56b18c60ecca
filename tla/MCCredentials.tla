--------------------------- MODULE MCCredentials ---------------------------
(***************************************************************************)
(* One request thread beside the probe loop: the two overlap in their use  *)
(* of either credential.                                                   *)
(***************************************************************************)
EXTENDS Credentials
=============================================================================
