----------------------------- MODULE MCProfile -----------------------------
(* One user on one phone.                                                   *)
EXTENDS Profile
=============================================================================
