------------------------------- MODULE MCChat -------------------------------
(***************************************************************************)
(* Instance of Chat: a landlord with one phone, a tenant with two.         *)
(***************************************************************************)
EXTENDS Chat, TLC

CONSTANTS d1, d2, d3

ThreePhones == d1 :> "tenant" @@ d2 :> "landlord" @@ d3 :> "tenant"
=============================================================================
