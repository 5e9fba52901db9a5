----------------------------- MODULE MCSession -----------------------------
(* Instances of Session: one phone, with one or two calls in flight.       *)
EXTENDS Session
=============================================================================
