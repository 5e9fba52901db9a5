---------------------------- MODULE MCOwnerRoom ----------------------------
(* One room of one landlord, two places; other phones move it to the second *)
(* place.                                                                   *)
EXTENDS OwnerRoom

Second == {[address |-> "p2", place |-> "p2"]}
=============================================================================
