---------------------------- MODULE MCRoomFilter ----------------------------
(***************************************************************************)
(* Instance of RoomFilter: a home and a remote position, two prices, and   *)
(* three rooms that each miss one of the bounds.                           *)
(***************************************************************************)
EXTENDS RoomFilter

KmBetween == [c \in Positions \X Positions |-> IF c[1] = c[2] THEN 0 ELSE 9]

ThreeRooms == {[price |-> 1, type |-> "House", place |-> "here"],
               [price |-> 2, type |-> "House", place |-> "there"],
               [price |-> 2, type |-> "Room", place |-> "here"]}

Filled(min, max, km, type) == [min |-> min, max |-> max, km |-> km, type |-> type]
ThreeFillings == {Filled(2, 1, Unset, Unset),    \* reversed
                  Filled(1, Bad, Unset, Unset),
                  Filled(Unset, 1, 5, "House")}
=============================================================================
