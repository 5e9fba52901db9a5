---------------------------- MODULE MCPreferences ----------------------------
(***************************************************************************)
(* Instances of Preferences: one tenant with two phones, two places five   *)
(* kilometres apart and far from the meridian, three rooms that differ in  *)
(* every feature.                                                          *)
(***************************************************************************)
EXTENDS Preferences

Distances ==
  [c \in Places \X (Places \cup {Zero}) \X Places |->
     IF c[2] = Zero THEN 9000 ELSE IF c[1] = c[3] THEN 0 ELSE 5]

NearAndCheap == {[distance |-> 10, price |-> 10]}

Apartment == [type |-> "Apartment", amenities |-> {}]
GymHouse == [type |-> "House", amenities |-> {"gym"}]
TwoChoices == {Apartment, GymHouse}

ThreeRooms ==
  {[place |-> "p1", price |-> 10, type |-> "House", amenities |-> {"gym"}],
   [place |-> "p1", price |-> 13, type |-> "Apartment", amenities |-> {"gym"}],
   [place |-> "p2", price |-> 15, type |-> "House", amenities |-> {"gym", "park"}]}

\* The third room may be posted or deleted between two reads.
WithOrWithoutThird == {ThreeRooms, {r \in ThreeRooms : r.place = "p1"}}
=============================================================================
