---------------------------- MODULE MCSavedRoom ----------------------------
(* An instance of SavedRoom: two phones of one tenant with a card each.    *)
EXTENDS SavedRoom, TLC

CONSTANTS d1, d2, c1, c2, t1, t2

TwoPhones == c1 :> d1 @@ c2 :> d2

\* The phones change places together with their cards.
Symmetric ==
  {d1 :> d2 @@ d2 :> d1 @@ c1 :> c2 @@ c2 :> c1} \cup Permutations({t1, t2})
=============================================================================
