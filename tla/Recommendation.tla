--------------------------- MODULE Recommendation ---------------------------
(***************************************************************************)
(* How RecommendationSys scores rooms against a tenant's preferences and   *)
(* ranks them.  The code's doubles are fractions of integers without       *)
(* rounding, and 0/0 is NaN, as in the code.                               *)
(***************************************************************************)
EXTENDS Integers, FiniteSets, Sequences

CONSTANTS Km,       \* distance of a room's place from the tenant's coordinates
          Limit     \* most rooms to recommend

NaN == [n |-> 0, d |-> 0]

Lesser(x, y) == IF x < y THEN x ELSE y
Deviation(x, y) == IF x < y THEN y - x ELSE x - y

\* 1 - (x / bound).clamp(0.0, 1.0); clamp takes NaN for the largest double.
Nearness(x, bound) ==
  IF bound = 0 THEN [n |-> 0, d |-> 1]
  ELSE [n |-> bound - Lesser(x, bound), d |-> bound]

\* calculatePriceScore
PriceScore(wish, price) == Nearness(Deviation(wish, price), wish)

\* calculateJaccardSimilarity
Jaccard(A, B) ==
  IF A \cup B = {} THEN NaN
  ELSE [n |-> Cardinality(A \cap B), d |-> Cardinality(A \cup B)]

\* calculateSimilarityScore, in hundredths: 40 for location, 30 for price, 15
\* each for property type and amenities.
Score(pref, room) ==
  LET l == Nearness(Km[<<pref.latitude, pref.longitude, room.place>>], pref.distance)
      p == PriceScore(pref.price, room.price)
      t == IF pref.type = room.type THEN 1 ELSE 0
      a == Jaccard(pref.amenities, room.amenities)
  IN [n |-> 40 * l.n * p.d * a.d + 30 * p.n * l.d * a.d
              + 15 * t * l.d * p.d * a.d + 15 * a.n * l.d * p.d,
      d |-> l.d * p.d * a.d]

\* score > 0.3, which NaN is not
Passes(pref, room) == LET s == Score(pref, room) IN s.n > 30 * s.d

\* Wrong variant: the comparison of the sort is the other way round.
Ahead_ascending(pref, r, q) ==
  LET s == Score(pref, r) t == Score(pref, q) IN s.n * t.d <= t.n * s.d

Ahead(pref, r, q) ==
  LET s == Score(pref, r) t == Score(pref, q) IN s.n * t.d >= t.n * s.d

\* getRecommendations: the rooms that pass, best first, rooms of one score in
\* any order, and the first of them taken.
Recommendations(pref, rooms) ==
  LET passing == {r \in rooms : Passes(pref, r)}
      size    == Cardinality(passing)
      ranked  == {s \in [1..size -> passing] :
                    /\ \A i, j \in 1..size : i # j => s[i] # s[j]
                    /\ \A i, j \in 1..size : i < j => Ahead(pref, s[i], s[j])}
  IN {SubSeq(s, 1, Lesser(size, Limit)) : s \in ranked}

-----------------------------------------------------------------------------
(* What a ranking by these four features means, without their weights        *)

\* Room r suits the tenant at least as well as q in every feature.
Suits(pref, r, q) ==
  LET from(x) == Km[<<pref.latitude, pref.longitude, x.place>>]
      shared(x) == x.amenities \cap pref.amenities
      surplus(x) == x.amenities \ pref.amenities
  IN /\ from(r) <= from(q)
     /\ Deviation(pref.price, r.price) <= Deviation(pref.price, q.price)
     /\ q.type = pref.type => r.type = pref.type
     /\ shared(q) \subseteq shared(r) /\ surplus(r) \subseteq surplus(q)

\* Without amenities on either side the score is NaN and the room is left out.
Comparable(pref, room) == pref.amenities \cup room.amenities # {}
=============================================================================
