----------------------------- MODULE RoomFilter -----------------------------
(***************************************************************************)
(* Filtering the rooms of the tenant's home page in a dialog.  "Filter"    *)
(* captures the fields and the tenant's position as it is known by then,   *)
(* asks Firestore and pops a route with the result.  The button stays      *)
(* enabled, the dialog can be dismissed meanwhile, and what is popped is   *)
(* the route on top: the dialog, the message above it, or, while the       *)
(* dialog closes, the home page itself.  Its names are its own, so that it *)
(* can be taken together with the other page that pops, Profile.           *)
(***************************************************************************)
EXTENDS Naturals

CONSTANTS Prices, Distances,    \* numbers the fields can say
          Types, Positions,
          Unset,                \* an empty field, no choice
          Bad,                  \* a price that double.parse throws at
          NoPosition,           \* latitude and longitude still null
          Km,                   \* distance between two positions
          Rooms,                \* rooms landlords can post
          Fillings,             \* what the tenant fills in
          QuerySlots            \* queries one dialog can have in flight

ASSUME NumbersAssumption == Prices \subseteq Nat /\ Distances \subseteq Nat
ASSUME UnsetAssumption ==
  /\ Unset \notin Prices \cup Distances /\ Unset \notin Types
  /\ Bad \notin Prices \cup {Unset}
ASSUME PositionsAssumption == NoPosition \notin Positions
ASSUME RoomsAssumption == Rooms \subseteq [price : Nat, type : Types, place : Positions]

Fields == [min : Prices \cup {Unset, Bad}, max : Prices \cup {Unset, Bad},
           km : Distances \cup {Unset}, type : Types \cup {Unset}]
ASSUME FillingsAssumption == Fillings \subseteq Fields

NoFields == [min |-> Unset, max |-> Unset, km |-> Unset, type |-> Unset]

\* The arguments of one filterProperties query, and whether the context it will
\* pop with still exists.
Ask == [fields : Fields, from : Positions \cup {NoPosition}]
NoQuery == [at |-> "idle"]
Query == [at : {"asked"}, ask : Ask, mounted : BOOLEAN]

\* filteredRooms of the home page, null when it shows all rooms.
AllRooms == [filtered |-> FALSE]
List == [filtered : {TRUE}, ask : Ask, rooms : SUBSET Rooms]

VARIABLES
  home,      \* the home page is still among the routes
  list,      \* its filteredRooms
  dialog,    \* the dialog: "open", "closing" (popped, context alive), "gone"
  fields,    \* its fields
  from,      \* its latitude and longitude
  locating,  \* its getUserLatLong is running
  alert,     \* "Max Price can't be lesser than Min Price" is above it
  queries,   \* per slot, filterProperties calls in flight
  overlapped \* history: a query of this dialog overlapped another one, or the
             \* dialog was dismissed under it

filterVars == <<home, list, dialog, fields, from, locating, alert, queries, overlapped>>

FilterInit ==
  /\ home = TRUE /\ list = AllRooms
  /\ dialog = "gone" /\ fields = NoFields /\ from = NoPosition
  /\ locating = FALSE /\ alert = FALSE
  /\ queries = [s \in QuerySlots |-> NoQuery]
  /\ overlapped = FALSE

Asking(s) == queries[s] # NoQuery /\ queries[s].mounted

-----------------------------------------------------------------------------
\* "Filter Rooms" on the home page: a new dialog, and its getUserLatLong.
OpenDialog ==
  /\ home /\ dialog = "gone"
  /\ dialog' = "open" /\ fields' = NoFields /\ from' = NoPosition
  /\ locating' = TRUE /\ overlapped' = FALSE
  /\ UNCHANGED <<home, list, alert, queries>>

\* Wrong variant: the position is assigned without looking for null.
Located_unchecked ==
  /\ locating
  /\ locating' = FALSE
  /\ from' \in Positions \cup {Unset}
  /\ UNCHANGED <<home, list, dialog, fields, alert, queries, overlapped>>

\* getUserLatLong: the profile's location, or nothing if it has none, is
\* missing or cannot be read.
Located ==
  /\ locating
  /\ locating' = FALSE
  /\ from' \in Positions \cup {NoPosition}
  /\ UNCHANGED <<home, list, dialog, fields, alert, queries, overlapped>>

Fill(f) ==
  /\ dialog = "open" /\ ~alert
  /\ fields' = f
  /\ UNCHANGED <<home, list, dialog, from, locating, alert, queries, overlapped>>

Reversed(f) == f.min \in Prices /\ f.max \in Prices /\ f.min > f.max

\* "Filter": with both prices given they are parsed, which may throw, and
\* compared; a reversed range shows a message, and goes on all the same.
TapFilter(s) ==
  /\ dialog = "open" /\ ~alert /\ queries[s] = NoQuery
  /\ ~(fields.min # Unset /\ fields.max # Unset /\ Bad \in {fields.min, fields.max})
  /\ alert' = Reversed(fields)
  /\ queries' = [queries EXCEPT ![s] =
       [at |-> "asked", mounted |-> TRUE, ask |-> [fields |-> fields, from |-> from]]]
  /\ overlapped' = (overlapped \/ \E t \in QuerySlots : Asking(t))
  /\ UNCHANGED <<home, list, dialog, fields, from, locating>>

\* filterProperties.  A field that is empty or no number bounds nothing, and
\* neither does the distance from an unknown position.
Matching(ask, r) ==
  LET f == ask.fields IN
  /\ f.min \in Prices => r.price >= f.min
  /\ f.max \in Prices => r.price <= f.max
  /\ f.type # Unset => r.type = f.type
  /\ ask.from # NoPosition /\ f.km # Unset => Km[<<ask.from, r.place>>] <= f.km

\* Navigator.pop(context, result): the route on top goes.  The home page's
\* setState takes the dialog's result only.
PopRoute(result) ==
  \/ alert /\ alert' = FALSE /\ UNCHANGED <<home, list, dialog>>
  \/ /\ ~alert /\ dialog = "open"
     /\ dialog' = "closing" /\ list' = result
     /\ UNCHANGED <<home, alert>>
  \/ ~alert /\ dialog # "open" /\ home' = FALSE /\ UNCHANGED <<list, dialog, alert>>

\* Wrong variant: the fields are read after the await.
QueryAnswered_rereads(s) ==
  /\ queries[s] # NoQuery
  /\ queries' = [queries EXCEPT ![s] = NoQuery]
  /\ IF queries[s].mounted
     THEN \E seen \in SUBSET Rooms :
            PopRoute([filtered |-> TRUE, ask |-> queries[s].ask,
                      rooms |-> {r \in seen : Matching([fields |-> fields, from |-> from], r)}])
     ELSE UNCHANGED <<home, list, dialog, alert>>
  /\ UNCHANGED <<fields, from, locating, overlapped>>

\* Wrong variant: an empty result leaves the dialog as it is.
QueryAnswered_skipsEmpty(s) ==
  /\ queries[s] # NoQuery
  /\ queries' = [queries EXCEPT ![s] = NoQuery]
  /\ \/ UNCHANGED <<home, list, dialog, alert>>
     \/ /\ queries[s].mounted
        /\ \E seen \in SUBSET Rooms :
             LET found == {r \in seen : Matching(queries[s].ask, r)} IN
             /\ found # {}
             /\ PopRoute([filtered |-> TRUE, ask |-> queries[s].ask, rooms |-> found])
  /\ UNCHANGED <<fields, from, locating, overlapped>>

\* The query is answered from the server or the cache, with any rooms that are
\* posted by then, or throws and counts as empty.  With a dead context the pop
\* throws.
QueryAnswered(s) ==
  /\ queries[s] # NoQuery
  /\ queries' = [queries EXCEPT ![s] = NoQuery]
  /\ IF queries[s].mounted
     THEN \E seen \in SUBSET Rooms :
            PopRoute([filtered |-> TRUE, ask |-> queries[s].ask,
                      rooms |-> {r \in seen : Matching(queries[s].ask, r)}])
     ELSE UNCHANGED <<home, list, dialog, alert>>
  /\ UNCHANGED <<fields, from, locating, overlapped>>

\* "Ok", "Cancel", the back button or a tap beside: null is popped.
Dismiss ==
  /\ dialog = "open"
  /\ PopRoute(AllRooms)
  /\ overlapped' = (overlapped \/ (~alert /\ \E s \in QuerySlots : Asking(s)))
  /\ UNCHANGED <<fields, from, locating, queries>>

\* Wrong variant: the navigator is looked up before the await and outlives the
\* dialog.
DialogClosed_keepsNavigator ==
  /\ dialog = "closing"
  /\ dialog' = "gone" /\ locating' = FALSE
  /\ fields' = NoFields /\ from' = NoPosition
  /\ UNCHANGED <<home, list, alert, queries, overlapped>>

\* The end of the closing animation: the dialog's context is dead.
DialogClosed ==
  /\ dialog = "closing"
  /\ dialog' = "gone" /\ locating' = FALSE
  /\ fields' = NoFields /\ from' = NoPosition
  /\ queries' = [s \in QuerySlots |-> IF queries[s] = NoQuery THEN NoQuery
                                      ELSE [queries[s] EXCEPT !.mounted = FALSE]]
  /\ UNCHANGED <<home, list, alert, overlapped>>

FilterNext ==
  \/ OpenDialog \/ Located \/ Dismiss \/ DialogClosed
  \/ \E f \in Fillings : Fill(f)
  \/ \E s \in QuerySlots : TapFilter(s) \/ QueryAnswered(s)

\* The tenant may leave the dialog alone for ever; queries are answered, offline from the cache, or throw; animations end.
FilterFairness ==
  WF_filterVars(DialogClosed) /\ \A s \in QuerySlots : WF_filterVars(QueryAnswered(s))

FilterSpec == FilterInit /\ [][FilterNext]_filterVars /\ FilterFairness

-----------------------------------------------------------------------------
FilterTypeOK ==
  /\ home \in BOOLEAN /\ list \in {AllRooms} \cup List
  /\ dialog \in {"open", "closing", "gone"}
  /\ fields \in Fields /\ from \in Positions \cup {NoPosition}
  /\ locating \in BOOLEAN /\ alert \in BOOLEAN /\ overlapped \in BOOLEAN
  /\ queries \in [QuerySlots -> {NoQuery} \cup Query]

\* A dialog that is used once at a time closes nothing but itself and its
\* message: whatever "Filter" pops, the home page below stays, with reversed
\* ranges, slow answers, and queries left over from earlier dialogs.
HomeStays == home \/ overlapped

\* The home page lists rooms by the fields of one tap of "Filter", however
\* they are edited and answers interleave: no room dearer, cheaper, farther or
\* of another type than that tap asked for, so none for a reversed range.
ListedAsAsked ==
  list.filtered =>
    LET f == list.ask.fields IN
    /\ \A r \in list.rooms :
         /\ f.min \in Prices => f.min <= r.price
         /\ f.max \in Prices => r.price <= f.max
         /\ f.type \in Types => r.type = f.type
         /\ (f.km # Unset /\ list.ask.from # NoPosition) =>
              Km[<<list.ask.from, r.place>>] <= f.km
    /\ Reversed(f) => list.rooms = {}

\* "Filter" with a proper range, tapped once, closes its dialog however slow,
\* empty or broken the answer is.
FilterCloses ==
  \A s \in QuerySlots :
    (Asking(s) /\ ~Reversed(queries[s].ask.fields)) ~> (dialog # "open" \/ overlapped)
=============================================================================
