------------------------------- MODULE MapPage -------------------------------
(***************************************************************************)
(* The page on which a place is chosen.  It asks for permission and for    *)
(* the phone's position, then shows a map whose pin the user may move.     *)
(* "Confirm" has the pin's address looked up and pops the page with that   *)
(* address and with the coordinates the pin has by then.  The button stays *)
(* enabled.  Geolocator and geocoding are external.  A module that opens   *)
(* this page EXTENDS it and says what the pop and its result do.           *)
(***************************************************************************)
EXTENDS Naturals

CONSTANTS Places,
          NoPlace,      \* currentLocation is null
          NoAddress,    \* "Address not found", "Error getting address"
          PickSlots     \* confirmations one page can have in flight

ASSUME PlacesAssumption == NoPlace \notin Places /\ NoAddress \notin Places

\* A place stands for its coordinates and for its address.  moved is history:
\* the pin was moved while the address was being looked up.
Addresses == Places \cup {NoAddress}
Picked == [address : Addresses, place : Places, moved : BOOLEAN]

\* A confirmation whose address is being looked up.  Once the page is popped it
\* is late: whatever it asked for, its answer will only pop.
NoPick == [at |-> "idle"]
LatePick == [at |-> "late"]
Pick == [at : {"naming"}, asked : Places, moved : BOOLEAN]

VARIABLES
  map,        \* the page: "open", "closing" (popped, context alive), "gone"
  pin,        \* its currentLocation
  isLoading,  \* a spinner is shown instead of the map
  locating,   \* _getCurrentLocation: "asking", "fixing", "over"
  refused,    \* history: permission denied or not to be asked for, or
              \* location services off
  picks       \* per slot, confirmations in flight

mapVars == <<map, pin, isLoading, locating, refused, picks>>

\* A page that is not there, in one shape.
NoMap ==
  /\ map' = "gone" /\ pin' = NoPlace /\ isLoading' = TRUE
  /\ locating' = "over" /\ refused' = FALSE
  /\ picks' = [s \in PickSlots |-> NoPick]

MapInit ==
  /\ map = "gone" /\ pin = NoPlace /\ isLoading = TRUE
  /\ locating = "over" /\ refused = FALSE
  /\ picks = [s \in PickSlots |-> NoPick]

-----------------------------------------------------------------------------
\* The page is pushed; after its first frame it asks for the position.
PushMap ==
  /\ map = "gone"
  /\ map' = "open" /\ pin' = NoPlace /\ isLoading' = TRUE
  /\ locating' = "asking" /\ refused' = FALSE
  /\ UNCHANGED picks

\* Permission and service are both there, or _getCurrentLocation is over,
\* without a word to the spinner.
Permitted ==
  /\ locating = "asking"
  /\ \/ locating' = "fixing" /\ UNCHANGED refused
     \/ locating' = "over" /\ refused' = TRUE
  /\ UNCHANGED <<map, pin, isLoading, picks>>

\* Wrong variant: an exception is only reported.
Positioned_keepsSpinner ==
  /\ locating = "fixing"
  /\ locating' = "over"
  /\ \/ pin' \in Places /\ isLoading' = FALSE
     \/ UNCHANGED <<pin, isLoading>>
  /\ UNCHANGED <<map, refused, picks>>

\* getCurrentPosition returns the phone's position, or throws: the map is
\* shown either way, in the second case without a pin.
Positioned ==
  /\ locating = "fixing"
  /\ locating' = "over" /\ isLoading' = FALSE
  /\ pin' \in Places \cup {NoPlace}
  /\ UNCHANGED <<map, refused, picks>>

Moved(k) == IF k.at = "naming" THEN [k EXCEPT !.moved = TRUE] ELSE k

\* Wrong variant: the map can be tapped while the position is on its way.
TapMap_early(p) ==
  /\ map = "open"
  /\ pin' = p
  /\ picks' = [s \in PickSlots |-> Moved(picks[s])]
  /\ UNCHANGED <<map, isLoading, locating, refused>>

\* A tap on the map, which is not there while the spinner is.
TapMap(p) ==
  /\ map = "open" /\ ~isLoading
  /\ pin' = p
  /\ picks' = [s \in PickSlots |-> Moved(picks[s])]
  /\ UNCHANGED <<map, isLoading, locating, refused>>

\* "Confirm and Save": with a pin, its address is asked for; without one there
\* is a message.
Confirm(s) ==
  /\ map = "open" /\ pin # NoPlace /\ picks[s] = NoPick
  /\ picks' = [picks EXCEPT ![s] =
       [at |-> "naming", asked |-> pin, moved |-> FALSE]]
  /\ UNCHANGED <<map, pin, isLoading, locating, refused>>

\* Wrong variant: the address is kept in a field of the State.
Results_shared(s) ==
  {[address |-> a, place |-> pin, moved |-> picks[s].moved] :
     a \in {picks[t].asked : t \in {u \in PickSlots : picks[u] # NoPick}}}

\* What the page is popped with: the coordinates are read after the await.
Results(s) ==
  {[address |-> a, place |-> pin, moved |-> picks[s].moved] :
     a \in {picks[s].asked, NoAddress}}

\* The page is popped.
Late(k) == IF k = NoPick THEN NoPick ELSE LatePick

\* The end of the closing animation: the page's context is dead, and what a
\* confirmation still does with it throws.
MapClosed ==
  /\ map = "closing"
  /\ NoMap

MapTypeOK ==
  /\ map \in {"open", "closing", "gone"}
  /\ pin \in Places \cup {NoPlace}
  /\ isLoading \in BOOLEAN /\ refused \in BOOLEAN
  /\ locating \in {"asking", "fixing", "over"}
  /\ picks \in [PickSlots -> {NoPick, LatePick} \cup Pick]

\* The spinner of the map page stays for good only if the user or the phone
\* said no: _getCurrentLocation is over with the spinner up after a permission
\* that was denied or not to be asked for, or a disabled service, and in no
\* other case.
SpinnerOnlyIfRefused ==
  map = "open" /\ isLoading /\ locating = "over" => refused
=============================================================================
