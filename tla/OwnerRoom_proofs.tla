--------------------------- MODULE OwnerRoom_proofs ---------------------------
(***************************************************************************)
(* Theorems about OwnerRoom and the map page it opens, for all places,     *)
(* numbers of handlers and confirmations in flight, and bounds.            *)
(***************************************************************************)
EXTENDS OwnerRoom, TLAPS

-----------------------------------------------------------------------------
(* The inductive invariant.                                                 *)

\* Where the pin is, and what confirmations know of it: there is none while the
\* spinner is up, and a confirmation holds the place of the pin, or was
\* overtaken by a tap on the map.  Only a page that was popped has late ones.
PinsTrue ==
  /\ locating # "over" => isLoading /\ map # "gone"
  /\ isLoading \/ map = "gone" => pin = NoPlace
  /\ \A s \in PickSlots : picks[s].at = "naming" =>
       pin # NoPlace /\ (picks[s].moved \/ picks[s].asked = pin)
  /\ \A s \in PickSlots : picks[s] # NoPick => map # "gone"
  /\ \A s \in PickSlots : map = "open" => picks[s] # LatePick

\* Such a place, wherever it is stored or under way.
Located(loc) == loc.moved \/ loc.address \in {loc.place, NoAddress}
PlacesTrue ==
  /\ \A s \in Slots : tasks[s].at = "getting" => Located(tasks[s].loc)
  /\ \A i \in 1..Len(queue) : queue[i].kind = "update" => Located(queue[i].loc)
  /\ room # Gone => Located(room)

\* The map page is above the room's page, which has kept a slot for its result.
MapReady == map = "open" => details = "open" /\ HasFree /\ updates < MaxUpdates

\* A handler that waits for a write waits in the slot the write names, and for
\* that write only.
Waits(w) == tasks[w.slot].at = IF w.kind = "delete" THEN "deleting" ELSE "updating"
SlotsNamed ==
  /\ \A i \in 1..Len(queue) : queue[i].slot # NoSlot => Waits(queue[i])
  /\ \A i, j \in 1..Len(queue) :
       queue[i].slot # NoSlot /\ queue[i].slot = queue[j].slot => i = j

\* Each pop that is due finds its own page on top, unless the pages were used
\* meanwhile.
Deleting(s) == tasks[s].at = "deleting"
PopsOwn ==
  /\ \A s \in Slots : Deleting(s) => details # "gone"
  /\ raced \/
       /\ below
       /\ \A s \in PickSlots : picks[s] # NoPick => map = "open"
       /\ \A s \in Slots : Deleting(s) => details = "open" /\ map # "open"
       /\ \A s, t \in PickSlots : picks[s] # NoPick /\ picks[t] # NoPick => s = t
       /\ \A s, t \in Slots : Deleting(s) /\ Deleting(t) => s = t

\* What was reported as deleted is neither on the server nor in the cache, so
\* its page cannot be opened again.
DeletionKnown == told => cache = Gone /\ DeletedIsGone

\* Nobody waits on a page that is gone.
LeftAlone ==
  details = "gone" =>
    /\ \A i \in 1..Len(queue) : queue[i].slot = NoSlot
    /\ \A s \in Slots : tasks[s].at = "getting" => ~tasks[s].mounted

\* What an open page shows is what will be stored when the writes that nobody
\* waits for have been made, and they come first.  Without such writes it is
\* what is stored, unless another phone has changed that since.
Shows(q, address, stored, known) ==
  LET n == Len(q)
      Alone(i) == q[i].slot = NoSlot
  IN
  /\ \A i \in 1..n : Alone(i) => q[i].kind = "update"
  /\ \A i, j \in 1..n : Alone(j) /\ i < j => Alone(i)
  /\ \A i \in 1..n : Alone(i) /\ (\A j \in 1..n : Alone(j) => j =< i) => address = q[i].loc.address
  /\ known /\ (\A i \in 1..n : ~Alone(i)) => address = stored.address
ShowsLast ==
  details = "open" /\ ~behind /\ room # Gone =>
    /\ \A s \in Slots : tasks[s].at = "getting" => tasks[s].mounted
    /\ Shows(queue, location, room, ~overtaken)

IInv == /\ PinsTrue /\ PlacesTrue /\ MapReady /\ SlotsNamed /\ PopsOwn /\ DeletionKnown
        /\ LeftAlone /\ ShowsLast

-----------------------------------------------------------------------------
(* Types. *)

LEMMA LocationType == ASSUME NEW loc \in Location
  PROVE  /\ loc \in Room /\ loc.address \in Addresses /\ loc.place \in Places
         /\ loc.moved \in BOOLEAN /\ loc.id \in 0..MaxUpdates
BY DEF Location, Room

\* The head of a queue is a write of one of two kinds, and the rest is a queue.
LEMMA HeadType ==
  ASSUME TypeOK, queue # <<>>
  PROVE  /\ Head(queue) \in Update \cup Deletion
         /\ Tail(queue) \in Seq(Update \cup Deletion)
         /\ Head(queue).slot \in Slots \cup {NoSlot}
         /\ Head(queue).kind = "update" => Head(queue).loc \in Location
<1>1. queue \in Seq(Update \cup Deletion)
  BY DEF TypeOK
<1>2. /\ Head(queue) \in Update \cup Deletion
      /\ Tail(queue) \in Seq(Update \cup Deletion)
  BY <1>1
<1> QED
  BY <1>2 DEF Update, Deletion

LEMMA UnattendedType == TypeOK => Unattended \in Seq(Update \cup Deletion)
<1> SUFFICES ASSUME TypeOK PROVE Unattended \in Seq(Update \cup Deletion)
  OBVIOUS
<1>1. queue \in Seq(Update \cup Deletion)
  BY DEF TypeOK
<1>2. \A i \in 1..Len(queue) :
        [queue[i] EXCEPT !.slot = NoSlot] \in Update \cup Deletion
  <2> SUFFICES ASSUME NEW i \in 1..Len(queue)
               PROVE [queue[i] EXCEPT !.slot = NoSlot] \in Update \cup Deletion
    OBVIOUS
  <2>1. queue[i] \in Update \cup Deletion
    BY <1>1
  <2> QED
    BY <2>1 DEF Update, Deletion
<1>3. /\ Len(queue) \in Nat /\ DOMAIN queue = 1..Len(queue)
      /\ Unattended \in [1..Len(queue) -> Update \cup Deletion]
  BY <1>1, <1>2 DEF Unattended
<1> QED
  BY <1>3

LEMMA FreeType == HasFree => Free \in Slots /\ tasks[Free] = Idle
BY DEF HasFree, Free

LEMMA PopType ==
  ASSUME TypeOK, NEW p \in [PickSlots -> {NoPick, LatePick} \cup Pick], PopTop(p)
  PROVE  /\ below' \in BOOLEAN /\ details' \in {"open", "closing", "gone"}
         /\ map' \in {"open", "closing", "gone"}
         /\ picks' \in [PickSlots -> {NoPick, LatePick} \cup Pick]
<1>1. [s \in PickSlots |-> Late(p[s])] \in [PickSlots -> {NoPick, LatePick} \cup Pick]
  BY DEF Late
<1> QED
  BY <1>1 DEF TypeOK, MapTypeOK, PopTop

\* A pop adds no confirmation, and none is late under a page that is open.
LEMMA PopPicks ==
  ASSUME NEW p \in [PickSlots -> {NoPick, LatePick} \cup Pick], PopTop(p)
  PROVE  /\ \A s \in PickSlots : picks'[s] # NoPick <=> p[s] # NoPick
         /\ \A s \in PickSlots : picks'[s] = p[s] \/ (picks'[s] = LatePick /\ map' = "closing")
<1>1. CASE picks' = p
  BY <1>1
<1>2. CASE map' = "closing" /\ picks' = [s \in PickSlots |-> Late(p[s])]
  <2>1. \A s \in PickSlots : picks'[s] = Late(p[s])
    BY <1>2
  <2>2. LatePick # NoPick
    BY DEF LatePick, NoPick
  <2> QED
    BY <1>2, <2>1, <2>2 DEF Late
<1> QED
  BY <1>1, <1>2 DEF PopTop

\* The map page's own steps keep the types of its State.
LEMMA MapStepType ==
  ASSUME MapTypeOK,
         \/ PushMap \/ Permitted \/ Positioned \/ MapClosed \/ NoMap
         \/ \E p \in Places : TapMap(p)
  PROVE  MapTypeOK'
<1>1. CASE PushMap
  BY <1>1 DEF PushMap, MapTypeOK
<1>2. CASE Permitted
  BY <1>2 DEF Permitted, MapTypeOK
<1>3. CASE Positioned
  BY <1>3 DEF Positioned, MapTypeOK
<1>4. CASE MapClosed \/ NoMap
  BY <1>4 DEF MapClosed, NoMap, MapTypeOK
<1>5. ASSUME NEW p \in Places, TapMap(p) PROVE MapTypeOK'
  <2>1. \A k \in {NoPick, LatePick} \cup Pick : Moved(k) \in {NoPick, LatePick} \cup Pick
    BY DEF Moved, Pick, NoPick, LatePick
  <2>2. picks' \in [PickSlots -> {NoPick, LatePick} \cup Pick]
    BY <1>5, <2>1 DEF TapMap, MapTypeOK
  <2> QED
    BY <1>5, <2>2 DEF TapMap, MapTypeOK
<1> QED
  BY <1>1, <1>2, <1>3, <1>4, <1>5

LEMMA ConfirmType ==
  ASSUME MapTypeOK, NEW s \in PickSlots, Confirm(s)
  PROVE  MapTypeOK'
<1>1. [at |-> "naming", asked |-> pin, moved |-> FALSE] \in Pick
  BY DEF Confirm, MapTypeOK, Pick
<1>2. picks' \in [PickSlots -> {NoPick, LatePick} \cup Pick]
  BY <1>1 DEF Confirm, MapTypeOK
<1> QED
  BY <1>2 DEF Confirm, MapTypeOK
LEMMA InitType == Init => TypeOK
<1>1. [address |-> Posted, place |-> Posted, moved |-> FALSE, id |-> 0] \in Location
  BY PostedAssumption, BoundsAssumption DEF Location, Addresses
<1>2. Init => MapTypeOK
  BY DEF Init, MapInit, MapTypeOK
<1>3. Init => room \in Room /\ cache \in Room
  BY <1>1 DEF Init, Room
<1>4. Init => queue \in Seq(Update \cup Deletion) /\ tasks \in [Slots -> {Idle} \cup Task]
  BY DEF Init
<1>5. Init => updates \in 0..MaxUpdates
             /\ fate \in [1..MaxUpdates -> {"none", "announced", "stored", "failed"}]
  BY BoundsAssumption DEF Init
<1> QED
  BY <1>2, <1>3, <1>4, <1>5 DEF Init, TypeOK, Addresses

\* A place that comes back from the map page becomes a change of the location.
LEMMA NamedType ==
  ASSUME TypeOK, PinsTrue, MapReady, NEW s \in PickSlots, Named(s)
  PROVE  TypeOK'
<1>1. [picks EXCEPT ![s] = NoPick] \in [PickSlots -> {NoPick, LatePick} \cup Pick]
  BY DEF TypeOK, MapTypeOK
<1>2. /\ below' \in BOOLEAN /\ details' \in {"open", "closing", "gone"}
      /\ map' \in {"open", "closing", "gone"}
      /\ picks' \in [PickSlots -> {NoPick, LatePick} \cup Pick]
  BY <1>1, PopType DEF Named
<1>3. MapTypeOK'
  BY <1>2 DEF Named, TypeOK, MapTypeOK
<1>4. CASE map # "open"
  BY <1>2, <1>3, <1>4 DEF Named, TypeOK, store, past
<1>5. CASE map = "open"
  <2>1. PICK r \in Results(s) : StartUpdate(r)
    BY <1>5 DEF Named
  <2>2. /\ pin \in Places /\ picks[s].moved \in BOOLEAN /\ picks[s].asked \in Places
    <3>1. picks[s] \in Pick
      BY <1>5 DEF Named, PinsTrue, TypeOK, MapTypeOK
    <3> QED
      BY <3>1 DEF PinsTrue, TypeOK, MapTypeOK, Pick
  <2>3. /\ r.address \in Addresses /\ r.place \in Places /\ r.moved \in BOOLEAN
    BY <2>2 DEF Results, Addresses
  <2>4. updates + 1 \in 0..MaxUpdates /\ updates + 1 \in 1..MaxUpdates
    BY <1>5, BoundsAssumption DEF MapReady, TypeOK
  <2>5. [address |-> r.address, place |-> r.place, moved |-> r.moved,
         id |-> updates + 1] \in Location
    BY <2>3, <2>4 DEF Location
  <2>6. \A loc \in Location : [at |-> "getting", loc |-> loc, mounted |-> TRUE] \in Task
    BY DEF Task
  <2>7. tasks' \in [Slots -> {Idle} \cup Task]
    BY <2>1, <2>5, <2>6 DEF StartUpdate, TypeOK
  <2>8. /\ updates' \in 0..MaxUpdates /\ told' \in BOOLEAN
        /\ fate' \in [1..MaxUpdates -> {"none", "announced", "stored", "failed"}]
    BY <2>1, <2>4 DEF StartUpdate, TypeOK
  <2> QED
    BY <1>2, <1>3, <2>7, <2>8 DEF Named, TypeOK, store
<1> QED
  BY <1>4, <1>5

\* What a handler that is getting holds.
LEMMA TaskType ==
  ASSUME TypeOK, NEW s \in Slots, tasks[s].at = "getting"
  PROVE  tasks[s].loc \in Location /\ tasks[s].mounted \in BOOLEAN
BY DEF TypeOK, Task, Idle

LEMMA GetAnsweredType ==
  ASSUME TypeOK, NEW s \in Slots, GetAnswered(s)
  PROVE  TypeOK'
<1>1. tasks[s].loc \in Location /\ tasks[s].mounted \in BOOLEAN
  BY TaskType DEF GetAnswered
<1>2. tasks' \in [Slots -> {Idle} \cup Task]
  <2>1. [at |-> "updating"] \in Task
    BY DEF Task
  <2> QED
    BY <2>1 DEF GetAnswered, SendUpdate, End, TypeOK
<1>3. queue' \in Seq(Update \cup Deletion)
  <2>1. \A n \in Slots \cup {NoSlot} :
          [kind |-> "update", loc |-> tasks[s].loc, slot |-> n] \in Update \cup Deletion
    BY <1>1 DEF Update
  <2>2. (IF tasks[s].mounted THEN s ELSE NoSlot) \in Slots \cup {NoSlot}
    OBVIOUS
  <2>3. \/ UNCHANGED queue
        \/ queue' = Append(queue, [kind |-> "update", loc |-> tasks[s].loc,
                             slot |-> IF tasks[s].mounted THEN s ELSE NoSlot])
    BY DEF GetAnswered, SendUpdate
  <2> QED
    BY <2>1, <2>2, <2>3 DEF TypeOK
<1>4. cache' \in Room
  BY DEF GetAnswered, TypeOK
<1>5. fate' \in [1..MaxUpdates -> {"none", "announced", "stored", "failed"}]
  BY <1>1, LocationType DEF GetAnswered, Settle, TypeOK
<1> QED
  BY <1>2, <1>3, <1>4, <1>5 DEF GetAnswered, TypeOK, owner, mapVars, MapTypeOK

LEMMA UpdateCommittedType ==
  ASSUME TypeOK, UpdateCommitted
  PROVE  TypeOK'
<1> DEFINE w == Head(queue)
<1>1. /\ w.loc \in Location /\ w.slot \in Slots \cup {NoSlot}
      /\ queue' \in Seq(Update \cup Deletion)
  BY HeadType DEF UpdateCommitted
<1>2. /\ w.loc \in Room /\ w.loc.address \in Addresses /\ w.loc.id \in 0..MaxUpdates
  BY <1>1, LocationType
<1>3. tasks' \in [Slots -> {Idle} \cup Task]
  BY <1>1 DEF UpdateCommitted, Release, Waiting, End, TypeOK
<1>4. /\ room' \in Room /\ cache' \in Room /\ location' \in Addresses
      /\ behind' \in BOOLEAN /\ overtaken' \in BOOLEAN
  BY <1>2 DEF UpdateCommitted, TypeOK, Waiting
<1>5. fate' \in [1..MaxUpdates -> {"none", "announced", "stored", "failed"}]
  BY DEF UpdateCommitted, Settle, TypeOK
<1> QED
  BY <1>1, <1>3, <1>4, <1>5 DEF UpdateCommitted, TypeOK, mapVars, MapTypeOK

LEMMA DeletionCommittedType ==
  ASSUME TypeOK, DeletionCommitted
  PROVE  TypeOK'
<1> DEFINE w == Head(queue)
<1>1. w.slot \in Slots \cup {NoSlot} /\ queue' \in Seq(Update \cup Deletion)
  BY HeadType DEF DeletionCommitted
<1>2. tasks' \in [Slots -> {Idle} \cup Task]
  BY <1>1 DEF DeletionCommitted, Release, Waiting, End, TypeOK
<1>3. room' \in Room /\ cache' \in Room
  BY DEF DeletionCommitted, TypeOK, Room
<1>4. /\ below' \in BOOLEAN /\ details' \in {"open", "closing", "gone"}
      /\ map' \in {"open", "closing", "gone"} /\ told' \in BOOLEAN
      /\ picks' \in [PickSlots -> {NoPick, LatePick} \cup Pick]
  <2>1. picks \in [PickSlots -> {NoPick, LatePick} \cup Pick]
    BY DEF TypeOK, MapTypeOK
  <2>2. told' \in BOOLEAN
    BY DEF DeletionCommitted, TypeOK, Waiting
  <2>3. CASE PopTop(picks)
    BY <2>1, <2>2, <2>3, PopType
  <2>4. CASE UNCHANGED <<below, details, map, picks>>
    BY <2>1, <2>2, <2>4 DEF TypeOK, MapTypeOK
  <2> QED
    BY <2>3, <2>4 DEF DeletionCommitted
<1> QED
  BY <1>1, <1>2, <1>3, <1>4 DEF DeletionCommitted, TypeOK, MapTypeOK

\* A result of another phone's map page makes a location.
LEMMA MovedElsewhereType ==
  ASSUME TypeOK, MovedElsewhere
  PROVE  TypeOK'
<1>1. PICK r \in Elsewhere :
        room' = [address |-> r.address, place |-> r.place, moved |-> TRUE, id |-> 0]
  BY DEF MovedElsewhere
<1>2. r.address \in Addresses /\ r.place \in Places
  BY ElsewhereAssumption
<1>3. room' \in Room
  BY <1>1, <1>2, BoundsAssumption DEF Room, Location
<1>4. updates' \in 0..MaxUpdates
  BY BoundsAssumption DEF MovedElsewhere, TypeOK
<1>5. overtaken' \in BOOLEAN
  BY DEF MovedElsewhere
<1> QED
  BY <1>3, <1>4, <1>5 DEF MovedElsewhere, TypeOK, MapTypeOK, owner, mapVars

LEMMA NextType ==
  ASSUME TypeOK, PinsTrue, MapReady, [Next]_vars
  PROVE  TypeOK'
<1>1. CASE Refresh \/ DeletedElsewhere
  BY <1>1 DEF Refresh, DeletedElsewhere, TypeOK, MapTypeOK, Room, owner, past, mapVars
<1>2. CASE Restart
  <2>1. MapTypeOK'
    BY <1>2, MapStepType DEF Restart, TypeOK
  <2>2. fate' \in [1..MaxUpdates -> {"none", "announced", "stored", "failed"}]
    BY <1>2 DEF Restart, TypeOK
  <2> QED
    BY <1>2, <2>1, <2>2, UnattendedType DEF Restart, TypeOK, Addresses
<1>3. CASE OpenDetails
  <2>1. Seen(cache) \in Room
    <3>1. CASE Seen(cache) \in {Gone, cache}
      BY <3>1 DEF TypeOK, Room
    <3>2. CASE Seen(cache) \notin {Gone, cache}
      <4>1. /\ Len(queue) # 0 /\ Seen(cache) = queue[Len(queue)].loc
            /\ \A i \in 1..Len(queue) : queue[i].kind # "delete"
        BY <3>2 DEF Seen
      <4>2. /\ Len(queue) \in 1..Len(queue)
            /\ queue[Len(queue)] \in Update \cup Deletion
        BY <4>1 DEF TypeOK
      <4>3. queue[Len(queue)].kind # "delete"
        BY <4>1, <4>2
      <4>4. queue[Len(queue)] \in Update
        BY <4>2, <4>3 DEF Deletion
      <4> QED
        BY <4>1, <4>4 DEF Update, Room
    <3> QED
      BY <3>1, <3>2
  <2>2. Seen(cache).address \in Addresses
    BY <1>3, <2>1, LocationType DEF OpenDetails, Room
  <2>3. raced' \in BOOLEAN /\ behind' \in BOOLEAN /\ overtaken' \in BOOLEAN
    BY <1>3 DEF OpenDetails
  <2> QED
    BY <1>3, <2>2, <2>3 DEF OpenDetails, TypeOK, MapTypeOK, store, past, mapVars
<1>4. CASE OpenMap
  <2>1. MapTypeOK'
    BY <1>4, MapStepType DEF OpenMap, TypeOK
  <2>2. raced' \in BOOLEAN
    BY <1>4 DEF OpenMap, TypeOK, PopDue
  <2> QED
    BY <1>4, <2>1, <2>2 DEF OpenMap, TypeOK, owner, store, past
<1>5. CASE Back
  <2>1. raced' \in BOOLEAN
    BY <1>5 DEF Back, TypeOK, PopDue
  <2>2. picks \in [PickSlots -> {NoPick, LatePick} \cup Pick]
    BY DEF TypeOK, MapTypeOK
  <2>3. /\ below' \in BOOLEAN /\ details' \in {"open", "closing", "gone"}
        /\ map' \in {"open", "closing", "gone"}
        /\ picks' \in [PickSlots -> {NoPick, LatePick} \cup Pick]
    BY <1>5, <2>2, PopType DEF Back
  <2> QED
    BY <1>5, <2>1, <2>3 DEF Back, TypeOK, MapTypeOK, store, past
<1>6. CASE DetailsClosed
  <2>1. tasks' \in [Slots -> {Idle} \cup Task]
    <3>1. \A t \in {Idle} \cup Task : Left(t) \in {Idle} \cup Task
      BY DEF Left, Task, Idle
    <3> QED
      BY <1>6, <3>1 DEF DetailsClosed, TypeOK
  <2>2. raced' \in BOOLEAN
    BY <1>6 DEF DetailsClosed, TypeOK
  <2> QED
    BY <1>6, <2>1, <2>2, UnattendedType
    DEF DetailsClosed, TypeOK, MapTypeOK, past, mapVars, Addresses
<1>7. CASE CloseMap
  <2>1. MapTypeOK'
    BY <1>7, MapStepType DEF CloseMap, TypeOK
  <2> QED
    BY <1>7, <2>1 DEF CloseMap, TypeOK, owner, store, past
<1>8. CASE MapStep
  <2>1. MapTypeOK'
    BY <1>8, MapStepType DEF MapStep, TypeOK
  <2> QED
    BY <1>8, <2>1 DEF MapStep, TypeOK, owner, store, past
<1>9. ASSUME NEW s \in PickSlots, ConfirmPlace(s) PROVE TypeOK'
  <2>1. MapTypeOK'
    BY <1>9, ConfirmType DEF ConfirmPlace, TypeOK
  <2>2. raced' \in BOOLEAN
    BY <1>9 DEF ConfirmPlace, TypeOK, PopDue
  <2> QED
    BY <1>9, <2>1, <2>2 DEF ConfirmPlace, TypeOK, owner, store, past
<1>10. ASSUME NEW s \in PickSlots, Named(s) PROVE TypeOK'
  BY <1>10, NamedType
<1>11. ASSUME NEW s \in Slots, GetAnswered(s) PROVE TypeOK'
  BY <1>11, GetAnsweredType
<1>12. ASSUME NEW s \in Slots, GetFails(s) PROVE TypeOK'
  <2>1. /\ tasks' \in [Slots -> {Idle} \cup Task]
        /\ fate' \in [1..MaxUpdates -> {"none", "announced", "stored", "failed"}]
    BY <1>12 DEF GetFails, End, Settle, TypeOK
  <2> QED
    BY <1>12, <2>1 DEF GetFails, TypeOK, MapTypeOK, owner, store, mapVars
<1>13. CASE TapDelete
  <2>1. Free \in Slots
    BY <1>13, FreeType DEF TapDelete
  <2>2. tasks' \in [Slots -> {Idle} \cup Task]
    BY <1>13 DEF TapDelete, TypeOK, Task
  <2>3. [kind |-> "delete", slot |-> Free] \in Update \cup Deletion
    BY <2>1 DEF Deletion
  <2>4. queue' \in Seq(Update \cup Deletion)
    BY <1>13, <2>3 DEF TapDelete, TypeOK
  <2>5. raced' \in BOOLEAN
    BY <1>13 DEF TapDelete, TypeOK, PopDue
  <2> QED
    BY <1>13, <2>2, <2>4, <2>5 DEF TapDelete, TypeOK, MapTypeOK, owner, past, mapVars
<1>14. CASE UpdateCommitted
  BY <1>14, UpdateCommittedType
<1>15. CASE DeletionCommitted
  BY <1>15, DeletionCommittedType
<1>16. CASE UNCHANGED vars
  BY <1>16 DEF vars, TypeOK, MapTypeOK, owner, store, past, mapVars
<1>17. CASE MovedElsewhere
  BY <1>17, MovedElsewhereType
<1> QED
  BY <1>1, <1>2, <1>3, <1>4, <1>5, <1>6, <1>7, <1>8, <1>9, <1>10, <1>11, <1>12, <1>13,
     <1>14, <1>15, <1>16, <1>17 DEF Next
-----------------------------------------------------------------------------
(* The invariant holds. *)

LEMMA InitInv == Init => IInv
<1>1. Init => PinsTrue /\ MapReady
  BY DEF Init, MapInit, PinsTrue, MapReady, NoPick
<1>2. Init => PlacesTrue /\ SlotsNamed
  BY DEF Init, PlacesTrue, SlotsNamed, Located, Idle
<1>3. Init => PopsOwn /\ DeletionKnown
  BY DEF Init, MapInit, PopsOwn, Deleting, DeletionKnown, DeletedIsGone, Idle
<1>4. Init => LeftAlone /\ ShowsLast
  BY DEF Init, LeftAlone, ShowsLast, Idle
<1> QED
  BY <1>1, <1>2, <1>3, <1>4 DEF IInv

LEMMA NextPins ==
  ASSUME TypeOK, PinsTrue, [Next]_vars
  PROVE  PinsTrue'
<1> USE DEF PinsTrue
<1>1. CASE Restart \/ CloseMap
  BY <1>1 DEF Restart, CloseMap, MapClosed, NoMap, NoPick
<1>2. CASE OpenMap
  BY <1>2 DEF OpenMap, PushMap, NoPick, LatePick
<1>3. CASE MapStep
  <2>1. CASE Permitted
    BY <2>1 DEF Permitted
  <2>2. CASE Positioned
    BY <2>2, PlacesAssumption DEF Positioned, TypeOK, MapTypeOK
  <2>3. ASSUME NEW p \in Places, TapMap(p) PROVE PinsTrue'
    <3>1. \A s \in PickSlots :
            /\ picks'[s].at = "naming" => picks'[s].moved
            /\ picks[s] # LatePick => picks'[s] # LatePick
      BY <2>3 DEF TapMap, Moved, TypeOK, MapTypeOK, Pick, NoPick, LatePick
    <3> QED
      BY <2>3, <3>1, PlacesAssumption DEF TapMap
  <2> QED
    BY <1>3, <2>1, <2>2, <2>3 DEF MapStep
<1>4. ASSUME NEW s \in PickSlots, ConfirmPlace(s) PROVE PinsTrue'
  <2>1. \A t \in PickSlots : \/ picks'[t] = picks[t]
                            \/ picks'[t] = [at |-> "naming", asked |-> pin, moved |-> FALSE]
    BY <1>4 DEF ConfirmPlace, Confirm, TypeOK, MapTypeOK
  <2>2. /\ UNCHANGED <<map, pin, isLoading, locating>> /\ map = "open" /\ pin # NoPlace
    BY <1>4 DEF ConfirmPlace, Confirm
  <2> QED
    BY <2>1, <2>2 DEF LatePick
<1>5. ASSUME NEW p \in [PickSlots -> {NoPick, LatePick} \cup Pick], PopTop(p),
             \A s \in PickSlots : p[s] \in {NoPick, picks[s]},
             UNCHANGED <<pin, isLoading, locating>>
      PROVE  PinsTrue'
  <2>1. map' = "gone" => map = "gone"
    BY <1>5 DEF PopTop
  <2>2. map' = "open" => map = "open" /\ FALSE
    BY <1>5 DEF PopTop
  <2>3. map # "gone" => map' # "gone"
    BY <2>1
  <2>4. \A s \in PickSlots : picks'[s] \in {NoPick, LatePick, picks[s]}
    BY <1>5, PopPicks
  <2>5. \A s \in PickSlots : picks'[s] # NoPick => picks[s] # NoPick
    BY <1>5, PopPicks
  <2>6. map = "gone" => map' = "gone"
    BY <1>5 DEF PopTop
  <2> QED
    BY <1>5, <2>2, <2>3, <2>4, <2>5, <2>6 DEF NoPick, LatePick
<1>6. picks \in [PickSlots -> {NoPick, LatePick} \cup Pick]
  BY DEF TypeOK, MapTypeOK
<1>7. ASSUME NEW s \in PickSlots, Named(s) PROVE PinsTrue'
  <2>1. [picks EXCEPT ![s] = NoPick] \in [PickSlots -> {NoPick, LatePick} \cup Pick]
    BY <1>6
  <2>2. PopTop([picks EXCEPT ![s] = NoPick]) /\ UNCHANGED <<pin, isLoading, locating>>
    BY <1>7 DEF Named
  <2>3. \A t \in PickSlots : [picks EXCEPT ![s] = NoPick][t] \in {NoPick, picks[t]}
    BY <1>6
  <2> QED
    BY <1>5, <2>1, <2>2, <2>3
<1>9. CASE Back
  BY <1>5, <1>6, <1>9 DEF Back
<1>10. CASE DeletionCommitted
  <2>1. CASE PopTop(picks)
    BY <1>5, <1>6, <1>10, <2>1 DEF DeletionCommitted
  <2>2. CASE UNCHANGED <<map, picks>>
    BY <1>10, <2>2 DEF DeletionCommitted
  <2> QED
    BY <1>10, <2>1, <2>2 DEF DeletionCommitted
<1>8. CASE UNCHANGED mapVars
  BY <1>8 DEF mapVars
<1> QED
  BY <1>1, <1>2, <1>3, <1>4, <1>7, <1>8, <1>9, <1>10
  DEF Next, vars, Refresh, DeletedElsewhere, MovedElsewhere, OpenDetails, DetailsClosed,
      GetAnswered, GetFails, TapDelete, UpdateCommitted

\* What Append, Tail and Unattended do to the writes in a queue.
LEMMA AppendSteps ==
  ASSUME TypeOK, NEW w
  PROVE  /\ Len(Append(queue, w)) = Len(queue) + 1 /\ Len(queue) \in Nat
         /\ Append(queue, w)[Len(queue) + 1] = w
         /\ \A i \in 1..Len(queue) : Append(queue, w)[i] = queue[i]
BY DEF TypeOK

LEMMA TailSteps ==
  ASSUME TypeOK, queue # <<>>
  PROVE  /\ Head(queue) = queue[1] /\ 1 \in 1..Len(queue) /\ Len(queue) \in Nat
         /\ \A i \in 1..Len(Tail(queue)) :
              Tail(queue)[i] = queue[i + 1] /\ i + 1 \in 2..Len(queue)
BY DEF TypeOK

LEMMA UnattendedSteps ==
  ASSUME TypeOK
  PROVE  /\ Len(Unattended) = Len(queue)
         /\ \A i \in 1..Len(queue) :
              /\ Unattended[i].kind = queue[i].kind /\ Unattended[i].slot = NoSlot
              /\ queue[i].kind = "update" => Unattended[i].loc = queue[i].loc
<1>1. /\ DOMAIN queue = 1..Len(queue) /\ Len(queue) \in Nat
      /\ \A i \in 1..Len(queue) : queue[i] \in Update \cup Deletion
  BY DEF TypeOK
<1>2. Len(Unattended) = Len(queue)
  BY <1>1, UnattendedType DEF Unattended
<1>3. \A i \in 1..Len(queue) :
              /\ Unattended[i].kind = queue[i].kind /\ Unattended[i].slot = NoSlot
              /\ queue[i].kind = "update" => Unattended[i].loc = queue[i].loc
  BY <1>1 DEF Unattended, Update, Deletion
<1> QED
  BY <1>2, <1>3

LEMMA NextPlaces ==
  ASSUME TypeOK, PinsTrue, PlacesTrue, [Next]_vars
  PROVE  PlacesTrue'
<1> USE DEF PlacesTrue
<1>1. CASE UNCHANGED <<tasks, queue, room>>
  BY <1>1 DEF Located
<1>2. CASE DeletedElsewhere \/ MovedElsewhere
  <2>1. UNCHANGED <<tasks, queue>>
    BY <1>2 DEF DeletedElsewhere, MovedElsewhere
  <2>2. room' # Gone => Located(room')
    BY <1>2 DEF DeletedElsewhere, MovedElsewhere, Located
  <2> QED
    BY <2>1, <2>2 DEF Located
<1>3. CASE Restart \/ DetailsClosed
  <2>1. \A s \in Slots : tasks'[s].at = "getting" =>
          tasks[s].at = "getting" /\ tasks'[s].loc = tasks[s].loc
    BY <1>3 DEF Restart, DetailsClosed, Left, Idle, TypeOK, Task
  <2>2. queue' = Unattended /\ room' = room
    BY <1>3 DEF Restart, DetailsClosed
  <2>3. \A i \in 1..Len(queue') :
          /\ i \in 1..Len(queue) /\ queue'[i].kind = queue[i].kind
          /\ queue[i].kind = "update" => queue'[i].loc = queue[i].loc
    BY <2>2, UnattendedSteps
  <2> QED
    BY <2>1, <2>2, <2>3 DEF Located
<1>4. ASSUME NEW s \in PickSlots, Named(s) PROVE PlacesTrue'
  <2>1. CASE map # "open"
    BY <1>1, <1>4, <2>1 DEF Named, store
  <2>2. CASE map = "open"
    <3>1. PICK r \in Results(s) : StartUpdate(r)
      BY <1>4, <2>2 DEF Named
    <3>2. picks[s].moved \/ picks[s].asked = pin
      <4>1. picks[s] \in Pick
        BY <1>4, <2>2 DEF Named, PinsTrue, TypeOK, MapTypeOK
      <4> QED
        BY <4>1 DEF PinsTrue, Pick
    <3>3. r.moved \/ r.address \in {r.place, NoAddress}
      BY <3>1, <3>2 DEF Results
    <3>4. \A t \in Slots : tasks'[t].at = "getting" =>
            \/ tasks'[t] = tasks[t]
            \/ tasks'[t].loc = [address |-> r.address, place |-> r.place,
                                moved |-> r.moved, id |-> updates + 1]
      BY <3>1 DEF StartUpdate, TypeOK
    <3>5. queue' = queue /\ room' = room
      BY <1>4 DEF Named, store
    <3> QED
      BY <3>3, <3>4, <3>5 DEF Located
  <2> QED
    BY <2>1, <2>2
<1>5. ASSUME NEW s \in Slots, GetAnswered(s) PROVE PlacesTrue'
  <2>1. \A t \in Slots : tasks'[t].at = "getting" => tasks'[t] = tasks[t]
    BY <1>5 DEF GetAnswered, SendUpdate, End, Idle, TypeOK
  <2>2. \/ queue' = queue
        \/ \E n : queue' = Append(queue, [kind |-> "update", loc |-> tasks[s].loc, slot |-> n])
    BY <1>5 DEF GetAnswered, SendUpdate
  <2>3. room' = room /\ Located(tasks[s].loc)
    BY <1>5 DEF GetAnswered
  <2>4. \A i \in 1..Len(queue') : queue'[i].kind = "update" => Located(queue'[i].loc)
    <3>1. CASE queue' = queue
      BY <3>1
    <3>2. ASSUME NEW n,
                 queue' = Append(queue, [kind |-> "update", loc |-> tasks[s].loc, slot |-> n])
          PROVE \A i \in 1..Len(queue') : queue'[i].kind = "update" => Located(queue'[i].loc)
      BY <2>3, <3>2, AppendSteps
    <3> QED
      BY <2>2, <3>1, <3>2
  <2> QED
    BY <2>1, <2>3, <2>4 DEF Located
<1>6. ASSUME NEW s \in Slots, GetFails(s) PROVE PlacesTrue'
  <2>1. \A t \in Slots : tasks'[t].at = "getting" => tasks'[t] = tasks[t]
    BY <1>6 DEF GetFails, End, Idle, TypeOK
  <2> QED
    BY <1>6, <2>1 DEF GetFails, store, Located
<1>7. CASE TapDelete
  <2>1. \A t \in Slots : tasks'[t].at = "getting" => tasks'[t] = tasks[t]
    BY <1>7 DEF TapDelete, TypeOK
  <2>2. \A i \in 1..Len(queue') : queue'[i].kind = "update" =>
          i \in 1..Len(queue) /\ queue'[i] = queue[i]
    BY <1>7, AppendSteps DEF TapDelete
  <2> QED
    BY <1>7, <2>1, <2>2 DEF TapDelete, Located
<1>8. CASE UpdateCommitted \/ DeletionCommitted
  <2>1. \A t \in Slots : tasks'[t].at = "getting" => tasks'[t] = tasks[t]
    BY <1>8 DEF UpdateCommitted, DeletionCommitted, Release, End, Idle, TypeOK
  <2>2. \A i \in 1..Len(queue') : i + 1 \in 1..Len(queue) /\ queue'[i] = queue[i + 1]
    BY <1>8, TailSteps DEF UpdateCommitted, DeletionCommitted
  <2>3. \/ room' \in {room, Gone}
        \/ queue # <<>> /\ Head(queue).kind = "update" /\ room' = Head(queue).loc
    BY <1>8 DEF UpdateCommitted, DeletionCommitted
  <2>4. room' # Gone => Located(room')
    BY <2>3, TailSteps
  <2> QED
    BY <2>1, <2>2, <2>4 DEF Located
<1> QED
  BY <1>1, <1>2, <1>3, <1>4, <1>5, <1>6, <1>7, <1>8
  DEF Next, vars, Refresh, OpenDetails, Back, OpenMap, CloseMap, MapStep, ConfirmPlace,
      owner, store
\* While the map page is up, no handler starts, so its result finds a slot.
LEMMA NextReady ==
  ASSUME TypeOK, MapReady, [Next]_vars
  PROVE  MapReady'
<1> SUFFICES ASSUME map' = "open"
             PROVE  /\ details' = "open" /\ updates' < MaxUpdates
                    /\ \E s \in Slots : tasks'[s] = Idle
  BY DEF MapReady, HasFree
<1> USE DEF MapReady, HasFree
<1>1. CASE OpenMap
  BY <1>1 DEF OpenMap, owner, store, past
<1>2. CASE UNCHANGED <<map, details, updates, tasks>>
  BY <1>2
<1>3. CASE Restart \/ CloseMap
  BY <1>3 DEF Restart, CloseMap, MapClosed, NoMap
<1>4. CASE Back \/ \E s \in PickSlots : Named(s)
  BY <1>4 DEF Back, Named, PopTop, store, past
<1>5. CASE DetailsClosed \/ OpenDetails
  BY <1>5 DEF DetailsClosed, OpenDetails, mapVars
<1>6. ASSUME NEW s \in Slots, GetAnswered(s) \/ GetFails(s) PROVE \E t \in Slots : tasks'[t] = Idle
  <2>1. \A t \in Slots : tasks[t] = Idle => tasks'[t] = Idle
    BY <1>6 DEF GetAnswered, GetFails, SendUpdate, End, Idle, TypeOK
  <2>2. map = "open"
    BY <1>6 DEF GetAnswered, GetFails, mapVars
  <2> QED
    BY <2>1, <2>2
<1>7. CASE UpdateCommitted \/ DeletionCommitted
  <2>1. \A t \in Slots : tasks[t] = Idle => tasks'[t] = Idle
    BY <1>7 DEF UpdateCommitted, DeletionCommitted, Release, End, TypeOK
  <2>2. map = "open" /\ details' = details /\ updates' = updates
    BY <1>7 DEF UpdateCommitted, DeletionCommitted, PopTop, mapVars
  <2> QED
    BY <2>1, <2>2
<1>8. CASE TapDelete
  BY <1>8 DEF TapDelete, mapVars
<1>9. CASE MovedElsewhere
  BY <1>9 DEF MovedElsewhere, TypeOK, owner, mapVars
<1> QED
  BY <1>1, <1>2, <1>3, <1>4, <1>5, <1>6, <1>7, <1>8, <1>9
  DEF Next, vars, Refresh, DeletedElsewhere, MapStep, Permitted, Positioned, TapMap,
      ConfirmPlace, Confirm, GetAnswered, GetFails, owner, store, past, mapVars

\* A queue and a table of handlers in which every waiting handler is named once.
NamedOnce(q, t) ==
  /\ \A i \in 1..Len(q) : q[i].slot # NoSlot =>
       t[q[i].slot].at = IF q[i].kind = "delete" THEN "deleting" ELSE "updating"
  /\ \A i, j \in 1..Len(q) : q[i].slot # NoSlot /\ q[i].slot = q[j].slot => i = j

\* A handler that begins to wait.
LEMMA AppendNamed ==
  ASSUME TypeOK, SlotsNamed, NEW w, NEW t,
         \A s \in Slots : tasks[s].at \in {"updating", "deleting"} => t[s] = tasks[s],
         w.slot # NoSlot =>
           /\ w.slot \in Slots /\ tasks[w.slot].at \notin {"updating", "deleting"}
           /\ t[w.slot].at = IF w.kind = "delete" THEN "deleting" ELSE "updating"
  PROVE  NamedOnce(Append(queue, w), t)
<1> DEFINE q == Append(queue, w)
           n == Len(queue)
<1>1. /\ Len(q) = n + 1 /\ n \in Nat /\ q[n + 1] = w
      /\ \A i \in 1..n : q[i] = queue[i]
  BY AppendSteps
<1>2. \A i \in 1..n : queue[i].slot \in Slots \cup {NoSlot}
  BY DEF TypeOK, Update, Deletion
<1>3. \A i \in 1..n : queue[i].slot # NoSlot =>
        /\ tasks[queue[i].slot].at \in {"updating", "deleting"}
        /\ tasks[queue[i].slot].at = IF queue[i].kind = "delete" THEN "deleting" ELSE "updating"
  BY DEF SlotsNamed, Waits
<1>4. \A i, j \in 1..n : queue[i].slot # NoSlot /\ queue[i].slot = queue[j].slot => i = j
  BY DEF SlotsNamed
<1>5. \A i \in 1..(n + 1) : i \in 1..n \/ i = n + 1
  BY <1>1
<1> HIDE DEF q, n
<1>6. \A i \in 1..Len(q) : q[i].slot # NoSlot =>
        t[q[i].slot].at = IF q[i].kind = "delete" THEN "deleting" ELSE "updating"
  BY <1>1, <1>2, <1>3, <1>5
<1>7. \A i, j \in 1..Len(q) : q[i].slot # NoSlot /\ q[i].slot = q[j].slot => i = j
  BY <1>1, <1>2, <1>3, <1>4, <1>5
<1> QED
  BY <1>6, <1>7 DEF NamedOnce, q

\* The oldest write is answered, and its handler, if it has one, is released.
LEMMA TailNamed ==
  ASSUME TypeOK, SlotsNamed, queue # <<>>, Release(Head(queue))
  PROVE  NamedOnce(Tail(queue), tasks')
<1> DEFINE q == Tail(queue)
           n == Len(queue)
<1>1. /\ Head(queue) = queue[1] /\ 1 \in 1..n /\ n \in Nat
      /\ \A i \in 1..Len(q) : q[i] = queue[i + 1] /\ i + 1 \in 2..n /\ i + 1 # 1
      /\ \A i, j \in 1..Len(q) : i + 1 = j + 1 => i = j
  BY TailSteps
<1>2. \A i \in 1..n : queue[i].slot \in Slots \cup {NoSlot}
  BY DEF TypeOK, Update, Deletion
<1>3. \A i \in 1..n : queue[i].slot # NoSlot =>
        tasks[queue[i].slot].at = IF queue[i].kind = "delete" THEN "deleting" ELSE "updating"
  BY DEF SlotsNamed, Waits
<1>4. \A i, j \in 1..n : queue[i].slot # NoSlot /\ queue[i].slot = queue[j].slot => i = j
  BY DEF SlotsNamed
<1>5. \A s \in Slots : s # queue[1].slot => tasks'[s] = tasks[s]
  BY <1>1 DEF Release, End, TypeOK
<1>6. \A i \in 1..Len(q) : i + 1 \in 1..n
  BY <1>1
<1> HIDE DEF q, n
<1>7. \A i \in 1..Len(q) : q[i].slot # NoSlot =>
        tasks'[q[i].slot].at = IF q[i].kind = "delete" THEN "deleting" ELSE "updating"
  <2> SUFFICES ASSUME NEW i \in 1..Len(q), q[i].slot # NoSlot
               PROVE tasks'[q[i].slot].at = IF q[i].kind = "delete" THEN "deleting" ELSE "updating"
    OBVIOUS
  <2>1. q[i] = queue[i + 1] /\ i + 1 \in 1..n /\ i + 1 # 1
    BY <1>1, <1>6
  <2>2. queue[i + 1].slot # queue[1].slot
    BY <1>1, <1>4, <2>1
  <2> QED
    BY <1>2, <1>3, <1>5, <2>1, <2>2
<1>8. \A i, j \in 1..Len(q) : q[i].slot # NoSlot /\ q[i].slot = q[j].slot => i = j
  BY <1>1, <1>4, <1>6
<1> QED
  BY <1>7, <1>8 DEF NamedOnce, q
LEMMA NextSlots ==
  ASSUME TypeOK, MapReady, SlotsNamed, [Next]_vars
  PROVE  SlotsNamed'
<1>1. CASE UNCHANGED <<tasks, queue>>
  BY <1>1 DEF SlotsNamed, Waits
<1>2. CASE Restart \/ DetailsClosed
  <2>1. queue' = Unattended
    BY <1>2 DEF Restart, DetailsClosed
  <2> QED
    BY <2>1, UnattendedSteps DEF SlotsNamed
<1>3. ASSUME NEW s \in PickSlots, Named(s) PROVE SlotsNamed'
  <2>1. CASE map # "open"
    BY <1>1, <1>3, <2>1 DEF Named, store
  <2>2. CASE map = "open"
    <3>1. Free \in Slots /\ tasks[Free] = Idle
      BY <2>2, FreeType DEF MapReady
    <3>2. \A t \in Slots : tasks[t].at \in {"updating", "deleting"} => tasks'[t] = tasks[t]
      BY <1>3, <2>2, <3>1 DEF Named, StartUpdate, Idle, TypeOK
    <3>3. queue' = queue /\ \A i \in 1..Len(queue) : queue[i].slot \in Slots \cup {NoSlot}
      BY <1>3 DEF Named, store, TypeOK, Update, Deletion
    <3> QED
      BY <3>2, <3>3 DEF SlotsNamed, Waits
  <2> QED
    BY <2>1, <2>2
<1>4. ASSUME NEW s \in Slots, GetAnswered(s) \/ GetFails(s) PROVE SlotsNamed'
  <2>1. \A t \in Slots : tasks[t].at \in {"updating", "deleting"} => tasks'[t] = tasks[t]
    BY <1>4 DEF GetAnswered, GetFails, SendUpdate, End, TypeOK
  <2>2. CASE queue' = queue
    <3>1. \A i \in 1..Len(queue) : queue[i].slot \in Slots \cup {NoSlot}
      BY DEF TypeOK, Update, Deletion
    <3> QED
      BY <2>1, <2>2, <3>1 DEF SlotsNamed, Waits
  <2>3. CASE queue' # queue
    <3> DEFINE w == [kind |-> "update", loc |-> tasks[s].loc,
                     slot |-> IF tasks[s].mounted THEN s ELSE NoSlot]
    <3>1. /\ tasks[s].at = "getting" /\ queue' = Append(queue, w)
          /\ tasks[s].mounted => tasks'[s].at = "updating"
      BY <1>4, <2>3 DEF GetAnswered, GetFails, SendUpdate, store, TypeOK
    <3>2. w.kind = "update" /\ (w.slot # NoSlot => tasks[s].mounted /\ w.slot = s)
      OBVIOUS
    <3> HIDE DEF w
    <3>3. w.slot # NoSlot =>
           /\ w.slot \in Slots /\ tasks[w.slot].at \notin {"updating", "deleting"}
           /\ tasks'[w.slot].at = IF w.kind = "delete" THEN "deleting" ELSE "updating"
      BY <3>1, <3>2
    <3>4. NamedOnce(queue', tasks')
      BY <2>1, <3>1, <3>3, AppendNamed
    <3> QED
      BY <3>4 DEF NamedOnce, SlotsNamed, Waits
  <2> QED
    BY <2>2, <2>3
<1>5. CASE TapDelete
  <2> DEFINE w == [kind |-> "delete", slot |-> Free]
  <2>1. Free \in Slots /\ tasks[Free] = Idle
    BY <1>5, FreeType DEF TapDelete
  <2>2. /\ queue' = Append(queue, w) /\ tasks'[Free].at = "deleting"
        /\ \A t \in Slots : tasks[t].at \in {"updating", "deleting"} => tasks'[t] = tasks[t]
    BY <1>5, <2>1 DEF TapDelete, Idle, TypeOK
  <2>3. w.kind = "delete" /\ w.slot = Free /\ tasks[Free].at \notin {"updating", "deleting"}
    BY <2>1 DEF Idle
  <2> HIDE DEF w
  <2>4. NamedOnce(queue', tasks')
    BY <2>1, <2>2, <2>3, AppendNamed
  <2> QED
    BY <2>4 DEF NamedOnce, SlotsNamed, Waits
<1>6. CASE UpdateCommitted \/ DeletionCommitted
  <2>1. queue # <<>> /\ Release(Head(queue)) /\ queue' = Tail(queue)
    BY <1>6 DEF UpdateCommitted, DeletionCommitted
  <2>2. NamedOnce(queue', tasks')
    BY <2>1, TailNamed
  <2> QED
    BY <2>2 DEF NamedOnce, SlotsNamed, Waits
<1> QED
  BY <1>1, <1>2, <1>3, <1>4, <1>5, <1>6
  DEF Next, vars, Refresh, DeletedElsewhere, MovedElsewhere, OpenDetails, Back, OpenMap,
      CloseMap, MapStep, ConfirmPlace, store

\* The oldest write, when it is a deletion that somebody waits for.
LEMMA HeadWaits ==
  ASSUME TypeOK, SlotsNamed, DeletionCommitted, Waiting(Head(queue))
  PROVE  /\ Head(queue).slot \in Slots /\ Deleting(Head(queue).slot)
         /\ tasks' = [tasks EXCEPT ![Head(queue).slot] = Idle]
<1>1. /\ queue # <<>> /\ Head(queue).kind = "delete" /\ Head(queue).slot # NoSlot
      /\ Release(Head(queue))
  BY DEF DeletionCommitted, Waiting
<1>2. Head(queue) = queue[1] /\ 1 \in 1..Len(queue)
  BY <1>1, TailSteps
<1>3. Head(queue).slot \in Slots
  BY <1>1, HeadType
<1> QED
  BY <1>1, <1>2, <1>3 DEF SlotsNamed, Waits, Deleting, Release, Waiting, End

\* Steps that begin no deletion and no confirmation, and leave the routes.
LEMMA QuietPops ==
  ASSUME TypeOK, PopsOwn, UNCHANGED <<below, details, map, raced>>,
         \A s \in Slots : Deleting(s)' => Deleting(s),
         \A s \in PickSlots : picks'[s] # NoPick => picks[s] # NoPick
  PROVE  PopsOwn'
BY DEF PopsOwn

LEMMA NextPops ==
  ASSUME TypeOK, PinsTrue, MapReady, SlotsNamed, PopsOwn, [Next]_vars
  PROVE  PopsOwn'
<1> USE DEF Deleting
<1>1. CASE UNCHANGED vars \/ Refresh \/ DeletedElsewhere \/ MovedElsewhere \/ MapStep
  <2>1. UNCHANGED <<below, details, map, raced, tasks>>
    BY <1>1 DEF vars, Refresh, DeletedElsewhere, MovedElsewhere, MapStep, Permitted,
                Positioned, TapMap, owner, mapVars
  <2>2. \A s \in PickSlots : picks'[s] # NoPick => picks[s] # NoPick
    BY <1>1 DEF vars, Refresh, DeletedElsewhere, MovedElsewhere, MapStep, Permitted,
                Positioned, TapMap, Moved, NoPick, TypeOK, MapTypeOK, mapVars
  <2> QED
    BY <2>1, <2>2, QuietPops
<1>2. CASE Restart
  BY <1>2 DEF Restart, NoMap, PopsOwn, Idle
<1>3. CASE OpenDetails
  <2>1. \A s \in PickSlots : picks[s] = NoPick
    BY <1>3 DEF OpenDetails, PinsTrue
  <2> QED
    BY <1>3, <2>1 DEF OpenDetails, PopsOwn, mapVars
<1>4. CASE OpenMap
  <2>1. /\ UNCHANGED <<below, details, tasks, picks>>
        /\ details = "open" /\ map = "gone" /\ map' = "open"
        /\ raced' = (raced \/ PopDue)
    BY <1>4 DEF OpenMap, PushMap, owner
  <2>2. CASE PopDue \/ raced
    BY <2>1, <2>2 DEF PopsOwn
  <2>3. CASE ~PopDue /\ ~raced
    BY <2>1, <2>3 DEF PopsOwn, PopDue
  <2> QED
    BY <2>2, <2>3
<1>5. CASE Back
  <2>1. /\ tasks' = tasks /\ raced' = (raced \/ PopDue)
        /\ details' # "gone" \/ details' = details
        /\ below' = below
    BY <1>5 DEF Back, PopTop
  <2>4. \A s \in PickSlots : picks'[s] # NoPick => picks[s] # NoPick
    BY <1>5, PopPicks DEF Back, TypeOK, MapTypeOK
  <2>2. CASE PopDue \/ raced
    BY <2>1, <2>2, <2>4 DEF PopsOwn
  <2>3. CASE ~PopDue /\ ~raced
    BY <2>1, <2>3, <2>4 DEF PopsOwn, PopDue
  <2> QED
    BY <2>2, <2>3
<1>6. CASE DetailsClosed
  <2>1. \A s \in Slots : ~Deleting(s)'
    BY <1>6 DEF DetailsClosed, Left, Idle, TypeOK, Task
  <2>2. /\ UNCHANGED <<below, map, picks>> /\ raced' = (raced /\ (map # "gone" \/ ~below))
    BY <1>6 DEF DetailsClosed, mapVars
  <2>3. \A s \in PickSlots : map = "gone" => picks[s] = NoPick
    BY DEF PinsTrue
  <2> QED
    BY <2>1, <2>2, <2>3 DEF PopsOwn
<1>7. CASE CloseMap
  BY <1>7 DEF CloseMap, MapClosed, NoMap, owner, PopsOwn
<1>8. ASSUME NEW s \in PickSlots, ConfirmPlace(s) PROVE PopsOwn'
  <2>1. /\ UNCHANGED <<below, details, map, tasks>> /\ raced' = (raced \/ PopDue)
        /\ map = "open" /\ \A t \in PickSlots : t # s => picks'[t] = picks[t]
    BY <1>8 DEF ConfirmPlace, Confirm, owner, TypeOK, MapTypeOK
  <2>2. CASE PopDue \/ raced
    BY <2>1, <2>2 DEF PopsOwn
  <2>3. CASE ~PopDue /\ ~raced
    BY <2>1, <2>3 DEF PopsOwn, PopDue
  <2> QED
    BY <2>2, <2>3
<1>9. ASSUME NEW s \in PickSlots, Named(s) PROVE PopsOwn'
  <2> DEFINE p == [picks EXCEPT ![s] = NoPick]
  <2>6. /\ p \in [PickSlots -> {NoPick, LatePick} \cup Pick] /\ p[s] = NoPick
        /\ \A t \in PickSlots : t # s => p[t] = picks[t]
    BY DEF TypeOK, MapTypeOK
  <2>7. raced' = raced /\ picks[s] # NoPick /\ PopTop(p)
    BY <1>9 DEF Named
  <2> HIDE DEF p
  <2>1. /\ raced' = raced /\ picks[s] # NoPick /\ picks'[s] = NoPick /\ PopTop(p)
        /\ \A t \in PickSlots : picks'[t] # NoPick => t # s /\ picks[t] # NoPick
    BY <2>6, <2>7, PopPicks
  <2>2. \A t \in Slots : Deleting(t)' => Deleting(t)
    BY <1>9 DEF Named, StartUpdate, past, TypeOK
  <2>3. details' = "gone" => details = "gone"
    BY <2>1 DEF PopTop
  <2>4. CASE raced
    BY <2>1, <2>2, <2>3, <2>4 DEF PopsOwn
  <2>5. CASE ~raced
    <3>1. /\ map = "open" /\ below' = below
          /\ \A t \in PickSlots : picks[t] # NoPick => t = s
          /\ \A t \in Slots : ~Deleting(t)
      BY <2>1, <2>5 DEF PopsOwn, PopTop
    <3> QED
      BY <2>1, <2>2, <3>1 DEF PopsOwn
  <2> QED
    BY <2>4, <2>5
<1>10. ASSUME NEW s \in Slots, GetAnswered(s) \/ GetFails(s) PROVE PopsOwn'
  <2>1. \A t \in Slots : Deleting(t)' => Deleting(t)
    BY <1>10 DEF GetAnswered, GetFails, SendUpdate, End, Idle, TypeOK
  <2>2. UNCHANGED <<below, details, map, raced, picks>>
    BY <1>10 DEF GetAnswered, GetFails, owner, mapVars
  <2> QED
    BY <2>1, <2>2, QuietPops
<1>11. CASE TapDelete
  <2>1. /\ UNCHANGED <<below, details, map, picks>> /\ raced' = (raced \/ PopDue)
        /\ details = "open" /\ map # "open"
    BY <1>11 DEF TapDelete, owner, mapVars
  <2>2. \A t \in Slots : t # Free => tasks'[t] = tasks[t]
    BY <1>11 DEF TapDelete, TypeOK
  <2>3. CASE PopDue \/ raced
    BY <2>1, <2>3 DEF PopsOwn
  <2>4. CASE ~PopDue /\ ~raced
    BY <2>1, <2>2, <2>4 DEF PopsOwn, PopDue
  <2> QED
    BY <2>3, <2>4
<1>12. CASE UpdateCommitted
  <2>1. \A t \in Slots : Deleting(t)' => Deleting(t)
    BY <1>12 DEF UpdateCommitted, Release, End, Idle, TypeOK
  <2>2. UNCHANGED <<below, details, map, raced, picks>>
    BY <1>12 DEF UpdateCommitted, mapVars
  <2> QED
    BY <2>1, <2>2, QuietPops
<1>13. CASE DeletionCommitted
  <2>1. \A t \in Slots : Deleting(t)' => Deleting(t)
    BY <1>13 DEF DeletionCommitted, Release, End, Idle, TypeOK
  <2>2. raced' = raced /\ \A t \in PickSlots : picks'[t] # NoPick => picks[t] # NoPick
    <3>1. picks \in [PickSlots -> {NoPick, LatePick} \cup Pick]
      BY DEF TypeOK, MapTypeOK
    <3>2. PopTop(picks) \/ UNCHANGED picks
      BY <1>13 DEF DeletionCommitted
    <3>3. raced' = raced
      BY <1>13 DEF DeletionCommitted
    <3> QED
      BY <3>1, <3>2, <3>3, PopPicks
  <2>3. CASE ~Waiting(Head(queue))
    <3>1. UNCHANGED <<below, details, map>>
      BY <1>13, <2>3 DEF DeletionCommitted
    <3> QED
      BY <2>1, <2>2, <3>1, QuietPops
  <2>4. CASE Waiting(Head(queue))
    <3> DEFINE n == Head(queue).slot
    <3>1. n \in Slots /\ Deleting(n) /\ tasks' = [tasks EXCEPT ![n] = Idle]
      BY <1>13, <2>4, HeadWaits
    <3>2. PopTop(picks)
      BY <1>13, <2>4 DEF DeletionCommitted
    <3> HIDE DEF n
    <3>3. details' = "gone" => details = "gone"
      BY <3>2 DEF PopTop
    <3>4. CASE raced
      BY <2>1, <2>2, <3>3, <3>4 DEF PopsOwn
    <3>5. CASE ~raced
      <4>1. /\ map # "open" /\ details = "open" /\ below
            /\ \A t \in Slots : Deleting(t) => t = n
            /\ \A t \in PickSlots : picks[t] = NoPick
        BY <3>1, <3>5 DEF PopsOwn
      <4>2. below' = below
        BY <3>2, <4>1 DEF PopTop
      <4>3. \A t \in Slots : ~Deleting(t)'
        BY <2>1, <3>1, <4>1 DEF Idle, TypeOK
      <4> QED
        BY <2>2, <4>1, <4>2, <4>3 DEF PopsOwn
    <3> QED
      BY <3>4, <3>5
  <2> QED
    BY <2>3, <2>4
<1> QED
  BY <1>1, <1>2, <1>3, <1>4, <1>5, <1>6, <1>7, <1>8, <1>9, <1>10, <1>11, <1>12, <1>13
  DEF Next
LEMMA NextDeletion ==
  ASSUME TypeOK, SlotsNamed, PopsOwn, DeletionKnown, [Next]_vars
  PROVE  DeletionKnown'
<1> USE DEF DeletionKnown, DeletedIsGone
<1>1. CASE UNCHANGED <<told, room, cache, details, raced>>
  BY <1>1
<1>2. CASE Refresh \/ DeletedElsewhere \/ MovedElsewhere
  BY <1>2 DEF Refresh, DeletedElsewhere, MovedElsewhere, owner, past
<1>3. CASE Restart
  BY <1>3 DEF Restart
<1>4. CASE OpenDetails
  BY <1>4 DEF OpenDetails, Seen, store, past
<1>5. CASE OpenMap \/ \E s \in PickSlots : ConfirmPlace(s)
  BY <1>5 DEF OpenMap, ConfirmPlace, owner, store, past
<1>6. CASE Back
  BY <1>6 DEF Back, PopTop, store, past
<1>7. CASE DetailsClosed
  BY <1>7 DEF DetailsClosed, past
<1>8. ASSUME NEW s \in PickSlots, Named(s) PROVE DeletionKnown'
  BY <1>8 DEF Named, StartUpdate, PopTop, store, past
<1>9. ASSUME NEW s \in Slots, GetAnswered(s) PROVE DeletionKnown'
  BY <1>9 DEF GetAnswered, owner
<1>10. CASE TapDelete
  BY <1>10 DEF TapDelete, owner, past
<1>11. CASE UpdateCommitted
  BY <1>11 DEF UpdateCommitted
<1>12. CASE DeletionCommitted
  <2>1. /\ raced' = raced
        /\ \/ room' = Gone /\ cache' = Gone
           \/ UNCHANGED <<room, cache, told>>
    BY <1>12 DEF DeletionCommitted
  <2>2. CASE ~Waiting(Head(queue))
    <3>1. details' = details
      BY <1>12, <2>2 DEF DeletionCommitted
    <3>2. told' => told
      BY <1>12, <2>2, Zenon DEF DeletionCommitted
    <3> QED
      BY <2>1, <3>1, <3>2
  <2>3. CASE Waiting(Head(queue))
    <3>1. PopTop(picks)
      BY <1>12, <2>3 DEF DeletionCommitted
    <3>2. map = "open" => raced
      BY <1>12, <2>3, HeadWaits DEF PopsOwn
    <3>3. details' # "open" \/ raced
      BY <3>1, <3>2 DEF PopTop
    <3> QED
      BY <2>1, <3>1, <3>3
  <2> QED
    BY <2>2, <2>3
<1> QED
  BY <1>1, <1>2, <1>3, <1>4, <1>5, <1>6, <1>7, <1>8, <1>9, <1>10, <1>11, <1>12
  DEF Next, vars, CloseMap, MapStep, GetFails, owner, store, past

LEMMA NextAlone ==
  ASSUME TypeOK, LeftAlone, MapReady, SlotsNamed, [Next]_vars
  PROVE  LeftAlone'
<1> SUFFICES ASSUME details' = "gone"
             PROVE  /\ \A i \in 1..Len(queue') : queue'[i].slot = NoSlot
                    /\ \A s \in Slots : tasks'[s].at = "getting" => ~tasks'[s].mounted
  BY DEF LeftAlone
<1> USE DEF LeftAlone
<1>1. CASE UNCHANGED <<details, queue, tasks>>
  BY <1>1
<1>2. CASE Restart \/ DetailsClosed
  <2>1. \A i \in 1..Len(queue') : queue'[i].slot = NoSlot
    BY <1>2, UnattendedSteps DEF Restart, DetailsClosed
  <2>2. \A s \in Slots : tasks'[s].at = "getting" => ~tasks'[s].mounted
    <3>1. CASE Restart
      BY <3>1 DEF Restart, Idle
    <3>2. CASE DetailsClosed
      BY <3>2, TaskType DEF DetailsClosed, Left, Idle, TypeOK, Task
    <3> QED
      BY <1>2, <3>1, <3>2
  <2> QED
    BY <2>1, <2>2
<1>3. CASE OpenDetails
  BY <1>3 DEF OpenDetails
<1>4. CASE TapDelete
  BY <1>4 DEF TapDelete, owner
<1>5. CASE Back
  BY <1>5 DEF Back, PopTop, store
<1>6. ASSUME NEW s \in PickSlots, Named(s)
      PROVE  UNCHANGED <<details, queue, tasks>>
  BY <1>6 DEF Named, PopTop, MapReady, store
<1>7. ASSUME NEW s \in Slots, GetAnswered(s) \/ GetFails(s)
      PROVE  /\ \A i \in 1..Len(queue') : queue'[i].slot = NoSlot
             /\ \A t \in Slots : tasks'[t].at = "getting" => ~tasks'[t].mounted
  <2>1. details = "gone" /\ tasks[s].at = "getting" /\ ~tasks[s].mounted
    BY <1>7 DEF GetAnswered, GetFails, owner
  <2>2. tasks' = [tasks EXCEPT ![s] = Idle]
    BY <1>7, <2>1 DEF GetAnswered, GetFails, SendUpdate, End
  <2>3. queue' = queue
        \/ queue' = Append(queue, [kind |-> "update", loc |-> tasks[s].loc, slot |-> NoSlot])
    BY <1>7, <2>1 DEF GetAnswered, GetFails, SendUpdate, store
  <2>4. \A i \in 1..Len(queue') : queue'[i].slot = NoSlot
    BY <2>1, <2>3, AppendSteps
  <2> QED
    BY <2>1, <2>2, <2>4 DEF Idle, TypeOK
<1>8. CASE UpdateCommitted \/ DeletionCommitted
  <2>1. details = "gone"
    BY <1>8 DEF UpdateCommitted, DeletionCommitted, PopTop
  <2>2. queue # <<>> /\ queue' = Tail(queue) /\ Release(Head(queue))
    BY <1>8 DEF UpdateCommitted, DeletionCommitted
  <2>3. \A i \in 1..Len(queue') : queue'[i].slot = NoSlot
    BY <2>1, <2>2, TailSteps
  <2>4. tasks' = tasks
    BY <2>1, <2>2, TailSteps DEF Release, Waiting
  <2> QED
    BY <2>1, <2>3, <2>4
<1> QED
  BY <1>1, <1>2, <1>3, <1>4, <1>5, <1>6, <1>7, <1>8
  DEF Next, vars, Refresh, DeletedElsewhere, MovedElsewhere, OpenMap, CloseMap, MapStep,
      ConfirmPlace, owner, store

\* A write that somebody waits for changes nothing yet.
LEMMA AppendShows ==
  ASSUME TypeOK, NEW address, NEW stored, NEW known, NEW w, w.slot # NoSlot,
         Shows(queue, address, stored, known)
  PROVE  Shows(Append(queue, w), address, stored, known)
<1> DEFINE q == Append(queue, w)
           n == Len(queue)
<1>1. /\ Len(q) = n + 1 /\ n \in Nat /\ q[n + 1] = w
      /\ \A i \in 1..n : q[i] = queue[i]
  BY AppendSteps
<1> HIDE DEF q
<1>2. \A i \in 1..Len(q) : q[i].slot = NoSlot => i \in 1..n /\ q[i] = queue[i]
  BY <1>1
<1>3. \A i \in 1..n : i \in 1..Len(q) /\ q[i] = queue[i]
  BY <1>1
<1>4. \A i, j \in 1..Len(q) : q[j].slot = NoSlot /\ i < j => i \in 1..n
  BY <1>1, <1>2
<1>5. Shows(q, address, stored, known)
  BY <1>2, <1>3, <1>4 DEF Shows
<1> QED
  BY <1>5 DEF q

\* The oldest write is made, or was one that somebody waits for.
LEMMA TailShows ==
  ASSUME TypeOK, queue # <<>>,
         NEW address, NEW stored, NEW known, NEW address2, NEW stored2, NEW known2,
         Shows(queue, address, stored, known),
         IF Head(queue).slot = NoSlot
         THEN address2 = address /\ stored2 = Head(queue).loc
         ELSE (known => address = stored.address) /\ known2 => address2 = stored2.address
  PROVE  Shows(Tail(queue), address2, stored2, known2)
<1> DEFINE q == Tail(queue)
           n == Len(queue)
<1>1. /\ Head(queue) = queue[1] /\ 1 \in 1..n /\ n \in Nat
      /\ \A i \in 1..Len(q) : q[i] = queue[i + 1] /\ i + 1 \in 1..n /\ 1 < i + 1
      /\ Len(q) = n - 1
  BY TailSteps DEF TypeOK
<1>2. \A j \in 1..n : j = 1 \/ (j - 1 \in 1..Len(q) /\ q[j - 1] = queue[j])
  BY <1>1
<1> HIDE DEF q, n
<1>3. /\ \A i \in 1..n : queue[i].slot = NoSlot => queue[i].kind = "update"
      /\ \A i, j \in 1..n : queue[j].slot = NoSlot /\ i < j => queue[i].slot = NoSlot
      /\ \A i \in 1..n : queue[i].slot = NoSlot
           /\ (\A j \in 1..n : queue[j].slot = NoSlot => j =< i) => address = queue[i].loc.address
      /\ known /\ (\A i \in 1..n : queue[i].slot # NoSlot) => address = stored.address
  BY DEF Shows, n
<1>4. \A i, j \in 1..Len(q) : i < j => i + 1 < j + 1
  BY <1>1
<1>5. \A i \in 1..Len(q) : q[i].slot = NoSlot => q[i].kind = "update"
  BY <1>1, <1>3
<1>6. \A i, j \in 1..Len(q) : q[j].slot = NoSlot /\ i < j => q[i].slot = NoSlot
  <2> SUFFICES ASSUME NEW i \in 1..Len(q), NEW j \in 1..Len(q), q[j].slot = NoSlot, i < j
               PROVE  q[i].slot = NoSlot
    OBVIOUS
  <2>1. i + 1 \in 1..n /\ j + 1 \in 1..n /\ i + 1 < j + 1 /\ queue[j + 1].slot = NoSlot
    BY <1>1, <1>4
  <2>2. queue[i + 1].slot = NoSlot
    BY <1>3, <2>1
  <2> QED
    BY <1>1, <2>2
<1>7. ASSUME queue[1].slot = NoSlot PROVE Shows(q, address2, stored2, known2)
  <2>1. address2 = address /\ stored2 = queue[1].loc
    BY <1>1, <1>7
  <2>2. \A i \in 1..Len(q) : q[i].slot = NoSlot /\ (\A j \in 1..Len(q) : q[j].slot = NoSlot => j =< i)
          => address2 = q[i].loc.address
    <3> SUFFICES ASSUME NEW i \in 1..Len(q), q[i].slot = NoSlot,
                        \A j \in 1..Len(q) : q[j].slot = NoSlot => j =< i
                 PROVE  address2 = q[i].loc.address
      OBVIOUS
    <3>1. i + 1 \in 1..n /\ q[i] = queue[i + 1] /\ 1 =< i + 1
      BY <1>1
    <3>2. \A j \in 1..n : queue[j].slot = NoSlot => j =< i + 1
      <4> SUFFICES ASSUME NEW j \in 1..n, queue[j].slot = NoSlot, j # 1 PROVE j =< i + 1
        BY <3>1
      <4>1. j - 1 \in 1..Len(q) /\ q[j - 1].slot = NoSlot
        BY <1>2
      <4>2. j - 1 =< i
        BY <4>1
      <4> QED
        BY <1>1, <4>2
    <3>3. queue[i + 1].slot = NoSlot
      BY <3>1
    <3> QED
      BY <1>3, <2>1, <3>1, <3>2, <3>3
  <2>3. (\A i \in 1..Len(q) : q[i].slot # NoSlot) => address2 = stored2.address
    <3> SUFFICES ASSUME \A i \in 1..Len(q) : q[i].slot # NoSlot
                 PROVE  address2 = stored2.address
      OBVIOUS
    <3>1. \A j \in 1..n : queue[j].slot = NoSlot => j =< 1
      BY <1>2
    <3> QED
      BY <1>1, <1>3, <1>7, <2>1, <3>1
  <2> QED
    BY <1>5, <1>6, <2>2, <2>3 DEF Shows
<1>8. ASSUME queue[1].slot # NoSlot PROVE Shows(q, address2, stored2, known2)
  <2>1. \A j \in 1..n : 1 < j \/ j = 1
    BY <1>1
  <2>2. \A j \in 1..n : queue[j].slot # NoSlot
    BY <1>1, <1>3, <1>8, <2>1
  <2>3. known2 => address2 = stored2.address
    BY <1>1, <1>3, <1>8, <2>2
  <2>4. \A i \in 1..Len(q) : q[i].slot # NoSlot
    BY <1>1, <2>2
  <2> QED
    BY <2>3, <2>4 DEF Shows
<1> QED
  BY <1>7, <1>8 DEF q

\* A page that is opened shows the last write on its way, or what is stored.
LEMMA OpenShows ==
  ASSUME TypeOK, LeftAlone, OpenDetails
  PROVE  Shows(queue, location', room, ~overtaken')
<1>1. /\ Seen(cache) # Gone /\ location' = Seen(cache).address
      /\ \A i \in 1..Len(queue) : queue[i].slot = NoSlot
      /\ ~overtaken' => (queue = <<>> => cache = room)
  BY DEF OpenDetails, LeftAlone
<1>2. \A i \in 1..Len(queue) : queue[i].kind # "delete"
  BY <1>1 DEF Seen
<1>3. /\ \A i \in 1..Len(queue) : queue[i].kind = "update"
      /\ Len(queue) \in Nat
      /\ Len(queue) = 0 => queue = <<>>
  BY <1>2 DEF TypeOK, Update, Deletion
<1>4. CASE Len(queue) = 0
  <2>1. location' = cache.address /\ \A i \in 1..Len(queue) : FALSE
    BY <1>1, <1>3, <1>4 DEF Seen
  <2>2. ~overtaken' => location' = room.address
    BY <1>1, <1>3, <1>4, <2>1
  <2> QED
    BY <2>1, <2>2 DEF Shows
<1>5. CASE Len(queue) # 0
  <2>1. location' = queue[Len(queue)].loc.address /\ Len(queue) \in 1..Len(queue)
    BY <1>1, <1>2, <1>3, <1>5 DEF Seen
  <2>2. \A i \in 1..Len(queue) : Len(queue) =< i => i = Len(queue)
    BY <1>3
  <2> QED
    BY <1>1, <1>3, <2>1, <2>2 DEF Shows
<1> QED
  BY <1>3, <1>4, <1>5

LEMMA NextShows ==
  ASSUME TypeOK, MapReady, LeftAlone, ShowsLast, [Next]_vars
  PROVE  ShowsLast'
<1> SUFFICES ASSUME details' = "open", ~behind', room' # Gone
             PROVE  /\ \A s \in Slots : tasks'[s].at = "getting" => tasks'[s].mounted
                    /\ Shows(queue', location', room', ~overtaken')
  BY DEF ShowsLast
<1> USE DEF ShowsLast
<1>1. CASE UNCHANGED <<details, behind, overtaken, room, tasks, queue, location>>
  BY <1>1
<1>2. CASE DeletedElsewhere \/ Restart \/ DetailsClosed
  BY <1>2 DEF DeletedElsewhere, Restart, DetailsClosed
<1>3. CASE OpenDetails
  <2>1. /\ UNCHANGED <<room, tasks, queue>>
        /\ \A s \in Slots : tasks[s].at # "getting"
    BY <1>3 DEF OpenDetails, store
  <2> QED
    BY <1>3, <2>1, OpenShows
<1>4. CASE Back
  BY <1>1, <1>4 DEF Back, PopTop, store
<1>5. ASSUME NEW s \in PickSlots, Named(s)
      PROVE  /\ \A t \in Slots : tasks'[t].at = "getting" => tasks'[t].mounted
             /\ Shows(queue', location', room', ~overtaken')
  <2>1. UNCHANGED <<details, behind, overtaken, room, queue, location>>
    BY <1>5 DEF Named, PopTop, store
  <2>2. \A t \in Slots : tasks'[t] = tasks[t] \/ tasks'[t].mounted
    BY <1>5 DEF Named, StartUpdate, past, TypeOK
  <2> QED
    BY <2>1, <2>2
<1>6. ASSUME NEW s \in Slots, GetAnswered(s) \/ GetFails(s)
      PROVE  /\ \A t \in Slots : tasks'[t].at = "getting" => tasks'[t].mounted
             /\ Shows(queue', location', room', ~overtaken')
  <2>1. UNCHANGED <<details, behind, overtaken, room, location>> /\ tasks[s].at = "getting"
    BY <1>6 DEF GetAnswered, GetFails, owner, store
  <2>2. tasks[s].mounted
    BY <2>1
  <2>3. \A t \in Slots : tasks'[t].at = "getting" => tasks'[t] = tasks[t]
    BY <1>6 DEF GetAnswered, GetFails, SendUpdate, End, Idle, TypeOK
  <2>4. queue' = queue
        \/ queue' = Append(queue, [kind |-> "update", loc |-> tasks[s].loc, slot |-> s])
    BY <1>6, <2>2 DEF GetAnswered, GetFails, SendUpdate, store
  <2>5. Shows(queue', location', room', ~overtaken')
    <3>1. s # NoSlot
      BY SlotsAssumption
    <3> QED
      BY <2>1, <2>4, <3>1, AppendShows
  <2> QED
    BY <2>1, <2>3, <2>5
<1>7. CASE TapDelete
  <2>1. UNCHANGED <<details, behind, overtaken, room, location>> /\ Free # NoSlot
    BY <1>7, FreeType, SlotsAssumption DEF TapDelete, owner
  <2>2. queue' = Append(queue, [kind |-> "delete", slot |-> Free])
    BY <1>7 DEF TapDelete
  <2>3. \A t \in Slots : tasks'[t].at = "getting" => tasks'[t] = tasks[t]
    BY <1>7 DEF TapDelete, TypeOK
  <2>4. Shows(queue', location', room', ~overtaken')
    BY <2>1, <2>2, AppendShows
  <2> QED
    BY <2>1, <2>3, <2>4
<1>8. CASE UpdateCommitted \/ DeletionCommitted
  <2>1. details = "open" /\ ~behind /\ room # Gone
    <3>1. CASE UpdateCommitted
      <4>1. ~behind
        BY <3>1, ZenonT(30) DEF UpdateCommitted
      <4>2. details = "open" /\ room # Gone
        BY <3>1 DEF UpdateCommitted
      <4> QED
        BY <4>1, <4>2
    <3>2. CASE DeletionCommitted
      <4>1. details = "open"
        BY <3>2 DEF DeletionCommitted, PopTop
      <4> QED
        BY <3>2, <4>1 DEF DeletionCommitted
    <3> QED
      BY <1>8, <3>1, <3>2
  <2>2. queue # <<>> /\ queue' = Tail(queue)
    BY <1>8 DEF UpdateCommitted, DeletionCommitted
  <2>3. \A t \in Slots : tasks'[t].at = "getting" => tasks'[t] = tasks[t]
    BY <1>8 DEF UpdateCommitted, DeletionCommitted, Release, End, Idle, TypeOK
  <2>4. IF Head(queue).slot = NoSlot
        THEN location' = location /\ room' = Head(queue).loc
        ELSE (~overtaken => location = room.address) /\ ~overtaken'
               => location' = room'.address
    <3>1. CASE UpdateCommitted
      <4>1. CASE room' = Head(queue).loc /\ location' = IF Waiting(Head(queue))
                                 THEN Head(queue).loc.address ELSE location
        BY <4>1 DEF Waiting
      <4>2. CASE UNCHANGED <<room, location, overtaken>> /\ behind' = (behind \/ ~Waiting(Head(queue)))
        BY <4>2 DEF Waiting
      <4> QED
        BY <3>1, <4>1, <4>2 DEF UpdateCommitted
    <3>2. CASE DeletionCommitted
      <4>1. Head(queue).slot # NoSlot
        BY <2>1, <2>2, <3>2, TailSteps DEF DeletionCommitted, Shows
      <4> QED
        BY <3>2, <4>1 DEF DeletionCommitted
    <3> QED
      BY <1>8, <3>1, <3>2
  <2>5. Shows(queue', location', room', ~overtaken')
    BY <2>1, <2>2, <2>4, TailShows
  <2> QED
    BY <2>1, <2>3, <2>5
<1>9. CASE MovedElsewhere
  <2>1. UNCHANGED <<details, behind, tasks, queue, location>> /\ room # Gone /\ overtaken'
    BY <1>9 DEF MovedElsewhere, owner
  <2>2. Shows(queue, location, room, ~overtaken)
    BY <2>1
  <2>3. Shows(queue, location, room', ~overtaken')
    BY <2>1, <2>2 DEF Shows
  <2> QED
    BY <2>1, <2>3
<1> QED
  BY <1>1, <1>2, <1>3, <1>4, <1>5, <1>6, <1>7, <1>8, <1>9
  DEF Next, vars, Refresh, OpenMap, CloseMap, MapStep, ConfirmPlace, owner, store

LEMMA NextInv == TypeOK /\ IInv /\ [Next]_vars => IInv'
<1> SUFFICES ASSUME TypeOK, IInv, [Next]_vars PROVE IInv'
  OBVIOUS
<1>1. PinsTrue' /\ PlacesTrue'
  BY NextPins, NextPlaces DEF IInv
<1>2. MapReady' /\ SlotsNamed'
  BY NextReady, NextSlots DEF IInv
<1>3. PopsOwn' /\ DeletionKnown'
  BY NextPops, NextDeletion DEF IInv
<1>4. LeftAlone' /\ ShowsLast'
  BY NextAlone, NextShows DEF IInv
<1> QED
  BY <1>1, <1>2, <1>3, <1>4 DEF IInv

LEMMA InvHolds == Spec => [](TypeOK /\ IInv)
<1>1. Init => TypeOK /\ IInv
  BY InitType, InitInv
<1>2. TypeOK /\ IInv /\ [Next]_vars => (TypeOK /\ IInv)'
  BY NextType, NextInv DEF IInv
<1> QED
  BY <1>1, <1>2, PTL DEF Spec

-----------------------------------------------------------------------------
(* The theorems. *)

\* All variables keep their types, in particular: a place that is confirmed is
\* a place, and finds its room's page with a slot for the change.
THEOREM TypeCorrect == Spec => []TypeOK
BY InvHolds, PTL

\* The address stored with a room is the one of its coordinates, or an error
\* text, unless the pin was moved while it was looked up.
THEOREM AddressTrue == Spec => []AddressNamesPlace
<1>1. IInv => AddressNamesPlace
  BY DEF IInv, PlacesTrue, Located, AddressNamesPlace
<1> QED
  BY <1>1, InvHolds, PTL

\* When nothing is under way, the page shows the address that is stored, unless
\* another phone has changed it and no change of this phone has been made since.
THEOREM ShownStored == Spec => []ShownIsStored
<1>1. TypeOK /\ IInv => ShownIsStored
  <2> SUFFICES ASSUME TypeOK, IInv, details = "open", ~behind, ~overtaken, room # Gone,
                      \A i \in 1..Len(queue) : queue[i].kind # "update"
               PROVE  location = room.address
    BY DEF ShownIsStored
  <2> QED
    BY DEF IInv, ShowsLast, Shows
<1> QED
  BY <1>1, InvHolds, PTL

\* A room reported as deleted stays deleted, and its page is closed, unless the
\* pages were used while the deletion was under way.
THEOREM DeletionFinal == Spec => []DeletedIsGone
<1>1. IInv => DeletedIsGone
  BY DEF IInv, DeletionKnown, DeletedIsGone
<1> QED
  BY <1>1, InvHolds, PTL

\* The landlord's posts are never popped, unless the pages above them were used
\* while a pop was due.
THEOREM PostsKept == Spec => []PostsStay
<1>1. IInv => PostsStay
  BY DEF IInv, PopsOwn, PostsStay
<1> QED
  BY <1>1, InvHolds, PTL

\* The map page's spinner stays for good only after a refusal: every other way
\* out of _getCurrentLocation takes it away, and neither changes of routes nor
\* answers that arrive late bring it back.
THEOREM SpinnerJustified == Spec => []SpinnerOnlyIfRefused
<1>1. Init => SpinnerOnlyIfRefused
  BY DEF Init, MapInit, SpinnerOnlyIfRefused
<1>2. SpinnerOnlyIfRefused /\ [Next]_vars => SpinnerOnlyIfRefused'
  <2> SUFFICES ASSUME SpinnerOnlyIfRefused, [Next]_vars PROVE SpinnerOnlyIfRefused'
    OBVIOUS
  <2> USE DEF SpinnerOnlyIfRefused
  <2>1. CASE Restart \/ CloseMap
    BY <2>1 DEF Restart, CloseMap, MapClosed, NoMap
  <2>2. CASE OpenMap
    BY <2>2 DEF OpenMap, PushMap
  <2>3. CASE MapStep
    BY <2>3 DEF MapStep, Permitted, Positioned, TapMap
  <2>4. ASSUME NEW s \in PickSlots, ConfirmPlace(s) \/ Named(s)
        PROVE  SpinnerOnlyIfRefused'
    BY <2>4 DEF ConfirmPlace, Confirm, Named, PopTop
  <2>5. CASE Back \/ DeletionCommitted
    BY <2>5 DEF Back, DeletionCommitted, PopTop
  <2>6. CASE UNCHANGED mapVars
    BY <2>6 DEF mapVars
  <2> QED
    BY <2>1, <2>2, <2>3, <2>4, <2>5, <2>6
    DEF Next, vars, Refresh, DeletedElsewhere, MovedElsewhere, OpenDetails, DetailsClosed,
        GetAnswered, GetFails, TapDelete, UpdateCommitted
<1> QED
  BY <1>1, <1>2, PTL DEF Spec
=============================================================================
