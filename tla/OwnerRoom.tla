------------------------------ MODULE OwnerRoom ------------------------------
(***************************************************************************)
(* A landlord's page of one room, on one phone: its location is changed    *)
(* through the map page, its bin deletes the room.  A change gets the      *)
(* room's document, then updates it, while "Location Updated Successfully" *)
(* is said at once; a deletion waits for the server and pops the route on  *)
(* top.  Firestore is external: writes are queued on the phone, visible    *)
(* there at once, sent in order, answered in order, kept across restarts.  *)
(* The landlord's other phones change the location and delete the room,    *)
(* too; the page is not told.                                              *)
(***************************************************************************)
EXTENDS MapPage, Sequences

CONSTANTS Posted,       \* where the room was posted
          Slots,        \* handlers of the page that can be in flight
          NoSlot,       \* the handler of a write is gone
          MaxUpdates,   \* bound on changes of the location, on all phones
          Elsewhere     \* results of the map page on the landlord's other phones

ASSUME PostedAssumption == Posted \in Places
ASSUME SlotsAssumption == NoSlot \notin Slots
ASSUME BoundsAssumption == MaxUpdates \in Nat
ASSUME ElsewhereAssumption == Elsewhere \subseteq [address : Addresses, place : Places]

\* The location of a room's document.  History: id is the change on this phone
\* it comes from, 0 for the room as it was posted or changed on another phone;
\* moved is also set for such a change, whose pin is not known here.
Location == [address : Addresses, place : Places, moved : BOOLEAN, id : 0..MaxUpdates]
Gone == [id |-> MaxUpdates + 1]
Room == Location \cup {Gone}

\* updateRoomLocation waiting for get(), whether its page still exists or not,
\* and a handler waiting for its write.
Idle == [at |-> "idle"]
Task == [at : {"getting"}, loc : Location, mounted : BOOLEAN]
          \cup [at : {"updating", "deleting"}]

\* A write on its way to the server, and the handler that waits for it, if its
\* page exists: on a dead context it can only throw.
Update == [kind : {"update"}, loc : Location, slot : Slots \cup {NoSlot}]
Deletion == [kind : {"delete"}, slot : Slots \cup {NoSlot}]

VARIABLES
  below,     \* the page with the landlord's posts is among the routes
  details,   \* the room's page: "open", "closing" (popped, alive), "gone"
  location,  \* its location, an address
  tasks,     \* per slot, its handlers in flight
  queue,     \* writes of this phone the server has not answered
  room,      \* the room's document on the server
  cache,     \* the document as the phone last saw it there
  updates,   \* changes so far, on all phones
  fate,      \* history: per change "none", "announced", and then "stored" or
             \* "failed" (refused by the server, no such room, get() threw, or
             \* the app was killed before the write)
  told,      \* history: "Deleted Property Successfully" was said
  raced,     \* history: these pages were used while a pop of theirs was due, and
             \* they still are there, or the posts are not
  behind,    \* history: the room's page was opened before a write of an
             \* earlier one was made, or on one that was then rejected
  overtaken  \* history: another phone has changed the location since the page
             \* was opened or showed a change of its own, or before, and the
             \* posts, from which it was opened, did not show that yet

owner == <<below, details, location>>
store == <<queue, room, cache>>
past == <<updates, fate, told>>
vars == <<owner, tasks, store, past, raced, behind, overtaken, mapVars>>

Init ==
  /\ below = TRUE /\ details = "gone" /\ location = NoAddress
  /\ tasks = [s \in Slots |-> Idle]
  /\ queue = <<>>
  /\ room = [address |-> Posted, place |-> Posted, moved |-> FALSE, id |-> 0]
  /\ cache = room
  /\ updates = 0 /\ fate = [i \in 1..MaxUpdates |-> "none"]
  /\ told = FALSE /\ raced = FALSE /\ behind = FALSE /\ overtaken = FALSE
  /\ MapInit

-----------------------------------------------------------------------------
(* Firestore                                                                *)

\* The document as this phone sees it: what the server said, and the phone's
\* own writes; an update changes only a document that exists.
Seen(base) ==
  LET n == Len(queue) IN
  IF base = Gone \/ \E i \in 1..n : queue[i].kind = "delete" THEN Gone
  ELSE IF n = 0 THEN base ELSE queue[n].loc

\* The snapshot of the posts page.
Refresh ==
  /\ cache' = room
  /\ UNCHANGED <<owner, tasks, queue, room, past, raced, behind, overtaken, mapVars>>

DeletedElsewhere ==
  /\ room' = Gone
  /\ UNCHANGED <<owner, tasks, queue, cache, past, raced, behind, overtaken, mapVars>>

\* updateRoomLocation on another phone.  The bound leaves one change to a map
\* page that is open here.
MovedElsewhere ==
  /\ room # Gone
  /\ updates < MaxUpdates /\ (map = "open" => updates + 1 < MaxUpdates)
  /\ updates' = updates + 1
  /\ \E r \in Elsewhere :
       room' = [address |-> r.address, place |-> r.place, moved |-> TRUE, id |-> 0]
  /\ overtaken' = (details # "gone")
  /\ UNCHANGED <<owner, tasks, queue, cache, fate, told, raced, behind, mapVars>>

-----------------------------------------------------------------------------
(* Routes                                                                   *)

PopDue ==
  (\E s \in Slots : tasks[s].at = "deleting") \/ (\E s \in PickSlots : picks[s] # NoPick)

\* Navigator.pop(context), with these confirmations in flight: the route on top
\* goes.
PopTop(p) ==
  \/ /\ map = "open" /\ map' = "closing"
     /\ picks' = [s \in PickSlots |-> Late(p[s])]
     /\ UNCHANGED <<below, details>>
  \/ /\ map # "open" /\ picks' = p
     /\ \/ details = "open" /\ details' = "closing" /\ UNCHANGED <<below, map>>
        \/ details # "open" /\ below' = FALSE /\ UNCHANGED <<details, map>>

\* A room of the list is tapped; its address is passed on.
OpenDetails ==
  /\ below /\ details = "gone" /\ map = "gone" /\ Seen(cache) # Gone
  /\ details' = "open" /\ location' = Seen(cache).address
  /\ raced' = FALSE
  /\ behind' = (\E s \in Slots : tasks[s].at = "getting")
  /\ overtaken' = (queue = <<>> /\ cache # room)
  /\ UNCHANGED <<below, tasks, store, past, mapVars>>

\* The back button, on either page.
Back ==
  /\ map = "open" \/ details = "open"
  /\ PopTop(picks)
  /\ raced' = (raced \/ PopDue)
  /\ UNCHANGED <<location, tasks, store, past, behind, overtaken, pin,
                 isLoading, locating, refused>>

\* What is left of a handler whose page is gone: the write that comes after
\* its get().
Left(t) == IF t.at = "getting" THEN [t EXCEPT !.mounted = FALSE] ELSE Idle

Unattended == [i \in DOMAIN queue |-> [queue[i] EXCEPT !.slot = NoSlot]]

\* The end of the closing animation: the page's context is dead.
DetailsClosed ==
  /\ details = "closing"
  /\ details' = "gone" /\ location' = NoAddress
  /\ tasks' = [s \in Slots |-> Left(tasks[s])] /\ queue' = Unattended
  /\ raced' = (raced /\ (map # "gone" \/ ~below))
  /\ overtaken' = FALSE
  /\ UNCHANGED <<below, room, cache, past, behind, mapVars>>

CloseMap ==
  /\ MapClosed
  /\ UNCHANGED <<owner, tasks, store, past, raced, behind, overtaken>>

\* A slot for the next handler; which one makes no difference.
HasFree == \E s \in Slots : tasks[s] = Idle
Free == CHOOSE s \in Slots : tasks[s] = Idle

OpenMap ==
  /\ details = "open" /\ updates < MaxUpdates
  /\ HasFree
  /\ PushMap
  /\ raced' = (raced \/ PopDue)
  /\ UNCHANGED <<owner, tasks, store, past, behind, overtaken>>

MapStep ==
  /\ \/ Permitted \/ Positioned
     \/ \E p \in Places : TapMap(p)
  /\ UNCHANGED <<owner, tasks, store, past, raced, behind, overtaken>>

ConfirmPlace(s) ==
  /\ Confirm(s)
  /\ raced' = (raced \/ PopDue)
  /\ UNCHANGED <<owner, tasks, store, past, behind, overtaken>>

-----------------------------------------------------------------------------
(* updateRoomLocation and the bin                                           *)

\* The call is not awaited, and success is reported at once.
StartUpdate(result) ==
  LET loc == [address |-> result.address, place |-> result.place,
              moved |-> result.moved, id |-> updates + 1]
  IN
  /\ tasks' = [tasks EXCEPT ![Free] = [at |-> "getting", loc |-> loc, mounted |-> TRUE]]
  /\ updates' = updates + 1
  /\ fate' = [fate EXCEPT ![updates + 1] = "announced"]
  /\ UNCHANGED told

\* Wrong variant: the page shows the new address with the message.
Named_showsAtOnce(s) ==
  /\ picks[s] # NoPick
  /\ PopTop([picks EXCEPT ![s] = NoPick])
  /\ IF map = "open"
     THEN \E r \in Results(s) : StartUpdate(r) /\ location' = r.address
     ELSE UNCHANGED <<tasks, past, location>>
  /\ UNCHANGED <<store, raced, behind, overtaken, pin, isLoading, locating, refused>>

\* The address is there, or an error text in its place.  The map page pops
\* itself, and the room's page takes the result; a later answer pops what is
\* on top by then.
Named(s) ==
  /\ picks[s] # NoPick
  /\ PopTop([picks EXCEPT ![s] = NoPick])
  /\ IF map = "open" THEN \E r \in Results(s) : StartUpdate(r)
     ELSE UNCHANGED <<tasks, past>>
  /\ UNCHANGED <<location, store, raced, behind, overtaken, pin, isLoading, locating,
                 refused>>

End(s) == tasks' = [tasks EXCEPT ![s] = Idle]

Settle(i, what) == fate' = [fate EXCEPT ![i] = what]

SendUpdate(s) ==
  LET t == tasks[s] IN
  /\ queue' = Append(queue, [kind |-> "update", loc |-> t.loc,
                             slot |-> IF t.mounted THEN s ELSE NoSlot])
  /\ IF t.mounted THEN tasks' = [tasks EXCEPT ![s] = [at |-> "updating"]] ELSE End(s)

\* Wrong variant: nothing more is done once the page is left.
GetAnswered_whileMounted(s) ==
  LET loc == tasks[s].loc IN
  /\ tasks[s].at = "getting"
  /\ \E base \in {room, cache} :
       /\ cache' = base
       /\ \/ /\ Seen(base) # Gone /\ tasks[s].mounted
             /\ SendUpdate(s)
             /\ UNCHANGED fate
          \/ Seen(base) # Gone /\ ~tasks[s].mounted /\ End(s) /\ UNCHANGED <<queue, fate>>
          \/ Seen(base) = Gone /\ End(s) /\ Settle(loc.id, "failed") /\ UNCHANGED queue
  /\ UNCHANGED <<owner, room, updates, told, raced, behind, overtaken, mapVars>>

\* get() is answered, by the server or offline from the cache: a room that
\* exists is updated, otherwise there is "Room doesn't exist".
GetAnswered(s) ==
  LET loc == tasks[s].loc IN
  /\ tasks[s].at = "getting"
  /\ \E base \in {room, cache} :
       /\ cache' = base
       /\ \/ /\ Seen(base) # Gone
             /\ SendUpdate(s)
             /\ UNCHANGED fate
          \/ Seen(base) = Gone /\ End(s) /\ Settle(loc.id, "failed") /\ UNCHANGED queue
  /\ UNCHANGED <<owner, room, updates, told, raced, behind, overtaken, mapVars>>

\* get() throws, outside of the try.
GetFails(s) ==
  /\ tasks[s].at = "getting"
  /\ End(s) /\ Settle(tasks[s].loc.id, "failed")
  /\ UNCHANGED <<owner, store, updates, told, raced, behind, overtaken, mapVars>>

\* Wrong variant: deleteRoom does not await delete().
TapDelete_unawaited ==
  /\ details = "open" /\ map # "open" /\ HasFree
  /\ tasks' = [tasks EXCEPT ![Free] = [at |-> "deleting"]]
  /\ queue' = Append(queue, [kind |-> "delete", slot |-> Free])
  /\ told' = TRUE
  /\ raced' = (raced \/ PopDue)
  /\ UNCHANGED <<owner, room, cache, updates, fate, behind, overtaken, mapVars>>

TapDelete ==
  /\ details = "open" /\ map # "open" /\ HasFree
  /\ tasks' = [tasks EXCEPT ![Free] = [at |-> "deleting"]]
  /\ queue' = Append(queue, [kind |-> "delete", slot |-> Free])
  /\ raced' = (raced \/ PopDue)
  /\ UNCHANGED <<owner, room, cache, past, behind, overtaken, mapVars>>

Waiting(w) == w.slot # NoSlot

Release(w) == IF Waiting(w) THEN End(w.slot) ELSE UNCHANGED tasks

\* The server takes the phone's oldest write, an update, or rejects it, and
\* must do so if there is no such room.  The page shows the address.
UpdateCommitted ==
  LET w == Head(queue) IN
  /\ queue # <<>> /\ w.kind = "update"
  /\ queue' = Tail(queue) /\ Release(w)
  /\ \/ /\ room # Gone
        /\ room' = w.loc /\ cache' = w.loc
        /\ location' = IF Waiting(w) THEN w.loc.address ELSE location
        /\ Settle(w.loc.id, "stored")
        /\ overtaken' = FALSE
        /\ UNCHANGED behind
     \/ /\ Settle(w.loc.id, "failed")
        /\ behind' = (behind \/ ~Waiting(w))
        /\ UNCHANGED <<room, cache, location, overtaken>>
  /\ UNCHANGED <<below, details, updates, told, raced, mapVars>>

\* Wrong variant: the navigator is looked up before the await and outlives the
\* page.
DeletionCommitted_keepsNavigator ==
  LET w == Head(queue) IN
  /\ queue # <<>> /\ w.kind = "delete"
  /\ queue' = Tail(queue) /\ Release(w)
  /\ PopTop(picks)
  /\ \/ room' = Gone /\ cache' = Gone /\ told' = TRUE
     \/ UNCHANGED <<room, cache, told>>
  /\ UNCHANGED <<location, updates, fate, raced, behind, overtaken, pin, isLoading,
                 locating, refused>>

\* The same of a deletion.  Either way the route on top is popped, and then
\* the result is shown.
DeletionCommitted ==
  LET w == Head(queue) IN
  /\ queue # <<>> /\ w.kind = "delete"
  /\ queue' = Tail(queue) /\ Release(w)
  /\ IF Waiting(w) THEN PopTop(picks) ELSE UNCHANGED <<below, details, map, picks>>
  /\ \/ room' = Gone /\ cache' = Gone /\ told' = (told \/ Waiting(w))
     \/ UNCHANGED <<room, cache, told>>
  /\ UNCHANGED <<location, updates, fate, raced, behind, overtaken, pin, isLoading,
                 locating, refused>>

\* The app dies and is opened again: what is queued stays.
Restart ==
  /\ below' = TRUE /\ details' = "gone" /\ location' = NoAddress
  /\ tasks' = [s \in Slots |-> Idle]
  /\ queue' = Unattended
  /\ fate' = [i \in DOMAIN fate |->
       IF \E s \in Slots : tasks[s].at = "getting" /\ tasks[s].loc.id = i
       THEN "failed" ELSE fate[i]]
  /\ raced' = FALSE /\ behind' = FALSE /\ overtaken' = FALSE
  /\ NoMap
  /\ UNCHANGED <<room, cache, updates, told>>

Next ==
  \/ Refresh \/ DeletedElsewhere \/ MovedElsewhere \/ Restart
  \/ OpenDetails \/ OpenMap \/ Back \/ DetailsClosed \/ CloseMap \/ MapStep
  \/ \E s \in PickSlots : ConfirmPlace(s) \/ Named(s)
  \/ \E s \in Slots : GetAnswered(s) \/ GetFails(s)
  \/ TapDelete \/ UpdateCommitted \/ DeletionCommitted

\* A get() is answered, offline from the cache, or throws; what is queued
\* reaches the server.  The landlord promises nothing.
Fairness ==
  /\ \A s \in Slots : WF_vars(GetAnswered(s) \/ GetFails(s))
  /\ WF_vars(UpdateCommitted \/ DeletionCommitted)

Spec == Init /\ [][Next]_vars /\ Fairness

-----------------------------------------------------------------------------
TypeOK ==
  /\ below \in BOOLEAN /\ details \in {"open", "closing", "gone"}
  /\ location \in Addresses
  /\ tasks \in [Slots -> {Idle} \cup Task]
  /\ queue \in Seq(Update \cup Deletion)
  /\ room \in Room /\ cache \in Room
  /\ updates \in 0..MaxUpdates
  /\ fate \in [1..MaxUpdates -> {"none", "announced", "stored", "failed"}]
  /\ told \in BOOLEAN /\ raced \in BOOLEAN
  /\ behind \in BOOLEAN /\ overtaken \in BOOLEAN
  /\ MapTypeOK

\* When nothing is under way, the page shows the address that is stored, though
\* it never reads it again: it follows its own changes, in whatever order they
\* overlap, fail, or are overtaken by a deletion, those that were queued before
\* it was opened, and those made after another phone's.  Another phone's change
\* itself it does not follow: overtaken is claimed of no page.
ShownIsStored ==
  (/\ details = "open" /\ ~behind /\ ~overtaken /\ room # Gone
   /\ \A s \in Slots : tasks[s].at \notin {"getting", "updating"}
   /\ \A i \in 1..Len(queue) : queue[i].kind # "update")
    => location = room.address

\* "Deleted Property Successfully" is true and stays true: no change of the
\* location that was announced before or after brings the room back.  The
\* room's page is closed then, unless it or the map was used while the deletion
\* was under way.
DeletedIsGone == told => room = Gone /\ (details # "open" \/ raced)

\* The address stored with a room, by its post or by this phone, is the one of
\* its coordinates, or an error text, unless the landlord moved the pin while it
\* was looked up: neither the phone's position nor another confirmation comes
\* between.
AddressNamesPlace ==
  room # Gone => room.moved \/ room.address \in {room.place, NoAddress}

\* Confirming a place and deleting a room close these pages and no other: the
\* landlord's posts stay below, with deletions that take days and answers that
\* arrive after the pages were left, unless these were used, or are still being
\* animated away, while a pop was due.
PostsStay == below \/ raced

\* "Location Updated Successfully" becomes true, also when the landlord leaves
\* the page, unless the server refuses it, the room is gone, get() throws or
\* the app is killed before it is answered.
UpdateArrives ==
  \A i \in 1..MaxUpdates :
    (fate[i] = "announced") ~> (fate[i] \in {"stored", "failed"})
=============================================================================
