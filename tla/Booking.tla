------------------------------ MODULE Booking ------------------------------
(***************************************************************************)
(* Booking a room from its details page, and the landlord's view of the    *)
(* booking.  Book() asks Firestore whether this user already booked a      *)
(* house of this title, then adds a document it does not wait for.  The    *)
(* button is never disabled, a phone may be offline, and one user may use  *)
(* several phones.  Firestore is external: an added document is queued on  *)
(* the phone, survives a restart, and is sent later, when the server takes *)
(* it or rejects it; a query sees the server's documents, or offline those *)
(* the phone has kept, and always the queued ones.                         *)
(***************************************************************************)
EXTENDS Naturals, Sequences

CONSTANTS Devices, Users, Rooms, Titles,
          UserOf,       \* the tenant signed in on a device
          TitleOf,      \* the 'name' of a room; nothing makes it unique
          NoRoom,       \* the roomId '' that some lists pass on
          Slots,        \* Book() calls one device can have in flight
          MaxTaps       \* bound on taps of "Book Room"

ASSUME UserOfAssumption == UserOf \in [Devices -> Users]
ASSUME TitleOfAssumption == TitleOf \in [Rooms -> Titles]
ASSUME NoRoomAssumption == NoRoom \notin Rooms
ASSUME BoundsAssumption == MaxTaps \in Nat

\* A bookingList document.  The id stands for Firestore's generated one: it is
\* the number of the tap that made the document.
Doc == [id : Nat, user : Users, title : Titles, roomId : Rooms \cup {NoRoom}]

\* One call of Book() and what it captured.
Idle == [at |-> "idle"]
Task == {Idle} \cup [at : {"asked", "answered"}, doc : Doc, found : BOOLEAN,
                     mounted : BOOLEAN]

NoPage == [room |-> NoRoom, roomId |-> NoRoom]

VARIABLES
  live,      \* rooms not deleted
  page,      \* per device, the details page: the room shown and its roomId
  tasks,     \* per device and slot, the calls of Book() in flight
  pending,   \* per device, added documents not yet sent
  kept,      \* per device, documents of the server it holds in its cache
  bookings,  \* bookingList on the server
  rejected,  \* history: per device, sent documents that the server rejected
  shown,     \* per room, the booking its owner's page shows (0: none)
  taps,      \* history: per tap the device, the room on screen, and whether
             \* the device then held a booking of that title
  told,      \* history: taps answered "Room Booked Successfully"
  refused    \* history: taps answered "You have already booked this room"

vars == <<live, page, tasks, pending, kept, bookings, rejected, shown, taps,
          told, refused>>
store == <<pending, kept, bookings, rejected>>
notes == <<told, refused>>

\* Wrong variant: the query forgets where('bookedHouse').
Matching_anyTitle(docs, user, title) == {b \in docs : b.user = user}

\* The query of Book(): documents of this user with this title.
Matching(docs, user, title) == {b \in docs : b.user = user /\ b.title = title}

Init ==
  /\ live = Rooms
  /\ page = [d \in Devices |-> NoPage]
  /\ tasks = [d \in Devices |-> [s \in Slots |-> Idle]]
  /\ pending = [d \in Devices |-> {}]
  /\ kept = [d \in Devices |-> {}]
  /\ bookings = {}
  /\ rejected = [d \in Devices |-> {}]
  /\ shown = [r \in Rooms |-> 0]
  /\ taps = <<>>
  /\ told = {} /\ refused = {}

\* A card is tapped.  The search result and the list of all rooms pass the
\* document's id; recommended, filtered and saved rooms pass ''.  The list may
\* be older than a deletion.
OpenDetails(d, r) ==
  /\ page[d] = NoPage
  /\ \E id \in {r, NoRoom} : page' = [page EXCEPT ![d] = [room |-> r, roomId |-> id]]
  /\ UNCHANGED <<live, tasks, store, shown, taps, notes>>

\* Closing the page leaves its Book() calls running with a dead context.
CloseDetails(d) ==
  /\ page[d] # NoPage
  /\ page' = [page EXCEPT ![d] = NoPage]
  /\ tasks' = [tasks EXCEPT ![d] = [s \in Slots |->
       IF @[s] = Idle THEN Idle ELSE [@[s] EXCEPT !.mounted = FALSE]]]
  /\ UNCHANGED <<live, store, shown, taps, notes>>

\* "Book Room": Book() captures uid, title and roomId and sends its query.
Tap(d, s) ==
  LET title == TitleOf[page[d].room]
      held  == Matching(kept[d] \cup pending[d], UserOf[d], title)
  IN
  /\ page[d] # NoPage /\ tasks[d][s] = Idle /\ Len(taps) < MaxTaps
  /\ taps' = Append(taps, [device |-> d, room |-> page[d].room, knew |-> held # {}])
  /\ tasks' = [tasks EXCEPT ![d][s] =
       [at |-> "asked", found |-> FALSE, mounted |-> TRUE,
        doc |-> [id |-> Len(taps) + 1, user |-> UserOf[d], title |-> title,
                 roomId |-> page[d].roomId]]]
  /\ UNCHANGED <<live, page, store, shown, notes>>

\* Wrong variant: the query does not see the documents still queued.
Answer_withoutQueue(d, s) ==
  LET b == tasks[d][s].doc IN
  /\ tasks[d][s].at = "asked"
  /\ tasks' = [tasks EXCEPT ![d][s] = [@ EXCEPT !.at = "answered",
       !.found = Matching(bookings, b.user, b.title) # {}]]
  /\ UNCHANGED <<live, page, store, shown, taps, notes>>

\* The query is answered, by the server or offline from what the phone holds.
Answer(d, s) ==
  LET b == tasks[d][s].doc IN
  /\ tasks[d][s].at = "asked"
  /\ \E online \in BOOLEAN :
       LET seen == Matching(IF online THEN bookings ELSE kept[d], b.user, b.title)
       IN /\ kept' = [kept EXCEPT ![d] = @ \cup seen]
          /\ tasks' = [tasks EXCEPT ![d][s] = [@ EXCEPT !.at = "answered",
               !.found = seen \cup Matching(pending[d], b.user, b.title) # {}]]
  /\ UNCHANGED <<live, page, pending, bookings, rejected, shown, taps, notes>>

\* The query throws: a message, and nothing is booked.
AnswerFails(d, s) ==
  /\ tasks[d][s].at = "asked"
  /\ tasks' = [tasks EXCEPT ![d][s] = Idle]
  /\ UNCHANGED <<live, page, store, shown, taps, notes>>

\* A message is shown on the details page; on a dead context it throws.
Notify(d, s, notice) ==
  IF tasks[d][s].mounted THEN notice \cup {tasks[d][s].doc.id} ELSE notice

Refuse(d, s) ==
  /\ tasks[d][s].at = "answered" /\ tasks[d][s].found
  /\ refused' = Notify(d, s, refused)
  /\ tasks' = [tasks EXCEPT ![d][s] = Idle]
  /\ UNCHANGED <<live, page, store, shown, taps, told>>

\* Wrong variant: add() throws and Booking's empty catch swallows it.
Book_swallowed(d, s) ==
  /\ tasks[d][s].at = "answered" /\ ~tasks[d][s].found
  /\ told' = Notify(d, s, told)
  /\ tasks' = [tasks EXCEPT ![d][s] = Idle]
  /\ UNCHANGED <<live, page, store, shown, taps, refused>>

\* Wrong variant: the Bookroom object is added instead of its toJson() map.
Book_object(d, s) ==
  /\ tasks[d][s].at = "answered" /\ ~tasks[d][s].found
  /\ pending' = [pending EXCEPT ![d] = @ \cup {tasks[d][s]}]
  /\ tasks' = [tasks EXCEPT ![d][s] = Idle]
  /\ UNCHANGED <<live, page, kept, bookings, rejected, shown, taps, notes>>

\* Bookroomservice.Booking: add() queues the document and is not awaited, so
\* success is reported at once, whatever becomes of the document.
Book(d, s) ==
  /\ tasks[d][s].at = "answered" /\ ~tasks[d][s].found
  /\ pending' = [pending EXCEPT ![d] = @ \cup {tasks[d][s].doc}]
  /\ told' = Notify(d, s, told)
  /\ tasks' = [tasks EXCEPT ![d][s] = Idle]
  /\ UNCHANGED <<live, page, kept, bookings, rejected, shown, taps, refused>>

\* The phone sends a queued document.  The server takes it, or rejects it: the
\* phone drops it, and add()'s error has nobody left to catch it.
Commit(d) ==
  \E b \in pending[d] :
    /\ pending' = [pending EXCEPT ![d] = @ \ {b}]
    /\ \/ /\ bookings' = bookings \cup {b}
          /\ kept' = [kept EXCEPT ![d] = @ \cup {b}]
          /\ UNCHANGED rejected
       \/ /\ rejected' = [rejected EXCEPT ![d] = @ \cup {b}]
          /\ UNCHANGED <<bookings, kept>>
    /\ UNCHANGED <<live, page, tasks, shown, taps, notes>>

\* deleteRoom removes the room's document and nothing else.
DeleteRoom(r) ==
  /\ r \in live
  /\ live' = live \ {r}
  /\ UNCHANGED <<page, tasks, store, shown, taps, notes>>

\* Wrong variant: the owner's query matches the title, as the tenant's does.
OfRoom_byTitle(r) == {b \in bookings : b.title = TitleOf[r]}

OfRoom(r) == {b \in bookings : b.roomId = r}

\* The owner opens the room's page: where('roomId', isEqualTo: roomId).limit(1)
\* shows one of the room's bookings, or "No Booking Data".  Left out are an
\* answer from the phone's cache, which shows no other booking than some earlier
\* look could, and the text of an error.
OwnerLooks(r) ==
  /\ r \in live
  /\ \/ \E b \in OfRoom(r) : shown' = [shown EXCEPT ![r] = b.id]
     \/ OfRoom(r) = {} /\ shown' = [shown EXCEPT ![r] = 0]
  /\ UNCHANGED <<live, page, tasks, store, taps, notes>>

\* The app dies and is opened again: what Firestore keeps on the phone stays.
Restart(d) ==
  /\ page' = [page EXCEPT ![d] = NoPage]
  /\ tasks' = [tasks EXCEPT ![d] = [s \in Slots |-> Idle]]
  /\ UNCHANGED <<live, store, shown, taps, notes>>

Next ==
  \/ \E d \in Devices :
       \/ \E r \in Rooms : OpenDetails(d, r)
       \/ CloseDetails(d) \/ Commit(d) \/ Restart(d)
       \/ \E s \in Slots : \/ Tap(d, s) \/ Answer(d, s) \/ AnswerFails(d, s)
                           \/ Refuse(d, s) \/ Book(d, s)
  \/ \E r \in Rooms : DeleteRoom(r) \/ OwnerLooks(r)

Spec == Init /\ [][Next]_vars

-----------------------------------------------------------------------------
TypeOK ==
  /\ live \subseteq Rooms
  /\ page \in [Devices -> [room : Rooms \cup {NoRoom}, roomId : Rooms \cup {NoRoom}]]
  /\ \A d \in Devices : page[d] # NoPage => page[d].room \in Rooms
  /\ tasks \in [Devices -> [Slots -> Task]]
  /\ pending \in [Devices -> SUBSET Doc]
  /\ kept \in [Devices -> SUBSET Doc]
  /\ bookings \subseteq Doc
  /\ rejected \in [Devices -> SUBSET Doc]
  /\ shown \in [Rooms -> Nat]
  /\ taps \in Seq([device : Devices, room : Rooms, knew : BOOLEAN])
  /\ told \subseteq Nat /\ refused \subseteq Nat

Booked == bookings \cup UNION {pending[d] : d \in Devices}

\* The query in front of the add: a tap made while the phone already held a
\* booking of this title, sent or still queued, never makes another one,
\* offline or online, across restarts, and with other taps in flight, unless
\* the server has rejected an older one of this phone.
NoRepeatedBooking ==
  \A b \in Booked : taps[b.id].knew =>
    \E c \in rejected[taps[b.id].device] : c.id < b.id /\ c.title = b.title

\* A tap is answered "Room Booked Successfully" only if its document is queued
\* on its phone or stored, and nothing but the server's rejection takes it away
\* again; a refused tap has left no document.
SuccessIsKept ==
  /\ \A i \in told : LET d == taps[i].device IN
       \E b \in pending[d] \cup bookings \cup rejected[d] : b.id = i
  /\ \A i \in refused : \A b \in Booked : b.id # i

\* "You have already booked this room" is said only to a user who has a
\* booking of that title in the queue of this phone or on the server, or had
\* one in the queue that the server rejected.
RefusalHasBooking ==
  \A i \in refused : LET d == taps[i].device IN
    \E b \in pending[d] \cup bookings \cup rejected[d] :
      b.user = UserOf[d] /\ b.title = TitleOf[taps[i].room]

\* The owner's page shows a booking of that room made by the user it names,
\* and keeps showing one: "No Booking Data" never replaces a booking.
OwnerSeesBooking ==
  [][\A r \in Rooms : shown[r] # 0 =>
       /\ shown'[r] # 0
       /\ taps[shown[r]].room = r
       /\ \E b \in bookings : b.id = shown[r] /\ b.user = UserOf[taps[b.id].device]]_vars

\* Every stored booking can be found by the owner of the booked room: the page
\* says "No Booking Data" only when there is none.
StoredBookingIsFindable ==
  \A b \in bookings : \E c \in bookings : c.roomId = taps[b.id].room
=============================================================================
