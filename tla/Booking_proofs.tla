--------------------------- MODULE Booking_proofs ---------------------------
(***************************************************************************)
(* Proofs about Booking, for every set of devices, users, rooms and slots, *)
(* and every assignment of users to devices and of titles to rooms.        *)
(***************************************************************************)
EXTENDS Booking, SequenceTheorems, TLAPS

\* The calls of all other slots stay as they are.
OthersKeep(d, s) ==
  \A e \in Devices, t \in Slots : ~(e = d /\ t = s) => tasks'[e][t] = tasks[e][t]

LEMMA IdleIsTask == Idle \in Task
BY DEF Task

\* Replacing one call by a well-typed one.
LEMMA SetTask ==
  ASSUME TypeOK, NEW d \in Devices, NEW s \in Slots, NEW c \in Task,
         tasks' = [tasks EXCEPT ![d][s] = c]
  PROVE  /\ tasks' \in [Devices -> [Slots -> Task]]
         /\ tasks'[d][s] = c
         /\ OthersKeep(d, s)
BY DEF TypeOK, OthersKeep

\* A call that has asked or has its answer carries a document.
LEMMA BusyTask ==
  ASSUME TypeOK, NEW d \in Devices, NEW s \in Slots, tasks[d][s] # Idle
  PROVE  /\ tasks[d][s] \in [at : {"asked", "answered"}, doc : Doc,
                             found : BOOLEAN, mounted : BOOLEAN]
         /\ tasks[d][s].doc \in Doc
<1>1. tasks[d][s] \in Task
  BY DEF TypeOK
<1> QED
  BY <1>1 DEF Task

LEMMA AtBusy ==
  ASSUME NEW d \in Devices, NEW s \in Slots, tasks[d][s].at \in {"asked", "answered"}
  PROVE  tasks[d][s] # Idle
BY DEF Idle

\* What a tap puts into its slot: a document that says what was on screen.
LEMMA TapEffect ==
  ASSUME TypeOK, NEW d \in Devices, NEW s \in Slots, Tap(d, s)
  PROVE  \E b \in Doc, k \in BOOLEAN :
           /\ b.id = Len(taps) + 1 /\ b.user = UserOf[d]
           /\ page[d].room \in Rooms /\ b.roomId = page[d].roomId
           /\ b.title = TitleOf[page[d].room]
           /\ taps' = Append(taps, [device |-> d, room |-> page[d].room, knew |-> k])
           /\ k = (Matching(kept[d] \cup pending[d], b.user, b.title) # {})
           /\ tasks[d][s] = Idle
           /\ tasks' \in [Devices -> [Slots -> Task]]
           /\ tasks'[d][s] = [at |-> "asked", found |-> FALSE, mounted |-> TRUE, doc |-> b]
           /\ OthersKeep(d, s)
<1> DEFINE b == [id |-> Len(taps) + 1, user |-> UserOf[d],
                 title |-> TitleOf[page[d].room], roomId |-> page[d].roomId]
           k == Matching(kept[d] \cup pending[d], UserOf[d], TitleOf[page[d].room]) # {}
           c == [at |-> "asked", found |-> FALSE, mounted |-> TRUE, doc |-> b]
<1>1. page[d].room \in Rooms /\ page[d].roomId \in Rooms \cup {NoRoom}
  BY DEF Tap, TypeOK
<1>2. Len(taps) \in Nat
  BY DEF TypeOK
<1>3. b \in Doc /\ k \in BOOLEAN
  BY <1>1, <1>2, UserOfAssumption, TitleOfAssumption DEF Doc
<1>4. c \in Task
  BY <1>3 DEF Task
<1>5. /\ taps' = Append(taps, [device |-> d, room |-> page[d].room, knew |-> k])
      /\ tasks' = [tasks EXCEPT ![d][s] = c] /\ tasks[d][s] = Idle
  BY DEF Tap
<1>6. /\ b.id = Len(taps) + 1 /\ b.user = UserOf[d] /\ b.title = TitleOf[page[d].room]
      /\ b.roomId = page[d].roomId
      /\ k = (Matching(kept[d] \cup pending[d], b.user, b.title) # {})
  OBVIOUS
<1>7. c = [at |-> "asked", found |-> FALSE, mounted |-> TRUE, doc |-> b]
  OBVIOUS
<1> HIDE DEF b, k, c
<1>8. /\ tasks' \in [Devices -> [Slots -> Task]] /\ tasks'[d][s] = c /\ OthersKeep(d, s)
  BY <1>4, <1>5, SetTask
<1> QED
  BY <1>1, <1>3, <1>5, <1>6, <1>7, <1>8

\* What the answer of the query does: it can only miss documents that neither
\* the phone's cache nor its queue holds.
LEMMA AnswerEffect ==
  ASSUME TypeOK, NEW d \in Devices, NEW s \in Slots, Answer(d, s),
         kept[d] \subseteq bookings
  PROVE  \E f \in BOOLEAN, seen \in SUBSET bookings :
           LET b == tasks[d][s].doc IN
           /\ tasks[d][s] # Idle /\ b \in Doc
           /\ kept' = [kept EXCEPT ![d] = @ \cup seen]
           /\ Matching(kept[d] \cup pending[d], b.user, b.title) # {} => f
           /\ f => Matching(pending[d] \cup bookings, b.user, b.title) # {}
           /\ tasks' \in [Devices -> [Slots -> Task]]
           /\ tasks'[d][s].at = "answered" /\ tasks'[d][s].found = f
           /\ tasks'[d][s].doc = b /\ tasks'[d][s] # Idle
           /\ OthersKeep(d, s)
<1> DEFINE b == tasks[d][s].doc
<1>1. PICK online \in BOOLEAN :
        LET seen == Matching(IF online THEN bookings ELSE kept[d], b.user, b.title)
        IN /\ kept' = [kept EXCEPT ![d] = @ \cup seen]
           /\ tasks' = [tasks EXCEPT ![d][s] = [@ EXCEPT !.at = "answered",
                !.found = seen \cup Matching(pending[d], b.user, b.title) # {}]]
  BY DEF Answer
<1> DEFINE seen == Matching(IF online THEN bookings ELSE kept[d], b.user, b.title)
           f == seen \cup Matching(pending[d], b.user, b.title) # {}
           c == [tasks[d][s] EXCEPT !.at = "answered", !.found = f]
<1>2. seen \in SUBSET bookings /\ f \in BOOLEAN
  BY DEF Matching
<1>3. /\ Matching(kept[d] \cup pending[d], b.user, b.title) # {} => f
      /\ f => Matching(pending[d] \cup bookings, b.user, b.title) # {}
  BY DEF Matching
<1>4. tasks[d][s] # Idle
  BY AtBusy DEF Answer
<1>5. tasks[d][s] \in [at : {"asked", "answered"}, doc : Doc,
                       found : BOOLEAN, mounted : BOOLEAN] /\ b \in Doc
  BY <1>4, BusyTask
<1> HIDE DEF f, seen
<1>6. c \in Task /\ c.at = "answered" /\ c.found = f /\ c.doc = tasks[d][s].doc
  BY <1>2, <1>5 DEF Task
<1>7. kept' = [kept EXCEPT ![d] = @ \cup seen] /\ tasks' = [tasks EXCEPT ![d][s] = c]
  BY <1>1 DEF f, seen
<1>8. c # Idle
  BY <1>6 DEF Idle
<1> HIDE DEF c
<1>9. /\ tasks' \in [Devices -> [Slots -> Task]] /\ tasks'[d][s] = c /\ OthersKeep(d, s)
  BY <1>6, <1>7, SetTask
<1> QED
  BY <1>2, <1>3, <1>4, <1>5, <1>6, <1>7, <1>8, <1>9

\* Freeing a slot.
LEMMA FreeEffect ==
  ASSUME TypeOK, NEW d \in Devices, NEW s \in Slots,
         tasks' = [tasks EXCEPT ![d][s] = Idle]
  PROVE  /\ tasks' \in [Devices -> [Slots -> Task]]
         /\ tasks'[d][s] = Idle
         /\ OthersKeep(d, s)
BY SetTask, IdleIsTask

\* Closing the page keeps every call and its document.
LEMMA CloseEffect ==
  ASSUME TypeOK, NEW d \in Devices, CloseDetails(d)
  PROVE  /\ tasks' \in [Devices -> [Slots -> Task]]
         /\ \A e \in Devices, t \in Slots :
              /\ tasks'[e][t] = Idle <=> tasks[e][t] = Idle
              /\ tasks[e][t] # Idle =>
                   /\ tasks'[e][t].at = tasks[e][t].at
                   /\ tasks'[e][t].doc = tasks[e][t].doc
                   /\ tasks'[e][t].found = tasks[e][t].found
<1> DEFINE row == [s \in Slots |-> IF tasks[d][s] = Idle THEN Idle
                                   ELSE [tasks[d][s] EXCEPT !.mounted = FALSE]]
<1>1. tasks' = [tasks EXCEPT ![d] = row]
  BY DEF CloseDetails
<1>2. ASSUME NEW e \in Devices, NEW t \in Slots, tasks[e][t] # Idle
      PROVE  LET c == [tasks[e][t] EXCEPT !.mounted = FALSE] IN
             /\ c \in Task /\ c # Idle /\ c.at = tasks[e][t].at
             /\ c.doc = tasks[e][t].doc /\ c.found = tasks[e][t].found
  <2>1. tasks[e][t] \in [at : {"asked", "answered"}, doc : Doc,
                         found : BOOLEAN, mounted : BOOLEAN]
    BY <1>2, BusyTask
  <2> QED
    BY <2>1 DEF Task, Idle
<1>3. row \in [Slots -> Task]
  BY <1>2, IdleIsTask
<1>4. ASSUME NEW e \in Devices, NEW t \in Slots
      PROVE  tasks'[e][t] = IF e = d THEN row[t] ELSE tasks[e][t]
  BY <1>1 DEF TypeOK
<1>5. tasks' \in [Devices -> [Slots -> Task]]
  BY <1>1, <1>3 DEF TypeOK
<1>6. ASSUME NEW e \in Devices, NEW t \in Slots
      PROVE  /\ tasks'[e][t] = Idle <=> tasks[e][t] = Idle
             /\ tasks[e][t] # Idle =>
                  /\ tasks'[e][t].at = tasks[e][t].at
                  /\ tasks'[e][t].doc = tasks[e][t].doc
                  /\ tasks'[e][t].found = tasks[e][t].found
  <2>1. CASE e # d \/ tasks[e][t] = Idle
    BY <1>4, <2>1
  <2>2. CASE e = d /\ tasks[e][t] # Idle
    <3>1. tasks'[e][t] = [tasks[e][t] EXCEPT !.mounted = FALSE]
      BY <1>4, <2>2
    <3> QED
      BY <1>2, <2>2, <3>1
  <2> QED
    BY <2>1, <2>2
<1> QED
  BY <1>5, <1>6

(***************************************************************************)
(* Typing.                                                                 *)
(***************************************************************************)

LEMMA TypeInit == Init => TypeOK
<1> SUFFICES ASSUME Init PROVE TypeOK
  OBVIOUS
<1>1. tasks \in [Devices -> [Slots -> Task]]
  BY IdleIsTask DEF Init
<1>2. taps \in Seq([device : Devices, room : Rooms, knew : BOOLEAN])
  BY DEF Init
<1> QED
  BY <1>1, <1>2, BoundsAssumption DEF Init, TypeOK, NoPage

\* Every step keeps the state well-typed.
LEMMA TypeStep == TypeOK /\ [Next]_vars => TypeOK'
<1> SUFFICES ASSUME TypeOK, [Next]_vars PROVE TypeOK'
  OBVIOUS
<1> USE DEF store, notes
<1>0. CASE UNCHANGED vars
  BY <1>0 DEF TypeOK, vars
<1>1. ASSUME NEW d \in Devices, NEW r \in Rooms, OpenDetails(d, r) PROVE TypeOK'
  BY <1>1 DEF TypeOK, OpenDetails
<1>2. ASSUME NEW d \in Devices, CloseDetails(d) PROVE TypeOK'
  <2>1. tasks' \in [Devices -> [Slots -> Task]]
    BY <1>2, CloseEffect
  <2> QED
    BY <1>2, <2>1 DEF TypeOK, CloseDetails, NoPage
<1>3. ASSUME NEW d \in Devices, Commit(d) PROVE TypeOK'
  <2>1. PICK b \in pending[d] :
          /\ pending' = [pending EXCEPT ![d] = @ \ {b}]
          /\ \/ /\ bookings' = bookings \cup {b}
                /\ kept' = [kept EXCEPT ![d] = @ \cup {b}]
                /\ UNCHANGED rejected
             \/ /\ rejected' = [rejected EXCEPT ![d] = @ \cup {b}]
                /\ UNCHANGED <<bookings, kept>>
          /\ UNCHANGED <<live, page, tasks, shown, taps, told, refused>>
    BY <1>3 DEF Commit
  <2>2. b \in Doc
    BY DEF TypeOK
  <2>3. /\ pending' \in [Devices -> SUBSET Doc] /\ kept' \in [Devices -> SUBSET Doc]
        /\ bookings' \subseteq Doc /\ rejected' \in [Devices -> SUBSET Doc]
    BY <2>1, <2>2 DEF TypeOK
  <2> QED
    BY <2>1, <2>3 DEF TypeOK
<1>4. ASSUME NEW d \in Devices, Restart(d) PROVE TypeOK'
  <2>1. tasks' \in [Devices -> [Slots -> Task]]
    BY <1>4, IdleIsTask DEF TypeOK, Restart
  <2> QED
    BY <1>4, <2>1, BoundsAssumption DEF TypeOK, Restart, NoPage
<1>5. ASSUME NEW d \in Devices, NEW s \in Slots, Tap(d, s) PROVE TypeOK'
  <2>1. PICK b \in Doc, k \in BOOLEAN :
          /\ page[d].room \in Rooms
          /\ taps' = Append(taps, [device |-> d, room |-> page[d].room, knew |-> k])
          /\ tasks' \in [Devices -> [Slots -> Task]]
    BY <1>5, TapEffect
  <2>2. taps' \in Seq([device : Devices, room : Rooms, knew : BOOLEAN])
    BY <2>1 DEF TypeOK
  <2> QED
    BY <1>5, <2>1, <2>2 DEF TypeOK, Tap
<1>6. ASSUME NEW d \in Devices, NEW s \in Slots, Answer(d, s) PROVE TypeOK'
  <2> DEFINE b == tasks[d][s].doc
  <2>1. PICK online \in BOOLEAN :
          LET seen == Matching(IF online THEN bookings ELSE kept[d], b.user, b.title)
          IN /\ kept' = [kept EXCEPT ![d] = @ \cup seen]
             /\ tasks' = [tasks EXCEPT ![d][s] = [@ EXCEPT !.at = "answered",
                  !.found = seen \cup Matching(pending[d], b.user, b.title) # {}]]
    BY <1>6 DEF Answer
  <2>2. tasks[d][s] \in [at : {"asked", "answered"}, doc : Doc,
                         found : BOOLEAN, mounted : BOOLEAN]
    BY <1>6, AtBusy, BusyTask DEF Answer
  <2> DEFINE seen == Matching(IF online THEN bookings ELSE kept[d], b.user, b.title)
             f == seen \cup Matching(pending[d], b.user, b.title) # {}
             c == [tasks[d][s] EXCEPT !.at = "answered", !.found = f]
  <2>3. seen \subseteq Doc /\ f \in BOOLEAN
    BY DEF Matching, TypeOK
  <2>4. tasks' = [tasks EXCEPT ![d][s] = c] /\ kept' = [kept EXCEPT ![d] = @ \cup seen]
    BY <2>1
  <2> HIDE DEF f, seen
  <2>5. c \in Task
    BY <2>2, <2>3 DEF Task
  <2> HIDE DEF c
  <2>6. tasks' \in [Devices -> [Slots -> Task]]
    BY <2>4, <2>5, SetTask
  <2>7. kept' \in [Devices -> SUBSET Doc]
    BY <2>3, <2>4 DEF TypeOK
  <2> QED
    BY <1>6, <2>6, <2>7 DEF TypeOK, Answer
<1>7. ASSUME NEW d \in Devices, NEW s \in Slots, AnswerFails(d, s) PROVE TypeOK'
  BY <1>7, FreeEffect DEF TypeOK, AnswerFails
<1>8. ASSUME NEW d \in Devices, NEW s \in Slots, Refuse(d, s) PROVE TypeOK'
  <2>1. tasks[d][s].doc \in Doc
    BY <1>8, AtBusy, BusyTask DEF Refuse
  <2>2. refused' \subseteq Nat
    BY <1>8, <2>1 DEF Refuse, Notify, Doc, TypeOK
  <2> QED
    BY <1>8, <2>2, FreeEffect DEF TypeOK, Refuse
<1>9. ASSUME NEW d \in Devices, NEW s \in Slots, Book(d, s) PROVE TypeOK'
  <2>1. tasks[d][s].doc \in Doc
    BY <1>9, AtBusy, BusyTask DEF Book
  <2>2. told' \subseteq Nat
    BY <1>9, <2>1 DEF Book, Notify, Doc, TypeOK
  <2>3. pending' \in [Devices -> SUBSET Doc]
    BY <1>9, <2>1 DEF Book, TypeOK
  <2> QED
    BY <1>9, <2>2, <2>3, FreeEffect DEF TypeOK, Book
<1>10. ASSUME NEW r \in Rooms, DeleteRoom(r) PROVE TypeOK'
  BY <1>10 DEF TypeOK, DeleteRoom
<1>11. ASSUME NEW r \in Rooms, OwnerLooks(r) PROVE TypeOK'
  <2>1. \A b \in OfRoom(r) : b.id \in Nat
    BY DEF OfRoom, TypeOK, Doc
  <2>2. shown' \in [Rooms -> Nat]
    BY <1>11, <2>1 DEF TypeOK, OwnerLooks
  <2> QED
    BY <1>11, <2>2 DEF TypeOK, OwnerLooks
<1> QED
  BY <1>0, <1>1, <1>2, <1>3, <1>4, <1>5, <1>6, <1>7, <1>8, <1>9, <1>10, <1>11 DEF Next

\* The variables keep their types in every behaviour.
THEOREM TypeCorrect == Spec => []TypeOK
BY TypeInit, TypeStep, PTL DEF Spec

(***************************************************************************)
(* Bookings.  Between a tap and its answer the phone never loses what it   *)
(* held at the tap: a queued document leaves the queue for the cache, or   *)
(* is rejected.  So a tap made with a booking in hand finds it and adds    *)
(* nothing, or the server has rejected one that is older than the tap.     *)
(***************************************************************************)

LEMMA TapDevice ==
  ASSUME TypeOK, NEW i \in 1 .. Len(taps)
  PROVE  taps[i].device \in Devices
<1>1. taps \in Seq([device : Devices, room : Rooms, knew : BOOLEAN])
  BY DEF TypeOK
<1> DEFINE Taps == [device : Devices, room : Rooms, knew : BOOLEAN]
<1> HIDE DEF Taps
<1>2. taps[i] \in Taps
  BY <1>1, ElementOfSeq DEF Taps
<1> QED
  BY <1>2 DEF Taps

LEMMA MatchingGrows ==
  ASSUME NEW S, NEW T, S \subseteq T, NEW u, NEW t, Matching(S, u, t) # {}
  PROVE  Matching(T, u, t) # {}
BY DEF Matching

\* Those of a set of documents that book for b's user b's title, and are of an
\* earlier tap.
Older(S, b) == {c \in Matching(S, b.user, b.title) : c.id < b.id}

LEMMA OlderGrows ==
  ASSUME NEW S, NEW T, S \subseteq T, NEW b, Older(S, b) # {}
  PROVE  Older(T, b) # {}
BY DEF Older, Matching

\* Every document is that of a logged tap that knew of no booking, or of none
\* but rejected ones; queued ones are queued on the phone of the tap, and a
\* phone's cache has only documents of the server.
DocsLogged ==
  /\ \A d \in Devices : \A b \in pending[d] :
       /\ b.id \in 1 .. Len(taps) /\ taps[b.id].device = d
       /\ taps[b.id].knew => Older(rejected[d], b) # {}
  /\ \A b \in bookings :
       /\ b.id \in 1 .. Len(taps)
       /\ taps[b.id].knew => Older(rejected[taps[b.id].device], b) # {}
  /\ \A d \in Devices : kept[d] \subseteq bookings

\* A call in flight is the only trace of its tap.
OnlyTrace(d, s) ==
  LET i == tasks[d][s].doc.id IN
  /\ i \in 1 .. Len(taps) /\ taps[i].device = d
  /\ i \notin told /\ i \notin refused
  /\ \A e \in Devices : \A x \in pending[e] : x.id # i
  /\ \A x \in bookings : x.id # i
  /\ \A e \in Devices, t \in Slots :
       tasks[e][t] # Idle /\ tasks[e][t].doc.id = i => e = d /\ t = s

\* It carries the user and the title of its tap; what the phone held at the tap
\* it still holds, or the server has rejected it, and the answer says so.
Remembers(d, s) ==
  LET b == tasks[d][s].doc IN
  /\ b.user = UserOf[d] /\ b.title = TitleOf[taps[b.id].room]
  /\ tasks[d][s].at = "asked" /\ taps[b.id].knew =>
       Older(kept[d] \cup pending[d] \cup rejected[d], b) # {}
  /\ tasks[d][s].at = "answered" /\ taps[b.id].knew =>
       tasks[d][s].found \/ Older(rejected[d], b) # {}
  /\ tasks[d][s].at = "answered" /\ tasks[d][s].found =>
       Matching(pending[d] \cup bookings \cup rejected[d], b.user, b.title) # {}

TasksLogged ==
  \A d \in Devices, s \in Slots :
    tasks[d][s] # Idle => OnlyTrace(d, s) /\ Remembers(d, s)

NoticesLogged == told \subseteq 1 .. Len(taps) /\ refused \subseteq 1 .. Len(taps)

IInv == DocsLogged /\ TasksLogged /\ NoticesLogged /\ SuccessIsKept /\ RefusalHasBooking

LEMMA IInit == Init => IInv
BY DEF Init, IInv, DocsLogged, TasksLogged, NoticesLogged, SuccessIsKept,
       RefusalHasBooking, Booked

\* A step that at most drops calls, or their contexts, keeps the invariant.
LEMMA DropStep ==
  ASSUME TypeOK, IInv, UNCHANGED <<store, taps, notes>>,
         \A e \in Devices, t \in Slots : tasks'[e][t] # Idle =>
           /\ tasks[e][t] # Idle /\ tasks'[e][t].at = tasks[e][t].at
           /\ tasks'[e][t].doc = tasks[e][t].doc
           /\ tasks'[e][t].found = tasks[e][t].found
  PROVE  IInv'
<1> USE DEF store, notes
<1>1. DocsLogged' /\ NoticesLogged' /\ SuccessIsKept' /\ RefusalHasBooking'
  BY DEF IInv, DocsLogged, NoticesLogged, SuccessIsKept, RefusalHasBooking, Booked
<1>2. ASSUME NEW d \in Devices, NEW s \in Slots, tasks'[d][s] # Idle
      PROVE  OnlyTrace(d, s)' /\ Remembers(d, s)'
  <2>1. OnlyTrace(d, s) /\ Remembers(d, s)
    BY <1>2 DEF IInv, TasksLogged
  <2>2. OnlyTrace(d, s)'
    BY <1>2, <2>1 DEF OnlyTrace
  <2>3. Remembers(d, s)'
    <3>1. /\ tasks'[d][s].at = tasks[d][s].at /\ tasks'[d][s].doc = tasks[d][s].doc
          /\ tasks'[d][s].found = tasks[d][s].found
          /\ kept' = kept /\ pending' = pending /\ bookings' = bookings /\ taps' = taps
          /\ rejected' = rejected
      BY <1>2
    <3> QED
      BY <2>1, <3>1 DEF Remembers
  <2> QED
    BY <2>2, <2>3
<1>3. TasksLogged'
  BY <1>2 DEF TasksLogged
<1> QED
  BY <1>1, <1>3 DEF IInv

\* A tap takes a fresh number and notes what the phone holds.
LEMMA TapStep ==
  ASSUME TypeOK, IInv, NEW d \in Devices, NEW s \in Slots, Tap(d, s)
  PROVE  IInv'
<1>1. PICK b \in Doc, k \in BOOLEAN :
        /\ b.id = Len(taps) + 1 /\ b.user = UserOf[d]
        /\ page[d].room \in Rooms /\ b.roomId = page[d].roomId
        /\ b.title = TitleOf[page[d].room]
        /\ taps' = Append(taps, [device |-> d, room |-> page[d].room, knew |-> k])
        /\ k = (Matching(kept[d] \cup pending[d], b.user, b.title) # {})
        /\ tasks[d][s] = Idle
        /\ tasks' \in [Devices -> [Slots -> Task]]
        /\ tasks'[d][s] = [at |-> "asked", found |-> FALSE, mounted |-> TRUE, doc |-> b]
        /\ OthersKeep(d, s)
  BY TapEffect
<1>2. UNCHANGED <<pending, kept, bookings, rejected, told, refused>>
  BY DEF Tap, store, notes
<1>3. /\ Len(taps) \in Nat /\ Len(taps') = Len(taps) + 1
      /\ \A i \in 1 .. Len(taps) : taps'[i] = taps[i]
      /\ taps'[b.id] = [device |-> d, room |-> page[d].room, knew |-> k]
  BY <1>1 DEF TypeOK
<1>4. DocsLogged'
  <2>1. \A x \in bookings : taps'[x.id] = taps[x.id]
    BY <1>3 DEF IInv, DocsLogged
  <2> QED
    BY <1>2, <1>3, <2>1 DEF IInv, DocsLogged
<1>5. NoticesLogged'
  BY <1>2, <1>3 DEF IInv, NoticesLogged
<1>6. SuccessIsKept'
  BY <1>2, <1>3 DEF IInv, SuccessIsKept, NoticesLogged, Booked
<1>7. RefusalHasBooking'
  BY <1>2, <1>3 DEF IInv, RefusalHasBooking, NoticesLogged
<1>8. ASSUME NEW e \in Devices, NEW t \in Slots, tasks'[e][t] # Idle
      PROVE  OnlyTrace(e, t)' /\ Remembers(e, t)'
  <2>1. CASE e = d /\ t = s
    <3>1. tasks'[e][t].doc = b /\ tasks'[e][t].at = "asked"
      BY <1>1, <2>1
    <3>2. \A x \in Devices, y \in Slots : tasks'[x][y] # Idle /\ ~(x = d /\ y = s) =>
            tasks'[x][y].doc.id # b.id
      BY <1>1, <1>3 DEF IInv, TasksLogged, OnlyTrace, OthersKeep
    <3>3. OnlyTrace(e, t)'
      BY <1>1, <1>2, <1>3, <2>1, <3>1, <3>2
         DEF OnlyTrace, IInv, DocsLogged, NoticesLogged
    <3>4. Remembers(e, t)'
      <4>1. taps'[b.id].knew = k /\ taps'[b.id].room = page[d].room
        BY <1>3
      <4>2. taps'[b.id].knew => Matching(kept[d] \cup pending[d], b.user, b.title) # {}
        BY <1>1, <4>1
      <4>3. \A x \in kept[d] \cup pending[d] : x.id < b.id
        BY <1>1, <1>3 DEF IInv, DocsLogged
      <4>4. taps'[b.id].knew => Older(kept[d] \cup pending[d] \cup rejected[d], b) # {}
        BY <4>2, <4>3 DEF Older, Matching
      <4> QED
        BY <1>1, <1>2, <2>1, <3>1, <4>1, <4>4 DEF Remembers
    <3> QED
      BY <3>3, <3>4
  <2>2. CASE ~(e = d /\ t = s)
    <3>1. tasks'[e][t] = tasks[e][t] /\ OnlyTrace(e, t) /\ Remembers(e, t)
      BY <1>1, <1>8, <2>2 DEF OthersKeep, IInv, TasksLogged
    <3>2. OnlyTrace(e, t)'
      <4>1. tasks'[d][s].doc = b /\ b.id = Len(taps) + 1
        BY <1>1
      <4>2. \A x \in Devices, y \in Slots : ~(x = d /\ y = s) => tasks'[x][y] = tasks[x][y]
        BY <1>1 DEF OthersKeep
      <4> QED
        BY <1>2, <1>3, <2>2, <3>1, <4>1, <4>2 DEF OnlyTrace
    <3>3. Remembers(e, t)'
      <4>1. taps'[tasks[e][t].doc.id] = taps[tasks[e][t].doc.id]
        BY <1>3, <3>1 DEF OnlyTrace
      <4> QED
        BY <1>2, <3>1, <4>1 DEF Remembers
    <3> QED
      BY <3>2, <3>3
  <2> QED
    BY <2>1, <2>2
<1>9. TasksLogged'
  BY <1>8 DEF TasksLogged
<1> QED
  BY <1>4, <1>5, <1>6, <1>7, <1>9 DEF IInv

\* An answer cannot miss what the phone holds.
LEMMA AnswerStep ==
  ASSUME TypeOK, IInv, NEW d \in Devices, NEW s \in Slots, Answer(d, s)
  PROVE  IInv'
<1>1. kept[d] \subseteq bookings
  BY DEF IInv, DocsLogged
<1>2. PICK f \in BOOLEAN, seen \in SUBSET bookings :
        LET b == tasks[d][s].doc IN
        /\ tasks[d][s] # Idle /\ b \in Doc
        /\ kept' = [kept EXCEPT ![d] = @ \cup seen]
        /\ Matching(kept[d] \cup pending[d], b.user, b.title) # {} => f
        /\ f => Matching(pending[d] \cup bookings, b.user, b.title) # {}
        /\ tasks' \in [Devices -> [Slots -> Task]]
        /\ tasks'[d][s].at = "answered" /\ tasks'[d][s].found = f
        /\ tasks'[d][s].doc = b /\ tasks'[d][s] # Idle
        /\ OthersKeep(d, s)
  BY <1>1, AnswerEffect
<1>3. UNCHANGED <<pending, bookings, rejected, taps, told, refused>> /\ tasks[d][s].at = "asked"
  BY DEF Answer, notes
<1>4. \A e \in Devices : kept[e] \subseteq kept'[e] /\ kept'[e] \subseteq bookings
  BY <1>2 DEF TypeOK, IInv, DocsLogged
<1>5. DocsLogged' /\ NoticesLogged' /\ SuccessIsKept' /\ RefusalHasBooking'
  BY <1>3, <1>4
     DEF IInv, DocsLogged, NoticesLogged, SuccessIsKept, RefusalHasBooking, Booked
<1>6. ASSUME NEW e \in Devices, NEW t \in Slots, tasks'[e][t] # Idle
      PROVE  OnlyTrace(e, t)' /\ Remembers(e, t)'
  <2>1. /\ tasks[e][t] # Idle /\ tasks'[e][t].doc = tasks[e][t].doc
        /\ OnlyTrace(e, t) /\ Remembers(e, t)
    BY <1>2, <1>6 DEF OthersKeep, IInv, TasksLogged
  <2>2. \A x \in Devices, y \in Slots : tasks'[x][y] # Idle =>
          tasks[x][y] # Idle /\ tasks'[x][y].doc = tasks[x][y].doc
    BY <1>2 DEF OthersKeep
  <2>3. OnlyTrace(e, t)'
    BY <1>3, <2>1, <2>2 DEF OnlyTrace
  <2>4. Remembers(e, t)'
    <3>1. CASE e = d /\ t = s
      <4> DEFINE b == tasks[d][s].doc
      <4>1. Older(kept[d] \cup pending[d] \cup rejected[d], b) # {} =>
              Matching(kept[d] \cup pending[d], b.user, b.title) # {}
                \/ Older(rejected[d], b) # {}
        BY DEF Older, Matching
      <4>2. Matching(pending[d] \cup bookings, b.user, b.title) # {} =>
              Matching(pending[d] \cup bookings \cup rejected[d], b.user, b.title) # {}
        BY MatchingGrows
      <4> HIDE DEF b
      <4>3. tasks'[d][s].at = "answered" /\ tasks'[d][s].found = f /\ tasks'[d][s].doc = b
        BY <1>2 DEF b
      <4>4. /\ b.user = UserOf[d] /\ b.title = TitleOf[taps[b.id].room]
            /\ taps[b.id].knew => Older(kept[d] \cup pending[d] \cup rejected[d], b) # {}
        BY <1>3, <2>1, <3>1 DEF Remembers, b
      <4>5. /\ Matching(kept[d] \cup pending[d], b.user, b.title) # {} => f
            /\ f => Matching(pending[d] \cup bookings, b.user, b.title) # {}
        BY <1>2 DEF b
      <4> QED
        BY <1>3, <3>1, <4>1, <4>2, <4>3, <4>4, <4>5 DEF Remembers
    <3>2. CASE ~(e = d /\ t = s)
      <4>1. tasks'[e][t] = tasks[e][t]
        BY <1>2, <3>2 DEF OthersKeep
      <4>2. kept[e] \cup pending[e] \cup rejected[e]
              \subseteq kept'[e] \cup pending'[e] \cup rejected'[e]
        BY <1>3, <1>4
      <4> DEFINE x == tasks[e][t].doc
      <4>3. Older(kept[e] \cup pending[e] \cup rejected[e], x) # {} =>
              Older(kept'[e] \cup pending'[e] \cup rejected'[e], x) # {}
        BY <4>2, OlderGrows
      <4> QED
        BY <1>3, <2>1, <4>1, <4>3 DEF Remembers
    <3> QED
      BY <3>1, <3>2
  <2> QED
    BY <2>3, <2>4
<1>7. TasksLogged'
  BY <1>6 DEF TasksLogged
<1> QED
  BY <1>5, <1>7 DEF IInv

\* The call of a tap is gone once its tap is refused or booked; what the other
\* calls say still holds if documents only move towards the server.
LEMMA OthersStay ==
  ASSUME TypeOK, IInv, NEW d \in Devices, NEW s \in Slots, tasks[d][s] # Idle,
         tasks' = [tasks EXCEPT ![d][s] = Idle], taps' = taps, kept' = kept,
         bookings' = bookings, rejected' = rejected,
         told' \subseteq told \cup {tasks[d][s].doc.id},
         refused' \subseteq refused \cup {tasks[d][s].doc.id},
         \/ pending' = pending
         \/ pending' = [pending EXCEPT ![d] = @ \cup {tasks[d][s].doc}]
  PROVE  TasksLogged'
<1> DEFINE i == tasks[d][s].doc.id
<1>1. tasks'[d][s] = Idle /\ OthersKeep(d, s)
  BY FreeEffect
<1>2. \A e \in Devices : /\ pending[e] \subseteq pending'[e]
                         /\ pending'[e] \subseteq pending[e] \cup {tasks[d][s].doc}
  BY DEF TypeOK
<1>3. ASSUME NEW e \in Devices, NEW t \in Slots, tasks'[e][t] # Idle
      PROVE  OnlyTrace(e, t)' /\ Remembers(e, t)'
  <2> DEFINE x == tasks[e][t].doc
  <2>1. /\ tasks'[e][t] = tasks[e][t] /\ ~(e = d /\ t = s)
        /\ OnlyTrace(e, t) /\ Remembers(e, t)
    BY <1>1, <1>3 DEF OthersKeep, IInv, TasksLogged
  <2>2. OnlyTrace(d, s)
    BY DEF IInv, TasksLogged
  <2>3. x.id # i
    BY <1>3, <2>1, <2>2 DEF OnlyTrace
  <2>4. OnlyTrace(e, t)'
    BY SMTT(30), <1>1, <1>2, <2>1, <2>3 DEF OnlyTrace, OthersKeep
  <2>5. /\ Older(kept[e] \cup pending[e] \cup rejected[e], x) # {} =>
             Older(kept'[e] \cup pending'[e] \cup rejected'[e], x) # {}
        /\ Matching(pending[e] \cup bookings \cup rejected[e], x.user, x.title) # {} =>
             Matching(pending'[e] \cup bookings' \cup rejected'[e], x.user, x.title) # {}
    BY <1>2, OlderGrows, MatchingGrows
  <2>6. Remembers(e, t)'
    BY <2>1, <2>5 DEF Remembers
  <2> QED
    BY <2>4, <2>6
<1> QED
  BY <1>3 DEF TasksLogged

\* A refusal answers a tap that has left no document, and has a booking.
LEMMA RefuseStep ==
  ASSUME TypeOK, IInv, NEW d \in Devices, NEW s \in Slots, Refuse(d, s)
  PROVE  IInv'
<1> DEFINE b == tasks[d][s].doc
<1>1. /\ tasks[d][s] # Idle /\ tasks[d][s].at = "answered" /\ tasks[d][s].found
      /\ UNCHANGED <<pending, kept, bookings, rejected, taps, told>>
      /\ tasks' = [tasks EXCEPT ![d][s] = Idle]
      /\ refused' \subseteq refused \cup {b.id}
  BY AtBusy DEF Refuse, store, Notify
<1>2. OnlyTrace(d, s) /\ Remembers(d, s)
  BY <1>1 DEF IInv, TasksLogged
<1> HIDE DEF b
<1>3. TasksLogged'
  BY <1>1, OthersStay DEF b
<1>4. DocsLogged'
  BY <1>1 DEF IInv, DocsLogged
<1>5. NoticesLogged'
  BY <1>1, <1>2 DEF IInv, NoticesLogged, OnlyTrace, b
<1>6. SuccessIsKept'
  <2>1. \A x \in Booked : x.id # b.id
    BY <1>2 DEF OnlyTrace, Booked, b
  <2> QED
    BY <1>1, <2>1 DEF IInv, SuccessIsKept, Booked
<1>7. RefusalHasBooking'
  <2>1. taps[b.id].device = d
    BY <1>2 DEF OnlyTrace, b
  <2>2. PICK x \in pending[d] \cup bookings \cup rejected[d] :
          x.user = b.user /\ x.title = b.title
    BY <1>1, <1>2 DEF Remembers, Matching, b
  <2>3. b.user = UserOf[d] /\ b.title = TitleOf[taps[b.id].room]
    BY <1>2 DEF Remembers, b
  <2> QED
    BY <1>1, <2>1, <2>2, <2>3 DEF IInv, RefusalHasBooking
<1> QED
  BY <1>3, <1>4, <1>5, <1>6, <1>7 DEF IInv

\* A booking is queued by a tap that found none, hence knew of none or
\* of rejected ones.
LEMMA BookStep ==
  ASSUME TypeOK, IInv, NEW d \in Devices, NEW s \in Slots, Book(d, s)
  PROVE  IInv'
<1> DEFINE b == tasks[d][s].doc
<1>1. /\ tasks[d][s] # Idle /\ tasks[d][s].at = "answered" /\ ~tasks[d][s].found
      /\ UNCHANGED <<kept, bookings, rejected, taps, refused>>
      /\ pending' = [pending EXCEPT ![d] = @ \cup {b}]
      /\ tasks' = [tasks EXCEPT ![d][s] = Idle]
      /\ told' \subseteq told \cup {b.id}
  BY AtBusy DEF Book, Notify
<1>2. OnlyTrace(d, s) /\ Remembers(d, s)
  BY <1>1 DEF IInv, TasksLogged
<1>3. /\ b.id \in 1 .. Len(taps) /\ taps[b.id].device = d /\ b.id \notin refused
      /\ taps[b.id].knew => Older(rejected[d], b) # {}
  BY <1>1, <1>2 DEF OnlyTrace, Remembers
<1>4. TasksLogged'
  BY <1>1, OthersStay
<1> HIDE DEF b
<1>5. \A e \in Devices : pending'[e] = IF e = d THEN pending[d] \cup {b} ELSE pending[e]
  BY <1>1 DEF TypeOK
<1>6. DocsLogged'
  BY <1>1, <1>3, <1>5 DEF IInv, DocsLogged
<1>7. NoticesLogged'
  BY <1>1, <1>3 DEF IInv, NoticesLogged
<1>8. SuccessIsKept'
  <2>1. \A i \in told' : LET e == taps[i].device IN
          \E x \in pending'[e] \cup bookings \cup rejected[e] : x.id = i
    <3> SUFFICES ASSUME NEW i \in told'
                 PROVE  LET e == taps[i].device IN
                        \E x \in pending'[e] \cup bookings \cup rejected[e] : x.id = i
      OBVIOUS
    <3>1. CASE i = b.id
      BY <1>3, <1>5, <3>1
    <3>2. CASE i \in told
      <4>1. PICK x \in pending[taps[i].device] \cup bookings
                         \cup rejected[taps[i].device] : x.id = i
        BY <3>2 DEF IInv, SuccessIsKept
      <4>2. i \in 1 .. Len(taps)
        BY <3>2 DEF IInv, NoticesLogged
      <4>3. taps[i].device \in Devices
        BY <4>2, TapDevice
      <4> QED
        BY <1>5, <4>1, <4>3
    <3> QED
      BY <1>1, <3>1, <3>2
  <2>2. \A i \in refused : \A x \in Booked' : x.id # i
    BY <1>1, <1>3, <1>5 DEF IInv, SuccessIsKept, Booked
  <2> QED
    BY <1>1, <2>1, <2>2 DEF SuccessIsKept
<1>9. RefusalHasBooking'
  <2> SUFFICES ASSUME NEW i \in refused
               PROVE  LET e == taps[i].device IN
                      \E x \in pending'[e] \cup bookings \cup rejected[e] :
                        x.user = UserOf[e] /\ x.title = TitleOf[taps[i].room]
    BY <1>1 DEF RefusalHasBooking
  <2>1. taps[i].device \in Devices
    BY TapDevice DEF IInv, NoticesLogged
  <2>2. PICK x \in pending[taps[i].device] \cup bookings \cup rejected[taps[i].device] :
          x.user = UserOf[taps[i].device] /\ x.title = TitleOf[taps[i].room]
    BY DEF IInv, RefusalHasBooking
  <2> QED
    BY <1>5, <2>1, <2>2
<1> QED
  BY <1>4, <1>6, <1>7, <1>8, <1>9 DEF IInv

\* Sending a document takes it from the queue to the server and the cache, or
\* to the rejected ones.
LEMMA CommitStep ==
  ASSUME TypeOK, IInv, NEW d \in Devices, Commit(d)
  PROVE  IInv'
<1>1. PICK b \in pending[d] :
        /\ pending' = [pending EXCEPT ![d] = @ \ {b}]
        /\ \/ /\ bookings' = bookings \cup {b}
              /\ kept' = [kept EXCEPT ![d] = @ \cup {b}]
              /\ UNCHANGED rejected
           \/ /\ rejected' = [rejected EXCEPT ![d] = @ \cup {b}]
              /\ UNCHANGED <<bookings, kept>>
        /\ UNCHANGED <<tasks, taps, told, refused>>
  BY DEF Commit, notes
<1>2. \A e \in Devices :
        /\ pending'[e] = IF e = d THEN pending[d] \ {b} ELSE pending[e]
        /\ kept[e] \subseteq kept'[e] /\ kept'[e] \subseteq kept[e] \cup {b}
        /\ rejected[e] \subseteq rejected'[e]
  BY <1>1 DEF TypeOK
<1>3. \A e \in Devices :
        /\ kept[e] \cup pending[e] \cup rejected[e]
             \subseteq kept'[e] \cup pending'[e] \cup rejected'[e]
        /\ pending[e] \cup bookings \cup rejected[e]
             \subseteq pending'[e] \cup bookings' \cup rejected'[e]
  BY <1>1, <1>2 DEF TypeOK
<1>4. DocsLogged'
  <2>1. \A e \in Devices : \A x : Older(rejected[e], x) # {} => Older(rejected'[e], x) # {}
    BY <1>2, OlderGrows
  <2>2. \A x \in bookings : taps[x.id].device \in Devices
    BY TapDevice DEF IInv, DocsLogged
  <2>3. \A x \in bookings' : x \in bookings \/ x = b
    BY <1>1
  <2>4. \A x \in bookings' :
          /\ x.id \in 1 .. Len(taps)
          /\ taps[x.id].knew => Older(rejected'[taps[x.id].device], x) # {}
    BY <2>1, <2>2, <2>3 DEF IInv, DocsLogged
  <2>5. \A e \in Devices : \A x \in pending'[e] :
          /\ x.id \in 1 .. Len(taps) /\ taps[x.id].device = e
          /\ taps[x.id].knew => Older(rejected'[e], x) # {}
    BY <1>2, <2>1 DEF IInv, DocsLogged
  <2>6. \A e \in Devices : kept'[e] \subseteq bookings'
    <3>1. \A e \in Devices : kept[e] \subseteq bookings
      BY DEF IInv, DocsLogged
    <3>2. CASE UNCHANGED <<bookings, kept>>
      BY <3>1, <3>2
    <3>3. CASE bookings' = bookings \cup {b}
      BY <1>2, <3>1, <3>3
    <3> QED
      BY <1>1, <3>2, <3>3
  <2> QED
    BY <1>1, <2>4, <2>5, <2>6 DEF DocsLogged
<1>5. NoticesLogged'
  BY <1>1 DEF IInv, NoticesLogged
<1>6. Booked' \subseteq Booked
  BY <1>1, <1>2 DEF Booked
<1>7. \A i \in told \cup refused : taps[i].device \in Devices
  BY TapDevice DEF IInv, NoticesLogged
<1>8. SuccessIsKept'
  <2>1. \A i \in told : LET e == taps[i].device IN
          \E x \in pending'[e] \cup bookings' \cup rejected'[e] : x.id = i
    BY <1>3, <1>7 DEF IInv, SuccessIsKept
  <2>2. \A i \in refused : \A x \in Booked' : x.id # i
    BY <1>6 DEF IInv, SuccessIsKept
  <2> QED
    BY <1>1, <2>1, <2>2 DEF SuccessIsKept
<1>9. RefusalHasBooking'
  BY <1>1, <1>3, <1>7 DEF IInv, RefusalHasBooking
<1>10. ASSUME NEW e \in Devices, NEW t \in Slots, tasks'[e][t] # Idle
       PROVE  OnlyTrace(e, t)' /\ Remembers(e, t)'
  <2> DEFINE x == tasks[e][t].doc
  <2>1. tasks[e][t] # Idle /\ OnlyTrace(e, t) /\ Remembers(e, t)
    BY <1>1, <1>10 DEF IInv, TasksLogged
  <2>2. OnlyTrace(e, t)'
    <3>1. \A f \in Devices : pending'[f] \subseteq pending[f]
      BY <1>2
    <3>2. b.id # x.id
      BY <2>1 DEF OnlyTrace
    <3> QED
      BY <1>1, <2>1, <3>1, <3>2 DEF OnlyTrace
  <2>3. /\ Older(kept[e] \cup pending[e] \cup rejected[e], x) # {} =>
             Older(kept'[e] \cup pending'[e] \cup rejected'[e], x) # {}
        /\ Older(rejected[e], x) # {} => Older(rejected'[e], x) # {}
        /\ Matching(pending[e] \cup bookings \cup rejected[e], x.user, x.title) # {} =>
             Matching(pending'[e] \cup bookings' \cup rejected'[e], x.user, x.title) # {}
    BY <1>2, <1>3, OlderGrows, MatchingGrows
  <2>4. Remembers(e, t)'
    BY <1>1, <2>1, <2>3 DEF Remembers
  <2> QED
    BY <2>2, <2>4
<1>11. TasksLogged'
  BY <1>10 DEF TasksLogged
<1> QED
  BY <1>4, <1>5, <1>8, <1>9, <1>11 DEF IInv

\* Every step keeps the invariant.
LEMMA StepIInv == TypeOK /\ IInv /\ [Next]_vars => IInv'
<1> SUFFICES ASSUME TypeOK, IInv, [Next]_vars PROVE IInv'
  OBVIOUS
<1>0. CASE UNCHANGED vars
  BY <1>0, DropStep DEF vars, store, notes
<1>1. ASSUME NEW d \in Devices, NEW r \in Rooms, OpenDetails(d, r) PROVE IInv'
  BY <1>1, DropStep DEF OpenDetails
<1>2. ASSUME NEW d \in Devices, CloseDetails(d) PROVE IInv'
  BY <1>2, CloseEffect, DropStep DEF CloseDetails
<1>3. ASSUME NEW d \in Devices, Commit(d) PROVE IInv'
  BY <1>3, CommitStep
<1>4. ASSUME NEW d \in Devices, Restart(d) PROVE IInv'
  <2>1. \A e \in Devices, t \in Slots : tasks'[e][t] \in {Idle, tasks[e][t]}
    BY <1>4 DEF Restart, TypeOK
  <2> QED
    BY <1>4, <2>1, DropStep DEF Restart
<1>5. ASSUME NEW d \in Devices, NEW s \in Slots, Tap(d, s) PROVE IInv'
  BY <1>5, TapStep
<1>6. ASSUME NEW d \in Devices, NEW s \in Slots, Answer(d, s) PROVE IInv'
  BY <1>6, AnswerStep
<1>7. ASSUME NEW d \in Devices, NEW s \in Slots, AnswerFails(d, s) PROVE IInv'
  <2>1. tasks'[d][s] = Idle /\ OthersKeep(d, s)
    BY <1>7, FreeEffect DEF AnswerFails
  <2> QED
    BY <1>7, <2>1, DropStep DEF AnswerFails, OthersKeep
<1>8. ASSUME NEW d \in Devices, NEW s \in Slots, Refuse(d, s) PROVE IInv'
  BY <1>8, RefuseStep
<1>9. ASSUME NEW d \in Devices, NEW s \in Slots, Book(d, s) PROVE IInv'
  BY <1>9, BookStep
<1>10. ASSUME NEW r \in Rooms, DeleteRoom(r) \/ OwnerLooks(r) PROVE IInv'
  BY <1>10, DropStep DEF DeleteRoom, OwnerLooks
<1> QED
  BY <1>0, <1>1, <1>2, <1>3, <1>4, <1>5, <1>6, <1>7, <1>8, <1>9, <1>10 DEF Next

LEMMA Invariance == Spec => [](TypeOK /\ IInv)
<1>1. Init => TypeOK /\ IInv
  BY TypeInit, IInit
<1>2. (TypeOK /\ IInv) /\ [Next]_vars => (TypeOK /\ IInv)'
  BY TypeStep, StepIInv
<1> QED
  BY <1>1, <1>2, PTL DEF Spec

\* A tap made while the phone held a booking of the title never books again,
\* unless the server has rejected an older one of that phone.
THEOREM NoRepeat == Spec => []NoRepeatedBooking
<1>1. TypeOK /\ IInv => NoRepeatedBooking
  <2> SUFFICES ASSUME IInv, NEW b \in Booked, taps[b.id].knew
               PROVE  \E c \in rejected[taps[b.id].device] :
                        c.id < b.id /\ c.title = b.title
    BY DEF NoRepeatedBooking
  <2>1. Older(rejected[taps[b.id].device], b) # {}
    BY DEF IInv, DocsLogged, Booked
  <2> QED
    BY <2>1 DEF Older, Matching
<1> QED
  BY <1>1, Invariance, PTL

\* A booking reported to the tenant is queued or stored from then on, unless
\* the server rejects it, and a refused tap leaves none.
THEOREM SuccessKept == Spec => []SuccessIsKept
<1>1. TypeOK /\ IInv => SuccessIsKept
  BY DEF IInv
<1> QED
  BY <1>1, Invariance, PTL

\* A refused tenant has a booking of that title, or had one that was rejected.
THEOREM RefusalJustified == Spec => []RefusalHasBooking
<1>1. TypeOK /\ IInv => RefusalHasBooking
  BY DEF IInv
<1> QED
  BY <1>1, Invariance, PTL

(***************************************************************************)
(* The owner's page.  Whatever document there is names the user and, if it *)
(* names a room, the room of its tap; so what the owner's query finds is a *)
(* booking of the owner's room, and stored documents are never removed.    *)
(***************************************************************************)

\* A document says what was on the screen of its tap.
TellsTap(b) ==
  /\ b.id \in 1 .. Len(taps) /\ b.user = UserOf[taps[b.id].device]
  /\ b.roomId \in {taps[b.id].room, NoRoom}

Exists(b) ==
  \/ b \in bookings
  \/ \E d \in Devices : b \in pending[d]
  \/ \E d \in Devices, s \in Slots : tasks[d][s] # Idle /\ b = tasks[d][s].doc

DocsTell == \A b \in Doc : Exists(b) => TellsTap(b)
PagesTell == \A d \in Devices : page[d].roomId \in {page[d].room, NoRoom}
ShownStored ==
  \A r \in Rooms : shown[r] # 0 =>
    \E b \in bookings : b.id = shown[r] /\ b.roomId = r

OwnInv == DocsTell /\ PagesTell /\ ShownStored

LEMMA InitOwn == Init => OwnInv
BY DEF Init, OwnInv, DocsTell, PagesTell, ShownStored, Exists, NoPage

\* A step that makes no document and logs no tap.
LEMMA OldDocs ==
  ASSUME TypeOK, DocsTell, UNCHANGED taps, bookings' \subseteq Doc,
         \A b \in bookings' : Exists(b),
         \A d \in Devices : \A b \in pending'[d] : Exists(b),
         \A d \in Devices, s \in Slots :
           tasks'[d][s] # Idle => tasks[d][s] # Idle /\ tasks'[d][s].doc = tasks[d][s].doc
  PROVE  DocsTell'
<1> SUFFICES ASSUME NEW b \in Doc, Exists(b)' PROVE TellsTap(b)'
  BY DEF DocsTell
<1>1. Exists(b)
  BY DEF Exists
<1>2. TellsTap(b)
  BY <1>1 DEF DocsTell
<1> QED
  BY <1>2 DEF TellsTap

LEMMA TapOwn ==
  ASSUME TypeOK, OwnInv, NEW d \in Devices, NEW s \in Slots, Tap(d, s)
  PROVE  OwnInv'
<1>1. PICK b \in Doc, k \in BOOLEAN :
        /\ b.id = Len(taps) + 1 /\ b.user = UserOf[d]
        /\ page[d].room \in Rooms /\ b.roomId = page[d].roomId
        /\ b.title = TitleOf[page[d].room]
        /\ taps' = Append(taps, [device |-> d, room |-> page[d].room, knew |-> k])
        /\ k = (Matching(kept[d] \cup pending[d], b.user, b.title) # {})
        /\ tasks[d][s] = Idle
        /\ tasks' \in [Devices -> [Slots -> Task]]
        /\ tasks'[d][s] = [at |-> "asked", found |-> FALSE, mounted |-> TRUE, doc |-> b]
        /\ OthersKeep(d, s)
  BY TapEffect
<1>2. UNCHANGED <<page, pending, bookings, shown>>
  BY DEF Tap, store
<1>3. /\ Len(taps) \in Nat /\ Len(taps') = Len(taps) + 1
      /\ \A i \in 1 .. Len(taps) : taps'[i] = taps[i]
      /\ taps'[b.id] = [device |-> d, room |-> page[d].room, knew |-> k]
  BY <1>1 DEF TypeOK
<1>4. TellsTap(b)'
  BY <1>1, <1>3 DEF TellsTap, OwnInv, PagesTell
<1>5. ASSUME NEW x \in Doc, TellsTap(x) PROVE TellsTap(x)'
  BY <1>3, <1>5 DEF TellsTap
<1>6. ASSUME NEW x \in Doc, Exists(x)' PROVE Exists(x) \/ x = b
  <2>1. tasks'[d][s].doc = b
    BY <1>1
  <2> QED
    BY <1>1, <1>2, <1>6, <2>1 DEF Exists, OthersKeep
<1>7. DocsTell'
  BY <1>4, <1>5, <1>6 DEF DocsTell, OwnInv
<1> QED
  BY <1>2, <1>7 DEF OwnInv, PagesTell, ShownStored

\* Any other step.
LEMMA QuietOwn ==
  ASSUME TypeOK, IInv, OwnInv, NEW d \in Devices,
         \/ CloseDetails(d) \/ Restart(d) \/ Commit(d)
         \/ \E s \in Slots : Answer(d, s) \/ AnswerFails(d, s) \/ Refuse(d, s) \/ Book(d, s)
  PROVE  OwnInv'
<1> USE DEF store
<1>1. UNCHANGED <<taps, shown>> /\ bookings \subseteq bookings'
  BY DEF CloseDetails, Restart, Commit, Answer, AnswerFails, Refuse, Book
<1>2. ShownStored'
  BY <1>1 DEF OwnInv, ShownStored
<1>3. PagesTell'
  <2>1. \A e \in Devices : page'[e] \in {page[e], NoPage}
    BY DEF CloseDetails, Restart, Commit, Answer, AnswerFails, Refuse, Book, TypeOK
  <2> QED
    BY <2>1 DEF OwnInv, PagesTell, NoPage
<1>4. \A e \in Devices, t \in Slots :
        tasks'[e][t] # Idle => tasks[e][t] # Idle /\ tasks'[e][t].doc = tasks[e][t].doc
  <2>1. CASE CloseDetails(d)
    BY <2>1, CloseEffect
  <2>2. ASSUME NEW s \in Slots, Answer(d, s)
        PROVE  \A e \in Devices, t \in Slots :
                 tasks'[e][t] # Idle =>
                   tasks[e][t] # Idle /\ tasks'[e][t].doc = tasks[e][t].doc
    <3>1. kept[d] \subseteq bookings
      BY DEF IInv, DocsLogged
    <3>2. tasks[d][s] # Idle /\ tasks'[d][s].doc = tasks[d][s].doc /\ OthersKeep(d, s)
      BY <2>2, <3>1, AnswerEffect
    <3> QED
      BY <3>2 DEF OthersKeep
  <2>3. ASSUME NEW s \in Slots, AnswerFails(d, s) \/ Refuse(d, s) \/ Book(d, s)
        PROVE  \A e \in Devices, t \in Slots :
                 tasks'[e][t] # Idle =>
                   tasks[e][t] # Idle /\ tasks'[e][t].doc = tasks[e][t].doc
    BY <2>3, FreeEffect DEF AnswerFails, Refuse, Book, OthersKeep
  <2>4. CASE Restart(d)
    <3>1. \A e \in Devices, t \in Slots : tasks'[e][t] \in {Idle, tasks[e][t]}
      BY <2>4 DEF Restart, TypeOK
    <3> QED
      BY <3>1
  <2>5. CASE Commit(d)
    BY <2>5 DEF Commit
  <2> QED
    BY <2>1, <2>2, <2>3, <2>4, <2>5
<1>5. /\ bookings' \subseteq Doc
      /\ \A b \in bookings' : Exists(b)
      /\ \A e \in Devices : \A b \in pending'[e] : Exists(b)
  <2>1. CASE Commit(d)
    BY <2>1 DEF Commit, Exists, TypeOK
  <2>2. ASSUME NEW s \in Slots, Book(d, s)
        PROVE  UNCHANGED bookings /\ \A e \in Devices : \A b \in pending'[e] : Exists(b)
    <3>1. tasks[d][s] # Idle
      BY <2>2, AtBusy DEF Book
    <3> QED
      BY <2>2, <3>1 DEF Book, Exists, TypeOK
  <2>3. CASE UNCHANGED <<pending, bookings>>
    BY <2>3 DEF Exists, TypeOK
  <2>4. bookings \subseteq Doc /\ \A b \in bookings : Exists(b)
    BY DEF Exists, TypeOK
  <2>5. \/ Commit(d) \/ UNCHANGED <<pending, bookings>>
        \/ \E s \in Slots : Book(d, s)
    BY DEF CloseDetails, Restart, Answer, AnswerFails, Refuse
  <2> QED
    BY <2>1, <2>2, <2>3, <2>4, <2>5
<1>6. DocsTell'
  BY <1>1, <1>4, <1>5, OldDocs DEF OwnInv
<1> QED
  BY <1>2, <1>3, <1>6 DEF OwnInv

\* What an owner is shown, and that a booking once shown stays findable.
LEMMA OwnerOwn ==
  ASSUME TypeOK, OwnInv, NEW r \in Rooms, OwnerLooks(r)
  PROVE  OwnInv' /\ \A q \in Rooms : shown[q] # 0 => shown'[q] # 0
<1>1. UNCHANGED <<page, tasks, pending, bookings, taps>>
  BY DEF OwnerLooks, store
<1>2. \/ \E b \in OfRoom(r) : shown' = [shown EXCEPT ![r] = b.id]
      \/ OfRoom(r) = {} /\ shown' = [shown EXCEPT ![r] = 0]
  BY DEF OwnerLooks
<1>3. \A b \in bookings : b.id # 0
  <2>1. \A b \in bookings : b \in Doc /\ Exists(b)
    BY DEF TypeOK, Exists
  <2>2. \A b \in bookings : b.id \in 1 .. Len(taps)
    BY <2>1 DEF OwnInv, DocsTell, TellsTap
  <2> QED
    BY <2>2
<1>4. ShownStored'
  BY <1>1, <1>2 DEF OwnInv, ShownStored, OfRoom, TypeOK
<1>5. \A q \in Rooms : shown[q] # 0 => shown'[q] # 0
  <2>1. shown[r] # 0 => OfRoom(r) # {}
    BY DEF OwnInv, ShownStored, OfRoom
  <2> QED
    BY <1>2, <1>3, <2>1 DEF OfRoom, TypeOK
<1>6. DocsTell' /\ PagesTell'
  BY <1>1 DEF OwnInv, DocsTell, PagesTell, Exists, TellsTap
<1> QED
  BY <1>4, <1>5, <1>6 DEF OwnInv

\* Every step keeps the invariant, and a page that shows a booking shows one
\* after the step.
LEMMA StepOwn ==
  TypeOK /\ IInv /\ OwnInv /\ [Next]_vars =>
    OwnInv' /\ \A r \in Rooms : shown[r] # 0 => shown'[r] # 0
<1> SUFFICES ASSUME TypeOK, IInv, OwnInv, [Next]_vars
             PROVE  OwnInv' /\ \A r \in Rooms : shown[r] # 0 => shown'[r] # 0
  OBVIOUS
<1> USE DEF store
<1>1. ASSUME UNCHANGED <<page, tasks, pending, bookings, taps, shown>> PROVE OwnInv'
  BY <1>1 DEF OwnInv, DocsTell, PagesTell, ShownStored, Exists, TellsTap
<1>2. CASE UNCHANGED vars
  BY <1>1, <1>2 DEF vars
<1>3. ASSUME NEW d \in Devices, NEW r \in Rooms, OpenDetails(d, r)
      PROVE  OwnInv' /\ UNCHANGED shown
  <2>1. UNCHANGED <<tasks, pending, bookings, taps, shown>>
    BY <1>3 DEF OpenDetails
  <2>2. PagesTell'
    BY <1>3 DEF OpenDetails, OwnInv, PagesTell, TypeOK
  <2> QED
    BY <2>1, <2>2 DEF OwnInv, DocsTell, ShownStored, Exists, TellsTap
<1>4. ASSUME NEW d \in Devices,
             \/ CloseDetails(d) \/ Restart(d) \/ Commit(d)
             \/ \E s \in Slots :
                  Answer(d, s) \/ AnswerFails(d, s) \/ Refuse(d, s) \/ Book(d, s)
      PROVE  OwnInv' /\ UNCHANGED shown
  <2>1. UNCHANGED shown
    BY <1>4 DEF CloseDetails, Restart, Commit, Answer, AnswerFails, Refuse, Book
  <2> QED
    BY <1>4, <2>1, QuietOwn
<1>5. ASSUME NEW d \in Devices, NEW s \in Slots, Tap(d, s)
      PROVE  OwnInv' /\ UNCHANGED shown
  BY <1>5, TapOwn DEF Tap
<1>6. ASSUME NEW r \in Rooms, DeleteRoom(r)
      PROVE  OwnInv' /\ UNCHANGED shown
  BY <1>1, <1>6 DEF DeleteRoom
<1>7. ASSUME NEW r \in Rooms, OwnerLooks(r)
      PROVE  OwnInv' /\ \A q \in Rooms : shown[q] # 0 => shown'[q] # 0
  BY <1>7, OwnerOwn
<1>8. CASE Next
  <2>1. ASSUME NEW d \in Devices,
               \/ \E r \in Rooms : OpenDetails(d, r)
               \/ CloseDetails(d) \/ Commit(d) \/ Restart(d)
               \/ \E s \in Slots : \/ Tap(d, s) \/ Answer(d, s) \/ AnswerFails(d, s)
                                   \/ Refuse(d, s) \/ Book(d, s)
        PROVE  OwnInv' /\ UNCHANGED shown
    BY <1>3, <1>4, <1>5, <2>1
  <2> QED
    BY <1>6, <1>7, <1>8, <2>1 DEF Next
<1> QED
  BY <1>2, <1>8 DEF vars

\* What an owner's page shows is a stored booking of that very room, made by
\* the user it names, and nothing but another booking of the room replaces it,
\* with rooms of one title, deletions, restarts and writes sent late.
THEOREM OwnerSees == Spec => OwnerSeesBooking
<1> DEFINE Sees == \A r \in Rooms : shown[r] # 0 =>
       /\ shown'[r] # 0
       /\ taps[shown[r]].room = r
       /\ \E b \in bookings : b.id = shown[r] /\ b.user = UserOf[taps[b.id].device]
<1>1. TypeOK /\ IInv /\ OwnInv /\ [Next]_vars => [Sees]_vars
  <2> SUFFICES ASSUME TypeOK, IInv, OwnInv, [Next]_vars, NEW r \in Rooms, shown[r] # 0
               PROVE  /\ shown'[r] # 0
                      /\ taps[shown[r]].room = r
                      /\ \E b \in bookings :
                           b.id = shown[r] /\ b.user = UserOf[taps[b.id].device]
    OBVIOUS
  <2>1. shown'[r] # 0
    BY StepOwn
  <2>2. PICK b \in bookings : b.id = shown[r] /\ b.roomId = r
    BY DEF OwnInv, ShownStored
  <2>3. TellsTap(b)
    BY DEF OwnInv, DocsTell, Exists, TypeOK
  <2> QED
    BY <2>1, <2>2, <2>3, NoRoomAssumption DEF TellsTap
<1>2. TypeOK /\ IInv /\ OwnInv /\ [Next]_vars => OwnInv'
  BY StepOwn
<1> QED
  BY <1>1, <1>2, InitOwn, Invariance, PTL DEF Spec, OwnerSeesBooking

-----------------------------------------------------------------------------
(* The bookings an owner cannot find, and the taps that cannot book again.  *)

\* A stored booking names the room of its tap, and is among those its owner's
\* page asks for, or it names no room at all: the lists that pass '' are the
\* only way in which a booking gets lost, no two rooms are ever confused.
LostWithoutRoom ==
  \A b \in bookings :
    /\ b.user = UserOf[taps[b.id].device]
    /\ b.roomId = NoRoom \/ b \in OfRoom(taps[b.id].room)

\* A booking without its room was made from a list that passes no id.
THEOREM OnlyListsLose == Spec => []LostWithoutRoom
<1>1. TypeOK /\ OwnInv => LostWithoutRoom
  <2> SUFFICES ASSUME TypeOK, OwnInv, NEW b \in bookings
               PROVE  /\ b.user = UserOf[taps[b.id].device]
                      /\ b.roomId = NoRoom \/ b \in OfRoom(taps[b.id].room)
    BY DEF LostWithoutRoom
  <2>1. TellsTap(b)
    BY DEF OwnInv, DocsTell, Exists, TypeOK
  <2> QED
    BY <2>1 DEF TellsTap, OfRoom
<1>2. TypeOK /\ IInv /\ OwnInv /\ [Next]_vars => OwnInv'
  BY StepOwn
<1> QED
  BY <1>1, <1>2, InitOwn, Invariance, PTL DEF Spec

\* What a phone has booked stays in its queue or, once sent, in its cache.
OwnKept ==
  \A b \in bookings : \A d \in Devices : taps[b.id].device = d => b \in kept[d]

LEMMA StepKept == TypeOK /\ IInv /\ OwnKept /\ [Next]_vars => OwnKept'
<1> SUFFICES ASSUME TypeOK, IInv, OwnKept, [Next]_vars PROVE OwnKept'
  OBVIOUS
<1>1. ASSUME bookings' = bookings, \A d \in Devices : kept[d] \subseteq kept'[d],
             \A i \in 1 .. Len(taps) : taps'[i] = taps[i]
      PROVE  OwnKept'
  BY <1>1 DEF OwnKept, IInv, DocsLogged
<1>2. CASE UNCHANGED <<bookings, kept, taps>>
  BY <1>1, <1>2
<1>3. ASSUME NEW d \in Devices, NEW s \in Slots, Tap(d, s) PROVE OwnKept'
  <2>1. PICK t : taps' = Append(taps, t)
    BY <1>3 DEF Tap
  <2>2. \A i \in 1 .. Len(taps) : taps'[i] = taps[i]
    BY <2>1 DEF TypeOK
  <2>3. UNCHANGED <<bookings, kept>>
    BY <1>3 DEF Tap, store
  <2> QED
    BY <1>1, <2>2, <2>3
<1>4. ASSUME NEW d \in Devices, NEW s \in Slots, Answer(d, s) PROVE OwnKept'
  <2>1. PICK seen : kept' = [kept EXCEPT ![d] = @ \cup seen]
    BY <1>4 DEF Answer
  <2>2. \A e \in Devices : kept[e] \subseteq kept'[e]
    BY <2>1 DEF TypeOK
  <2>3. UNCHANGED <<bookings, taps>>
    BY <1>4 DEF Answer
  <2> QED
    BY <1>1, <2>2, <2>3
<1>5. ASSUME NEW d \in Devices, Commit(d) PROVE OwnKept'
  <2>1. PICK b \in pending[d] :
          /\ \/ bookings' = bookings \cup {b} /\ kept' = [kept EXCEPT ![d] = @ \cup {b}]
             \/ UNCHANGED <<bookings, kept>>
          /\ taps' = taps
    BY <1>5 DEF Commit
  <2>2. taps[b.id].device = d
    BY DEF IInv, DocsLogged
  <2>3. CASE UNCHANGED <<bookings, kept>>
    BY <1>2, <2>1, <2>3
  <2>4. CASE bookings' = bookings \cup {b} /\ kept' = [kept EXCEPT ![d] = @ \cup {b}]
    <3>1. kept'[d] = kept[d] \cup {b} /\ \A e \in Devices : kept[e] \subseteq kept'[e]
      BY <2>4 DEF TypeOK
    <3> QED
      BY <2>1, <2>2, <2>4, <3>1 DEF OwnKept
  <2> QED
    BY <2>1, <2>3, <2>4
<1>6. CASE Next
  <2>1. UNCHANGED <<bookings, kept, taps>>
        \/ \E d \in Devices : Commit(d) \/ \E s \in Slots : Tap(d, s) \/ Answer(d, s)
    BY <1>6 DEF Next, store, OpenDetails, CloseDetails, Restart, AnswerFails, Refuse, Book,
                DeleteRoom, OwnerLooks
  <2> QED
    BY <1>2, <1>3, <1>4, <1>5, <2>1
<1> QED
  BY <1>2, <1>6 DEF vars

\* A tap on a phone that has ever booked the title knows of it, whether the
\* booking is still queued or was sent, before or after a restart; with
\* NoRepeatedBooking, it books nothing.
LaterTapKnows ==
  [][taps' # taps =>
       LET t == taps'[Len(taps')] IN
       (\E b \in Booked : taps[b.id].device = t.device /\ b.title = TitleOf[t.room]) => t.knew]_vars

\* Every tap of a device on a title it has booked knows of that booking.
THEOREM KnowsItsOwn == Spec => LaterTapKnows
<1> DEFINE Knows ==
      taps' # taps =>
        LET t == taps'[Len(taps')] IN
        (\E b \in Booked : taps[b.id].device = t.device /\ b.title = TitleOf[t.room]) => t.knew
<1>1. TypeOK /\ IInv /\ OwnInv /\ OwnKept /\ [Next]_vars => [Knows]_vars
  <2> SUFFICES ASSUME TypeOK, IInv, OwnInv, OwnKept, Next, taps' # taps,
                      NEW b \in Booked, taps[b.id].device = taps'[Len(taps')].device,
                      b.title = TitleOf[taps'[Len(taps')].room]
               PROVE  taps'[Len(taps')].knew
    OBVIOUS
  <2>1. PICK d \in Devices, s \in Slots : Tap(d, s)
    BY DEF Next, OpenDetails, CloseDetails, Commit, Restart, Answer, AnswerFails, Refuse,
           Book, DeleteRoom, OwnerLooks
  <2>2. PICK a \in Doc, k \in BOOLEAN :
          /\ a.id = Len(taps) + 1 /\ a.user = UserOf[d]
          /\ page[d].room \in Rooms /\ a.roomId = page[d].roomId
          /\ a.title = TitleOf[page[d].room]
          /\ taps' = Append(taps, [device |-> d, room |-> page[d].room, knew |-> k])
          /\ k = (Matching(kept[d] \cup pending[d], a.user, a.title) # {})
          /\ tasks[d][s] = Idle
          /\ tasks' \in [Devices -> [Slots -> Task]]
          /\ tasks'[d][s] = [at |-> "asked", found |-> FALSE, mounted |-> TRUE, doc |-> a]
          /\ OthersKeep(d, s)
    BY <2>1, TapEffect
  <2>3. taps'[Len(taps')] = [device |-> d, room |-> page[d].room, knew |-> k]
    BY <2>2 DEF TypeOK
  <2>4. taps[b.id].device = d /\ b.title = a.title
    BY <2>2, <2>3
  <2>5. b \in Doc /\ TellsTap(b)
    BY DEF OwnInv, DocsTell, Exists, TypeOK, Booked
  <2>6. b \in kept[d] \cup pending[d]
    BY <2>4 DEF Booked, OwnKept, IInv, DocsLogged
  <2>7. b.user = a.user
    BY <2>2, <2>4, <2>5 DEF TellsTap
  <2>8. \A docs : b \in docs => b \in Matching(docs, a.user, a.title)
    BY <2>4, <2>7, Zenon DEF Matching
  <2>9. k
    <3>1. k = (Matching(kept[d] \cup pending[d], a.user, a.title) # {})
      BY <2>2
    <3> QED
      BY <2>6, <2>8, <3>1
  <2> QED
    BY <2>3, <2>9
<1>2. Init => OwnKept
  BY DEF Init, OwnKept
<1>3. TypeOK /\ IInv /\ OwnInv /\ [Next]_vars => OwnInv'
  BY StepOwn
<1> QED
  BY <1>1, <1>2, <1>3, InitOwn, StepKept, Invariance, PTL DEF Spec, LaterTapKnows
=============================================================================
