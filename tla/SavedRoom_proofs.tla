-------------------------- MODULE SavedRoom_proofs --------------------------
(***************************************************************************)
(* Proofs about SavedRoom, for any number of phones, cards and titles, and *)
(* all bounds.                                                             *)
(***************************************************************************)
EXTENDS SavedRoom, TLAPS

LEMMA ShownCard ==
  ASSUME TypeOK, NEW c \in Cards, Shown(c)
  PROVE  card[c] \in CardState
BY DEF TypeOK, Shown, Absent

LEMMA SetCard ==
  ASSUME TypeOK, NEW c \in Cards, NEW k \in {Absent} \cup CardState,
         card' = [card EXCEPT ![c] = k]
  PROVE  /\ card' \in [Cards -> {Absent} \cup CardState]
         /\ card'[c] = k
         /\ \A x \in Cards : x # c => card'[x] = card[x]
BY DEF TypeOK

\* What a step of a card's own code leaves of the card: still a card, with the
\* fields it does not assign.
LEMMA CardFields ==
  ASSUME NEW k \in CardState
  PROVE  /\ k.check \in {"asked", "answered", "done", "failed"}
         /\ k.title \in Titles /\ k.asks \in Titles
         /\ k.button \in BOOLEAN /\ k.found \in BOOLEAN /\ k.isSaved \in BOOLEAN
         /\ k.waiting \subseteq 1..MaxTaps
BY DEF CardState

\* A document's state is a Boolean, whichever way Firestore finds it.
LEMMA OverlayBoolean ==
  ASSUME NEW d, NEW t, NEW base \in BOOLEAN
  PROVE  Overlay(d, t, base) \in BOOLEAN
<1>1. CASE Queued(d, t) = {}
  BY <1>1 DEF Overlay
<1>2. CASE Queued(d, t) # {}
  BY <1>2 DEF Overlay
<1> QED
  BY <1>1, <1>2

LEMMA OnlineAnswerBoolean ==
  ASSUME NEW d, NEW t
  PROVE  Overlay(d, t, t \in stored) \in BOOLEAN
<1>1. CASE Queued(d, t) = {}
  BY <1>1 DEF Overlay
<1>2. CASE Queued(d, t) # {}
  BY <1>2 DEF Overlay
<1> QED
  BY <1>1, <1>2

LEMMA InitTypeOK == Init => TypeOK
<1> SUFFICES ASSUME Init PROVE TypeOK
  OBVIOUS
<1>1. 0 \in 0..MaxTaps
  BY BoundsAssumption
<1> QED
  BY <1>1 DEF Init, TypeOK

LEMMA ShowType ==
  ASSUME TypeOK, NEW c \in Cards, NEW t \in Titles, ShowCard(c, t)
  PROVE  card' \in [Cards -> {Absent} \cup CardState] /\ steady' \in [Cards -> BOOLEAN]
<1> DEFINE k == [check |-> "asked", title |-> t, asks |-> t, button |-> FALSE,
                 found |-> FALSE, isSaved |-> FALSE, waiting |-> {}]
           b == \A d \in Devices : d # DeviceOf[c] => Queued(d, t) = {}
<1>1. k \in CardState
  BY DEF CardState
<1>2. card' = [card EXCEPT ![c] = k] /\ steady' = [steady EXCEPT ![c] = b]
  BY DEF ShowCard
<1>3. b \in BOOLEAN
  OBVIOUS
<1> HIDE DEF k, b
<1> QED
  BY <1>1, <1>2, <1>3, SetCard DEF TypeOK

LEMMA AnsweredType ==
  ASSUME TypeOK, NEW c \in Cards, CheckAnswered(c)
  PROVE  \E f \in BOOLEAN, b \in BOOLEAN :
           LET d == DeviceOf[c]
               t == card[c].asks
           IN
           /\ card[c] \in CardState /\ card[c].check = "asked"
           /\ card' = [card EXCEPT ![c] = [card[c] EXCEPT !.check = "answered", !.found = f]]
           /\ steady' = [steady EXCEPT ![c] = steady[c] /\ b]
           /\ f = Overlay(d, t, t \in stored) \/ ~b
           /\ kept' \in [Devices -> [Titles -> {"unknown", "saved", "unsaved"}]]
           /\ UNCHANGED <<stored, queue, taps>>
<1> DEFINE d == DeviceOf[c]
           t == card[c].asks
<1>1. card[c] \in CardState /\ card[c].check = "asked"
  BY ShownCard DEF CheckAnswered
<1>2. d \in Devices /\ t \in Titles
  BY <1>1, CardFields, DeviceOfAssumption
<1>3. UNCHANGED <<stored, queue, taps>>
  BY DEF CheckAnswered
<1>4. CASE /\ card' = [card EXCEPT ![c].check = "answered",
                                   ![c].found = Overlay(d, t, t \in stored)]
           /\ kept' = [kept EXCEPT ![d][t] = IF t \in stored THEN "saved" ELSE "unsaved"]
           /\ UNCHANGED steady
  <2> DEFINE f == Overlay(d, t, t \in stored)
  <2>1. f \in BOOLEAN
    BY OnlineAnswerBoolean
  <2>2. card' = [card EXCEPT ![c] = [card[c] EXCEPT !.check = "answered", !.found = f]]
    BY <1>1, <1>4
  <2> HIDE DEF f
  <2>3. steady' = [steady EXCEPT ![c] = steady[c] /\ TRUE]
    BY <1>4 DEF TypeOK
  <2>4. kept' \in [Devices -> [Titles -> {"unknown", "saved", "unsaved"}]]
    BY <1>2, <1>4 DEF TypeOK
  <2>5. f = Overlay(d, t, t \in stored) \/ ~TRUE
    BY DEF f
  <2> QED
    BY <1>1, <1>3, <2>1, <2>2, <2>3, <2>4, <2>5
<1>5. CASE /\ card' = [card EXCEPT ![c].check = "answered",
                                   ![c].found = Overlay(d, t, kept[d][t] = "saved")]
           /\ steady' = [steady EXCEPT ![c] = @ /\ (t \in stored <=> kept[d][t] = "saved")]
           /\ UNCHANGED kept
  <2> DEFINE f == Overlay(d, t, kept[d][t] = "saved")
             b == t \in stored <=> kept[d][t] = "saved"
  <2>1. f \in BOOLEAN /\ b \in BOOLEAN
    BY OverlayBoolean
  <2>2. card' = [card EXCEPT ![c] = [card[c] EXCEPT !.check = "answered", !.found = f]]
    BY <1>1, <1>5
  <2>3. f = Overlay(d, t, t \in stored) \/ ~b
    <3>1. CASE Queued(d, t) = {}
      BY <3>1 DEF Overlay
    <3>2. CASE Queued(d, t) # {}
      BY <3>2 DEF Overlay
    <3> QED
      BY <3>1, <3>2
  <2>4. steady' = [steady EXCEPT ![c] = steady[c] /\ b]
    BY <1>5
  <2>5. kept' \in [Devices -> [Titles -> {"unknown", "saved", "unsaved"}]]
    BY <1>5 DEF TypeOK
  <2> HIDE DEF f, b
  <2> QED
    BY <1>1, <1>3, <2>1, <2>2, <2>3, <2>4, <2>5
<1> QED
  BY <1>4, <1>5 DEF CheckAnswered

LEMMA ToggleEffect ==
  ASSUME TypeOK, NEW c \in Cards, Toggle(c)
  PROVE  \E w \in Write :
           /\ card[c] \in CardState
           /\ w.tap = taps + 1 /\ w.title = card[c].title /\ w.saved = ~card[c].isSaved
           /\ taps' = taps + 1 /\ taps' \in 0..MaxTaps
           /\ queue' = [queue EXCEPT ![DeviceOf[c]] = @ \cup {w}]
           /\ card' = [card EXCEPT ![c] = [card[c] EXCEPT !.waiting = @ \cup {taps + 1}]]
           /\ card' \in [Cards -> {Absent} \cup CardState]
<1>1. card[c] \in CardState
  BY ShownCard DEF Toggle
<1>2. taps \in 0..MaxTaps /\ taps < MaxTaps
  BY DEF TypeOK, Toggle
<1>3. taps + 1 \in 1..MaxTaps /\ taps + 1 \in 0..MaxTaps
  BY <1>2, BoundsAssumption
<1> DEFINE w == [tap |-> taps + 1, title |-> card[c].title, saved |-> ~card[c].isSaved]
           k == [card[c] EXCEPT !.waiting = @ \cup {taps + 1}]
<1>4. w \in Write
  BY <1>1, <1>3, CardFields DEF Write
<1>5. k \in CardState
  BY <1>1, <1>3 DEF CardState
<1>6. /\ taps' = taps + 1
      /\ queue' = [queue EXCEPT ![DeviceOf[c]] = @ \cup {w}]
      /\ card' = [card EXCEPT ![c] = k]
  BY <1>1 DEF Toggle
<1>7. w.tap = taps + 1 /\ w.title = card[c].title /\ w.saved = ~card[c].isSaved
  OBVIOUS
<1> HIDE DEF w
<1>8. card' \in [Cards -> {Absent} \cup CardState]
  BY <1>5, <1>6, SetCard
<1> QED
  BY <1>1, <1>3, <1>4, <1>6, <1>7, <1>8

LEMMA NextTypeOK == TypeOK /\ [Next]_vars => TypeOK'
<1> SUFFICES ASSUME TypeOK, [Next]_vars PROVE TypeOK'
  OBVIOUS
<1>1. ASSUME NEW c \in Cards, NEW t \in Titles, ShowCard(c, t) PROVE TypeOK'
  BY <1>1, ShowType DEF TypeOK, ShowCard
<1>2. ASSUME NEW c \in Cards, NEW t \in Titles, Rebind(c, t) PROVE TypeOK'
  <2>1. [card[c] EXCEPT !.title = t] \in CardState
    BY <1>2, ShownCard DEF Rebind, CardState
  <2>2. card' \in [Cards -> {Absent} \cup CardState]
    BY <1>2, <2>1 DEF Rebind, TypeOK
  <2>3. steady' \in [Cards -> BOOLEAN]
    BY <1>2 DEF Rebind, TypeOK
  <2> QED
    BY <1>2, <2>2, <2>3 DEF Rebind, TypeOK
<1>3. ASSUME NEW c \in Cards, HideCard(c) PROVE TypeOK'
  BY <1>3 DEF HideCard, TypeOK
<1>4. ASSUME NEW c \in Cards, RoleKnown(c) PROVE TypeOK'
  <2>1. [card[c] EXCEPT !.button = TRUE] \in CardState
    BY <1>4, ShownCard DEF RoleKnown, CardState
  <2>2. card' \in [Cards -> {Absent} \cup CardState]
    BY <1>4, <2>1 DEF RoleKnown, TypeOK
  <2> QED
    BY <1>4, <2>2 DEF RoleKnown, TypeOK
<1>5. ASSUME NEW c \in Cards, CheckAnswered(c) PROVE TypeOK'
  <2>1. PICK f \in BOOLEAN, b \in BOOLEAN :
           LET d == DeviceOf[c]
               t == card[c].asks
           IN
           /\ card[c] \in CardState /\ card[c].check = "asked"
           /\ card' = [card EXCEPT ![c] = [card[c] EXCEPT !.check = "answered", !.found = f]]
           /\ steady' = [steady EXCEPT ![c] = steady[c] /\ b]
           /\ f = Overlay(d, t, t \in stored) \/ ~b
           /\ kept' \in [Devices -> [Titles -> {"unknown", "saved", "unsaved"}]]
           /\ UNCHANGED <<stored, queue, taps>>
    BY <1>5, AnsweredType
  <2>2. [card[c] EXCEPT !.check = "answered", !.found = f] \in CardState
    BY <2>1 DEF CardState
  <2>3. card' \in [Cards -> {Absent} \cup CardState]
    BY <2>1, <2>2, SetCard
  <2>4. steady' \in [Cards -> BOOLEAN]
    BY <2>1 DEF TypeOK
  <2> QED
    BY <2>1, <2>3, <2>4 DEF TypeOK
<1>6. ASSUME NEW c \in Cards, CheckFails(c) PROVE TypeOK'
  <2>1. [card[c] EXCEPT !.check = "failed"] \in CardState
    BY <1>6, ShownCard DEF CheckFails, CardState
  <2>2. card' \in [Cards -> {Absent} \cup CardState]
    BY <1>6, <2>1 DEF CheckFails, TypeOK
  <2> QED
    BY <1>6, <2>2 DEF CheckFails, TypeOK
<1>7. ASSUME NEW c \in Cards, CheckDone(c) PROVE TypeOK'
  <2>1. [card[c] EXCEPT !.check = "done", !.isSaved = card[c].found] \in CardState
    BY <1>7, ShownCard DEF CheckDone, CardState
  <2>2. card' \in [Cards -> {Absent} \cup CardState]
    BY <1>7, <2>1 DEF CheckDone, TypeOK
  <2> QED
    BY <1>7, <2>2 DEF CheckDone, TypeOK
<1>8. ASSUME NEW c \in Cards, Toggle(c) PROVE TypeOK'
  <2>1. PICK w \in Write :
           /\ card[c] \in CardState
           /\ w.tap = taps + 1 /\ w.title = card[c].title /\ w.saved = ~card[c].isSaved
           /\ taps' = taps + 1 /\ taps' \in 0..MaxTaps
           /\ queue' = [queue EXCEPT ![DeviceOf[c]] = @ \cup {w}]
           /\ card' = [card EXCEPT ![c] = [card[c] EXCEPT !.waiting = @ \cup {taps + 1}]]
           /\ card' \in [Cards -> {Absent} \cup CardState]
    BY <1>8, ToggleEffect
  <2>2. queue' \in [Devices -> SUBSET Write]
    BY <2>1, DeviceOfAssumption DEF TypeOK
  <2>3. steady' \in [Cards -> BOOLEAN]
    BY <1>8 DEF Toggle, Disturb, TypeOK
  <2> QED
    BY <1>8, <2>1, <2>2, <2>3 DEF Toggle, TypeOK
<1>9. ASSUME NEW c \in Cards, ToggleDone(c) PROVE TypeOK'
  <2>1. PICK i \in card[c].waiting :
          card' = [card EXCEPT ![c].waiting = @ \ {i}, ![c].isSaved = ~@]
    BY <1>9 DEF ToggleDone
  <2>2. [card[c] EXCEPT !.waiting = @ \ {i}, !.isSaved = ~@] \in CardState
    BY <1>9, ShownCard DEF ToggleDone, CardState
  <2>3. card' \in [Cards -> {Absent} \cup CardState]
    BY <2>1, <2>2 DEF TypeOK
  <2> QED
    BY <1>9, <2>3 DEF ToggleDone, TypeOK
<1>10. ASSUME NEW d \in Devices, Commit(d) PROVE TypeOK'
  <2>1. PICK w \in queue[d] :
          /\ queue' = [queue EXCEPT ![d] = @ \ {w}]
          /\ stored' = IF w.saved THEN stored \cup {w.title} ELSE stored \ {w.title}
          /\ kept' = [kept EXCEPT ![d][w.title] = IF w.saved THEN "saved" ELSE "unsaved"]
          /\ UNCHANGED <<card, taps, steady>>
    BY <1>10 DEF Commit
  <2>2. w \in Write
    BY DEF TypeOK
  <2>3. w.title \in Titles
    BY <2>2 DEF Write
  <2>4. queue' \in [Devices -> SUBSET Write] /\ stored' \subseteq Titles
    BY <2>1, <2>3 DEF TypeOK
  <2>5. kept' \in [Devices -> [Titles -> {"unknown", "saved", "unsaved"}]]
    BY <2>1, <2>3 DEF TypeOK
  <2> QED
    BY <2>1, <2>4, <2>5 DEF TypeOK
<1>11. ASSUME NEW d \in Devices, Restart(d) PROVE TypeOK'
  <2>1. card' \in [Cards -> {Absent} \cup CardState]
    BY <1>11 DEF Restart, TypeOK
  <2> QED
    BY <1>11, <2>1 DEF Restart, TypeOK
<1>12. CASE UNCHANGED vars
  BY <1>12 DEF vars, TypeOK
<1> QED
  BY <1>1, <1>2, <1>3, <1>4, <1>5, <1>6, <1>7, <1>8, <1>9, <1>10, <1>11, <1>12
  DEF Next, CardStep

\* All variables keep their types: in particular an icon is always a Boolean
\* and every tap in flight is one that was made.
THEOREM TypeCorrect == Spec => []TypeOK
BY InitTypeOK, NextTypeOK, PTL DEF Spec

-----------------------------------------------------------------------------
(* The bookmark tells the truth.                                            *)

\* Queued writes come from different taps, none later than the last one.
TapsNumberWrites ==
  \A d \in Devices : \A v, w \in queue[d] :
    v.tap <= taps /\ (v.tap = w.tap => v = w)

\* The strengthening: a steady card asks for the room it shows, no other phone
\* has a write of that room on its way, at most one tap is in flight, none
\* before the check is done, and an answer not yet shown is the present truth.
CardTrue(c) ==
  LET d == DeviceOf[c]
      t == card[c].title
  IN
  /\ card[c].asks = t
  /\ \A e \in Devices : e # d => Queued(e, t) = {}
  /\ \A i, j \in card[c].waiting : i = j
  /\ card[c].check \in {"asked", "answered"} => card[c].waiting = {}
  /\ card[c].check = "answered" => (card[c].found <=> IsSavedOn(d, t))
  /\ card[c].check = "done" =>
       (card[c].isSaved <=> (IsSavedOn(d, t) <=> card[c].waiting = {}))

SteadyCardsTrue == \A c \in Cards : (Shown(c) /\ steady[c]) => CardTrue(c)

\* A card that a step leaves alone stays true if the step neither queues nor
\* sends a write.
LEMMA CardUntouched ==
  ASSUME NEW c \in Cards, CardTrue(c), card'[c] = card[c],
         queue' = queue, stored' = stored
  PROVE  CardTrue(c)'
BY DEF CardTrue, IsSavedOn, Overlay, Queued

\* Sending the oldest write of a phone changes nothing of what that phone sees.
LEMMA CommitKeepsView ==
  ASSUME TypeOK, TapsNumberWrites, NEW d \in Devices, Commit(d), NEW t \in Titles
  PROVE  IsSavedOn(d, t)' <=> IsSavedOn(d, t)
<1>1. PICK w \in queue[d] :
        /\ \A v \in queue[d] : w.tap <= v.tap
        /\ queue' = [queue EXCEPT ![d] = @ \ {w}]
        /\ stored' = IF w.saved THEN stored \cup {w.title} ELSE stored \ {w.title}
  BY DEF Commit
<1>2. w \in Write /\ \A v \in queue[d] : v \in Write
  BY DEF TypeOK
<1>3. \A v \in queue[d] : v.tap \in Nat /\ w.tap \in Nat
  BY <1>2 DEF Write
<1>4. Queued(d, t)' = Queued(d, t) \ {w}
  BY <1>1 DEF Queued, TypeOK
<1>5. CASE w.title # t
  <2>1. Queued(d, t)' = Queued(d, t)
    BY <1>4, <1>5 DEF Queued
  <2>2. (t \in stored)' <=> t \in stored
    BY <1>1, <1>5
  <2> QED
    BY <2>1, <2>2 DEF IsSavedOn, Overlay
<1>6. CASE w.title = t /\ Queued(d, t) = {w}
  <2>1. Queued(d, t)' = {}
    BY <1>4, <1>6
  <2>2. IsSavedOn(d, t) <=> w.saved
    BY <1>3, <1>6 DEF IsSavedOn, Overlay
  <2>3. IsSavedOn(d, t)' <=> (t \in stored)'
    BY <2>1 DEF IsSavedOn, Overlay
  <2>4. (t \in stored)' <=> w.saved
    BY <1>1, <1>6
  <2> QED
    BY <2>2, <2>3, <2>4
<1>7. CASE w.title = t /\ Queued(d, t) # {w}
  <2>1. w \in Queued(d, t) /\ \A v \in Queued(d, t) : v \in queue[d]
    BY <1>7 DEF Queued
  <2>2. PICK v \in Queued(d, t) : v # w
    BY <1>7, <2>1
  <2>3. w.tap < v.tap
    BY <1>1, <1>3, <2>1, <2>2 DEF TapsNumberWrites
  <2>4. Queued(d, t)' # {}
    BY <1>4, <2>2
  <2>5. \A u \in Queued(d, t) :
          (\A x \in Queued(d, t) : x.tap <= u.tap) <=>
            (u # w /\ \A x \in Queued(d, t) \ {w} : x.tap <= u.tap)
    BY <1>1, <1>3, <2>1, <2>2, <2>3
  <2>6. IsSavedOn(d, t) <=>
          \E u \in Queued(d, t) : u.saved /\ \A x \in Queued(d, t) : x.tap <= u.tap
    BY <2>1 DEF IsSavedOn, Overlay
  <2>7. IsSavedOn(d, t)' <=>
          \E u \in Queued(d, t) \ {w} :
            u.saved /\ \A x \in Queued(d, t) \ {w} : x.tap <= u.tap
    BY <1>4, <2>4 DEF IsSavedOn, Overlay
  <2> QED
    BY <2>5, <2>6, <2>7
<1> QED
  BY <1>5, <1>6, <1>7

\* A new write is what its phone sees of that room from then on.
LEMMA WriteIsSeen ==
  ASSUME TypeOK, TapsNumberWrites, NEW d \in Devices, NEW w \in Write,
         w.tap = taps + 1, queue' = [queue EXCEPT ![d] = @ \cup {w}]
  PROVE  IsSavedOn(d, w.title)' <=> w.saved
<1>1. Queued(d, w.title)' = Queued(d, w.title) \cup {w}
  BY DEF Queued, TypeOK
<1>2. \A v \in Queued(d, w.title) : v.tap <= taps /\ v.tap \in Nat
  BY DEF Queued, TapsNumberWrites, TypeOK, Write
<1>3. taps \in Nat
  BY DEF TypeOK
<1>4. \A v \in Queued(d, w.title)' : v.tap <= w.tap /\ (v # w => ~(w.tap <= v.tap))
  BY <1>1, <1>2, <1>3
<1> QED
  BY <1>1, <1>4 DEF IsSavedOn, Overlay

LEMMA TapsNumberWritesInductive ==
  TypeOK /\ TapsNumberWrites /\ [Next]_vars => TapsNumberWrites'
<1> SUFFICES ASSUME TypeOK, TapsNumberWrites, [Next]_vars PROVE TapsNumberWrites'
  OBVIOUS
<1>1. ASSUME UNCHANGED <<queue, taps>> PROVE TapsNumberWrites'
  BY <1>1 DEF TapsNumberWrites
<1>2. ASSUME NEW c \in Cards, Toggle(c) PROVE TapsNumberWrites'
  <2>1. PICK w \in Write :
           /\ card[c] \in CardState
           /\ w.tap = taps + 1 /\ w.title = card[c].title /\ w.saved = ~card[c].isSaved
           /\ taps' = taps + 1 /\ taps' \in 0..MaxTaps
           /\ queue' = [queue EXCEPT ![DeviceOf[c]] = @ \cup {w}]
           /\ card' = [card EXCEPT ![c] = [card[c] EXCEPT !.waiting = @ \cup {taps + 1}]]
           /\ card' \in [Cards -> {Absent} \cup CardState]
    BY <1>2, ToggleEffect
  <2>2. \A d \in Devices : \A v \in queue'[d] : v = w \/ v \in queue[d]
    BY <2>1 DEF TypeOK
  <2>3. \A d \in Devices : \A v \in queue[d] : v.tap \in Nat /\ taps \in Nat /\ v.tap <= taps
    BY DEF TypeOK, Write, TapsNumberWrites
  <2> QED
    BY <2>1, <2>2, <2>3 DEF TapsNumberWrites
<1>3. ASSUME NEW d \in Devices, Commit(d) PROVE TapsNumberWrites'
  <2>1. \A e \in Devices : queue'[e] \subseteq queue[e]
    BY <1>3 DEF Commit, TypeOK
  <2> QED
    BY <1>3, <2>1 DEF Commit, TapsNumberWrites
<1> QED
  BY <1>1, <1>2, <1>3
  DEF Next, CardStep, vars, ShowCard, Rebind, HideCard, RoleKnown, CheckAnswered,
      CheckFails, CheckDone, ToggleDone, Restart

\* A step of one card that neither queues nor sends a write leaves the others.
LEMMA OtherCards ==
  ASSUME SteadyCardsTrue, NEW c \in Cards, NEW x \in Cards, x # c,
         card'[x] = card[x], steady'[x] => steady[x], queue' = queue, stored' = stored,
         Shown(x)', steady'[x]
  PROVE  CardTrue(x)'
BY CardUntouched DEF SteadyCardsTrue, Shown

LEMMA SteadyCardsTrueInductive ==
  TypeOK /\ TypeOK' /\ TapsNumberWrites /\ SteadyCardsTrue /\ [Next]_vars => SteadyCardsTrue'
<1> SUFFICES ASSUME TypeOK, TypeOK', TapsNumberWrites, SteadyCardsTrue, [Next]_vars,
                    NEW x \in Cards, Shown(x)', steady'[x]
             PROVE  CardTrue(x)'
  BY DEF SteadyCardsTrue
<1>0. DeviceOf[x] \in Devices
  BY DeviceOfAssumption
<1>1. ASSUME NEW c \in Cards, NEW t \in Titles, ShowCard(c, t) PROVE CardTrue(x)'
  <2>1. CASE x = c
    <3>1. /\ card'[x] = [check |-> "asked", title |-> t, asks |-> t, button |-> FALSE,
                         found |-> FALSE, isSaved |-> FALSE, waiting |-> {}]
          /\ steady'[x] = (\A d \in Devices : d # DeviceOf[c] => Queued(d, t) = {})
          /\ queue' = queue
      BY <1>1, <2>1 DEF ShowCard, TypeOK
    <3>2. \A e \in Devices : e # DeviceOf[x] => Queued(e, t)' = {}
      BY <2>1, <3>1 DEF Queued
    <3> QED
      BY <3>1, <3>2 DEF CardTrue
  <2>2. CASE x # c
    BY <1>1, <2>2, OtherCards DEF ShowCard, TypeOK
  <2> QED
    BY <2>1, <2>2
<1>2. ASSUME NEW c \in Cards, NEW t \in Titles, Rebind(c, t) PROVE CardTrue(x)'
  <2>1. x # c
    BY <1>2 DEF Rebind, TypeOK
  <2> QED
    BY <1>2, <2>1, OtherCards DEF Rebind, TypeOK
<1>3. ASSUME NEW c \in Cards, HideCard(c) PROVE CardTrue(x)'
  <2>1. x # c
    BY <1>3 DEF HideCard, TypeOK, Shown, Absent
  <2> QED
    BY <1>3, <2>1, OtherCards DEF HideCard, TypeOK
<1>4. ASSUME NEW c \in Cards, RoleKnown(c) PROVE CardTrue(x)'
  <2>1. CASE x = c
    <3>1. card[x] \in CardState
      BY <1>4, <2>1, ShownCard DEF RoleKnown
    <3>2. card'[x] = [card[x] EXCEPT !.button = TRUE] /\ queue' = queue
          /\ stored' = stored /\ steady' = steady
      BY <1>4, <2>1, <3>1 DEF RoleKnown, TypeOK
    <3>3. CardTrue(x)
      BY <1>4, <2>1, <3>2 DEF SteadyCardsTrue, RoleKnown
    <3>4. /\ card'[x].asks = card[x].asks /\ card'[x].title = card[x].title
          /\ card'[x].waiting = card[x].waiting /\ card'[x].check = card[x].check
          /\ card'[x].found = card[x].found /\ card'[x].isSaved = card[x].isSaved
      BY <3>1, <3>2 DEF CardState
    <3> QED
      BY <3>2, <3>3, <3>4 DEF CardTrue, IsSavedOn, Overlay, Queued
  <2>2. CASE x # c
    BY <1>4, <2>2, OtherCards DEF RoleKnown, TypeOK
  <2> QED
    BY <2>1, <2>2
<1>5. ASSUME NEW c \in Cards, CheckAnswered(c) PROVE CardTrue(x)'
  <2>1. PICK f \in BOOLEAN, b \in BOOLEAN :
           LET d == DeviceOf[c]
               t == card[c].asks
           IN
           /\ card[c] \in CardState /\ card[c].check = "asked"
           /\ card' = [card EXCEPT ![c] = [card[c] EXCEPT !.check = "answered", !.found = f]]
           /\ steady' = [steady EXCEPT ![c] = steady[c] /\ b]
           /\ f = Overlay(d, t, t \in stored) \/ ~b
           /\ kept' \in [Devices -> [Titles -> {"unknown", "saved", "unsaved"}]]
           /\ UNCHANGED <<stored, queue, taps>>
    BY <1>5, AnsweredType
  <2>2. CASE x = c
    <3>1. steady[x] /\ b
      BY <2>1, <2>2 DEF TypeOK
    <3>2. CardTrue(x)
      BY <1>5, <2>2, <3>1 DEF SteadyCardsTrue, CheckAnswered
    <3>3. /\ card'[x].asks = card[x].asks /\ card'[x].title = card[x].title
          /\ card'[x].waiting = card[x].waiting /\ card'[x].check = "answered"
          /\ card'[x].found = f
      BY <2>1, <2>2 DEF CardState, TypeOK
    <3>4. f <=> IsSavedOn(DeviceOf[x], card[x].title)
      BY <2>1, <2>2, <3>1, <3>2 DEF CardTrue, IsSavedOn
    <3>5. IsSavedOn(DeviceOf[x], card[x].title)' <=> IsSavedOn(DeviceOf[x], card[x].title)
      BY <2>1, <3>3 DEF IsSavedOn, Overlay, Queued
    <3>6. card[x].waiting = {}
      BY <2>1, <2>2, <3>2 DEF CardTrue
    <3> QED
      BY <2>1, <3>2, <3>3, <3>4, <3>5, <3>6 DEF CardTrue, Queued
  <2>3. CASE x # c
    BY <2>1, <2>3, OtherCards DEF TypeOK
  <2> QED
    BY <2>2, <2>3
<1>6. ASSUME NEW c \in Cards, CheckFails(c) PROVE CardTrue(x)'
  <2>1. CASE x = c
    <3>1. card[x] \in CardState
      BY <1>6, <2>1, ShownCard DEF CheckFails
    <3>2. card'[x] = [card[x] EXCEPT !.check = "failed"] /\ queue' = queue
          /\ stored' = stored /\ steady' = steady
      BY <1>6, <2>1, <3>1 DEF CheckFails, TypeOK
    <3>3. CardTrue(x)
      BY <1>6, <2>1, <3>2 DEF SteadyCardsTrue, CheckFails
    <3>4. /\ card'[x].asks = card[x].asks /\ card'[x].title = card[x].title
          /\ card'[x].waiting = card[x].waiting /\ card'[x].check = "failed"
      BY <3>1, <3>2 DEF CardState
    <3> QED
      BY <3>2, <3>3, <3>4 DEF CardTrue, Queued
  <2>2. CASE x # c
    BY <1>6, <2>2, OtherCards DEF CheckFails, TypeOK
  <2> QED
    BY <2>1, <2>2
<1>7. ASSUME NEW c \in Cards, CheckDone(c) PROVE CardTrue(x)'
  <2>1. CASE x = c
    <3>1. card[x] \in CardState /\ card[x].check = "answered"
      BY <1>7, <2>1, ShownCard DEF CheckDone
    <3>2. card'[x] = [card[x] EXCEPT !.check = "done", !.isSaved = card[x].found]
          /\ queue' = queue /\ stored' = stored /\ steady' = steady
      BY <1>7, <2>1, <3>1 DEF CheckDone, TypeOK
    <3>3. CardTrue(x)
      BY <1>7, <2>1, <3>2 DEF SteadyCardsTrue, CheckDone
    <3>4. /\ card'[x].asks = card[x].asks /\ card'[x].title = card[x].title
          /\ card'[x].waiting = card[x].waiting /\ card'[x].check = "done"
          /\ card'[x].isSaved = card[x].found
      BY <3>1, <3>2 DEF CardState
    <3> QED
      BY <3>1, <3>2, <3>3, <3>4 DEF CardTrue, IsSavedOn, Overlay, Queued
  <2>2. CASE x # c
    BY <1>7, <2>2, OtherCards DEF CheckDone, TypeOK
  <2> QED
    BY <2>1, <2>2
<1>8. ASSUME NEW c \in Cards, Toggle(c) PROVE CardTrue(x)'
  <2>1. PICK w \in Write :
           /\ card[c] \in CardState
           /\ w.tap = taps + 1 /\ w.title = card[c].title /\ w.saved = ~card[c].isSaved
           /\ taps' = taps + 1 /\ taps' \in 0..MaxTaps
           /\ queue' = [queue EXCEPT ![DeviceOf[c]] = @ \cup {w}]
           /\ card' = [card EXCEPT ![c] = [card[c] EXCEPT !.waiting = @ \cup {taps + 1}]]
           /\ card' \in [Cards -> {Absent} \cup CardState]
    BY <1>8, ToggleEffect
  <2>2. DeviceOf[c] \in Devices /\ stored' = stored
    BY <1>8, DeviceOfAssumption DEF Toggle
  <2>3. CASE x = c
    <3>1. steady[x] /\ card[x].check = "done" /\ card[x].waiting = {}
      BY <1>8, <2>3 DEF Toggle, Disturb
    <3>2. CardTrue(x)
      BY <1>8, <2>3, <3>1 DEF SteadyCardsTrue, Toggle
    <3>3. /\ card'[x].asks = card[x].asks /\ card'[x].title = card[x].title
          /\ card'[x].waiting = {taps + 1} /\ card'[x].check = "done"
          /\ card'[x].isSaved = card[x].isSaved
      BY <2>1, <2>3, <3>1 DEF CardState, TypeOK
    <3>4. IsSavedOn(DeviceOf[x], card[x].title)' <=> w.saved
      BY <2>1, <2>2, <2>3, <3>3, WriteIsSeen
    <3>5. \A e \in Devices : e # DeviceOf[x] => Queued(e, card[x].title)' = {}
      BY <2>1, <2>2, <2>3, <3>2, <3>3 DEF CardTrue, Queued, TypeOK
    <3>6. card[x].isSaved \in BOOLEAN
      BY <2>1, <2>3, CardFields
    <3> QED
      BY <2>1, <2>3, <3>2, <3>3, <3>4, <3>5, <3>6 DEF CardTrue
  <2>4. CASE x # c
    <3>1. card'[x] = card[x] /\ steady[x] /\ ~(Shown(x) /\ card[x].title = card[c].title)
      BY <1>8, <2>1, <2>4 DEF Toggle, Disturb, TypeOK
    <3>2. CardTrue(x) /\ card[x].title # w.title
      BY <2>1, <3>1 DEF SteadyCardsTrue, Shown
    <3>3. \A e \in Devices : Queued(e, card[x].title)' = Queued(e, card[x].title)
      BY <2>1, <2>2, <3>1, <3>2 DEF Queued, TypeOK
    <3>4. IsSavedOn(DeviceOf[x], card[x].title)' <=> IsSavedOn(DeviceOf[x], card[x].title)
      BY <1>0, <2>2, <3>1, <3>3 DEF IsSavedOn, Overlay
    <3> QED
      BY <3>1, <3>2, <3>3, <3>4 DEF CardTrue
  <2> QED
    BY <2>3, <2>4
<1>9. ASSUME NEW c \in Cards, ToggleDone(c) PROVE CardTrue(x)'
  <2>1. PICK i \in card[c].waiting :
          card' = [card EXCEPT ![c].waiting = @ \ {i}, ![c].isSaved = ~@]
    BY <1>9 DEF ToggleDone
  <2>2. queue' = queue /\ stored' = stored /\ steady' = steady /\ Shown(c)
    BY <1>9 DEF ToggleDone
  <2>3. CASE x = c
    <3>1. card[x] \in CardState
      BY <2>2, <2>3, ShownCard
    <3>2. CardTrue(x)
      BY <2>2, <2>3 DEF SteadyCardsTrue
    <3>3. /\ card'[x].asks = card[x].asks /\ card'[x].title = card[x].title
          /\ card'[x].waiting = card[x].waiting \ {i} /\ card'[x].check = card[x].check
          /\ card'[x].isSaved = ~card[x].isSaved
      BY <2>1, <2>3, <3>1 DEF CardState, TypeOK
    <3>4. card[x].waiting = {i} /\ card'[x].waiting = {}
      BY <2>1, <2>3, <3>2, <3>3 DEF CardTrue
    <3>5. IsSavedOn(DeviceOf[x], card[x].title)' <=> IsSavedOn(DeviceOf[x], card[x].title)
      BY <2>2, <3>3 DEF IsSavedOn, Overlay, Queued
    <3>6. card[x].isSaved \in BOOLEAN
      BY <3>1, CardFields
    <3>7. card[x].check \notin {"asked", "answered"}
      BY <3>2, <3>4 DEF CardTrue
    <3>8. \A e \in Devices : e # DeviceOf[x] => Queued(e, card[x].title)' = {}
      BY <2>2, <3>2, <3>3 DEF CardTrue, Queued
    <3> QED
      BY <3>2, <3>3, <3>4, <3>5, <3>6, <3>7, <3>8 DEF CardTrue
  <2>4. CASE x # c
    BY <2>1, <2>2, <2>4, OtherCards DEF TypeOK
  <2> QED
    BY <2>3, <2>4
<1>10. ASSUME NEW d \in Devices, Commit(d) PROVE CardTrue(x)'
  <2>1. PICK w \in queue[d] :
          /\ queue' = [queue EXCEPT ![d] = @ \ {w}]
          /\ stored' = IF w.saved THEN stored \cup {w.title} ELSE stored \ {w.title}
          /\ UNCHANGED <<card, taps, steady>>
    BY <1>10 DEF Commit
  <2>2. CardTrue(x) /\ card'[x] = card[x]
    BY <2>1 DEF SteadyCardsTrue, Shown
  <2>3. card[x].title \in Titles
    BY <2>1, ShownCard, CardFields DEF Shown
  <2>4. \A e \in Devices : Queued(e, card[x].title)' \subseteq Queued(e, card[x].title)
    BY <2>1, <2>2 DEF Queued, TypeOK
  <2>5. IsSavedOn(DeviceOf[x], card[x].title)' <=> IsSavedOn(DeviceOf[x], card[x].title)
    <3>1. CASE DeviceOf[x] = d
      BY <1>10, <2>2, <2>3, <3>1, CommitKeepsView
    <3>2. CASE DeviceOf[x] # d
      <4>1. w.title # card[x].title
        BY <2>2, <3>2 DEF CardTrue, Queued
      <4>2. (card[x].title \in stored)' <=> card[x].title \in stored
        BY <2>1, <2>2, <4>1
      <4>3. Queued(DeviceOf[x], card[x].title)' = Queued(DeviceOf[x], card[x].title)
        BY <1>0, <2>1, <2>2, <3>2 DEF Queued, TypeOK
      <4> QED
        BY <4>2, <4>3 DEF IsSavedOn, Overlay
    <3> QED
      BY <3>1, <3>2
  <2> QED
    BY <2>2, <2>4, <2>5 DEF CardTrue
<1>11. ASSUME NEW d \in Devices, Restart(d) PROVE CardTrue(x)'
  <2>1. card'[x] = card[x] /\ queue' = queue /\ stored' = stored /\ steady' = steady
    BY <1>11 DEF Restart, TypeOK, Shown, Absent
  <2>2. CardTrue(x)
    BY <2>1 DEF SteadyCardsTrue, Shown
  <2> QED
    BY <2>1, <2>2, CardUntouched
<1>12. CASE UNCHANGED vars
  <2>1. card' = card /\ queue' = queue /\ stored' = stored /\ steady' = steady
    BY <1>12 DEF vars
  <2>2. CardTrue(x)
    BY <2>1 DEF SteadyCardsTrue, Shown
  <2> QED
    BY <2>1, <2>2, CardUntouched
<1> QED
  BY <1>1, <1>2, <1>3, <1>4, <1>5, <1>6, <1>7, <1>8, <1>9, <1>10, <1>11, <1>12
  DEF Next, CardStep

\* A bookmark touched by nothing but its own, separate taps shows whether its
\* room is saved, for any number of phones, cards and taps in any order.
THEOREM IconTrue == Spec => []IconIsTrue
<1> DEFINE Inv == TypeOK /\ TapsNumberWrites /\ SteadyCardsTrue
<1>1. Init => TapsNumberWrites /\ SteadyCardsTrue
  BY DEF Init, TapsNumberWrites, SteadyCardsTrue, Shown, Absent
<1>2. Init => Inv
  BY <1>1, InitTypeOK
<1>3. Inv /\ [Next]_vars => Inv'
  BY NextTypeOK, TapsNumberWritesInductive, SteadyCardsTrueInductive
<1>4. Inv => IconIsTrue
  BY DEF SteadyCardsTrue, CardTrue, IconIsTrue
<1> QED
  BY <1>2, <1>3, <1>4, PTL DEF Spec
=============================================================================
