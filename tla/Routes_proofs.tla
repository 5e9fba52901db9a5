---------------------------- MODULE Routes_proofs ----------------------------
(***************************************************************************)
(* Proofs about the two parts whose handlers end with Navigator.pop and    *)
(* take whatever route is on top by then: the profile page (Profile), for  *)
(* any texts, pictures, places, numbers of updates in flight and bounds,   *)
(* and the filter dialog (RoomFilter), for any prices, places, rooms,      *)
(* fillings and numbers of queries in flight.                              *)
(***************************************************************************)
EXTENDS Profile, RoomFilter, SequenceTheorems, TLAPS

-----------------------------------------------------------------------------
(* Types.                                                                   *)

Call == {Idle, Saving} \cup Upload
Write == Update \cup Move

LEMMA UploadFields ==
  ASSUME NEW c \in Call, c.at = "uploading"
  PROVE  /\ c \in Upload /\ c.image \in Pictures /\ c.mounted \in BOOLEAN
         /\ c.frozen \in Form /\ c.unloaded \in BOOLEAN
<1>1. c # Idle /\ c # Saving
  BY DEF Idle, Saving
<1> QED
  BY <1>1 DEF Call, Upload

LEMMA CallOf ==
  ASSUME TypeOK, NEW s \in Slots
  PROVE  calls[s] \in Call
BY DEF TypeOK, Call

LEMMA IdleIsCall == Idle \in Call /\ Saving \in Call /\ Idle # Saving
BY DEF Call, Idle, Saving

\* A call whose draft is given up remains the same call.
LEMMA UndraftedCall ==
  ASSUME NEW c \in Call
  PROVE  /\ Undrafted(c) \in Call /\ Undrafted(c).at = c.at
         /\ c.at # "uploading" => Undrafted(c) = c
         /\ c.at = "uploading" =>
              /\ Undrafted(c).image = c.image /\ Undrafted(c).mounted = c.mounted
              /\ Undrafted(c).frozen = c.frozen /\ Undrafted(c).unloaded = c.unloaded
              /\ Undrafted(c).draft = {}
<1>1. CASE c.at # "uploading"
  BY <1>1 DEF Undrafted
<1>2. CASE c.at = "uploading"
  <2>1. c \in Upload
    BY <1>2, UploadFields
  <2> QED
    BY <1>2, <2>1 DEF Undrafted, Upload, Call
<1> QED
  BY <1>1, <1>2

\* So does one that loses its page.
LEMMA UnmountedCall ==
  ASSUME TypeOK, NEW c \in Call, c.at = "uploading"
  PROVE  LET u == [c EXCEPT !.mounted = FALSE, !.frozen = form] IN
         /\ u \in Call /\ u.at = "uploading" /\ ~u.mounted /\ u.frozen = form
         /\ u.image = c.image /\ u.unloaded = c.unloaded /\ u.draft = c.draft
<1>1. c \in Upload /\ form \in Form
  BY UploadFields DEF TypeOK
<1> QED
  BY <1>1 DEF Upload, Call

LEMMA WrittenType ==
  ASSUME NEW f \in Form, NEW got \in Pictures \cup {NoPicture},
         NEW slot \in Slots \cup {NoSlot}, NEW u \in BOOLEAN
  PROVE  LET w == Written(f, got, slot, u) IN
         /\ w \in Update /\ w.kind = "profile" /\ w.slot = slot /\ w.unloaded = u
         /\ w.text = f.text /\ w.picture = (IF got # NoPicture THEN got ELSE f.url)
BY DEF Written, Update, Form, Urls

\* The queue after a write, and after an answer.
LEMMA QueueAppend ==
  ASSUME TypeOK, NEW w \in Write, queue' = Append(queue, w)
  PROVE  /\ queue' \in Seq(Write) /\ Len(queue) \in Nat
         /\ Len(queue') = Len(queue) + 1 /\ queue'[Len(queue')] = w
         /\ \A i \in 1..Len(queue) : queue'[i] = queue[i]
BY DEF TypeOK, Write

LEMMA QueueTail ==
  ASSUME TypeOK, queue # <<>>, queue' = Tail(queue)
  PROVE  /\ queue' \in Seq(Write) /\ Len(queue) \in Nat /\ Len(queue) # 0
         /\ Len(queue') = Len(queue) - 1 /\ Head(queue) = queue[1]
         /\ Head(queue) \in Write
         /\ \A i \in 1..Len(queue') : queue'[i] = queue[i + 1]
BY DEF TypeOK, Write

LEMMA QueueElement ==
  ASSUME TypeOK, NEW i \in 1..Len(queue)
  PROVE  queue[i] \in Write
BY DEF TypeOK, Write

LEMMA UpdateFields ==
  ASSUME NEW w \in Write, w.kind = "profile"
  PROVE  /\ w \in Update /\ w.slot \in Slots \cup {NoSlot}
         /\ w.uploaded \in Pictures \cup {NoPicture} /\ w.picture \in Urls
         /\ w.text \in Texts \cup {Blank}
<1>1. w \notin Move
  BY DEF Move
<1> QED
  BY <1>1 DEF Write, Update

LEMMA MoveFields ==
  ASSUME NEW w \in Write, w.kind # "profile"
  PROVE  w \in Move /\ w.kind = "location" /\ w.place \in Places
BY DEF Write, Update, Move

LEMMA WriteKinds ==
  /\ \A w \in Update : w.kind = "profile"
  /\ \A w \in Move : w.kind = "location"
BY DEF Update, Move

\* Without their handlers, writes say what they said.
LEMMA UnattendedQueue ==
  ASSUME TypeOK, queue' = Unattended
  PROVE  /\ queue' \in Seq(Write) /\ Len(queue') = Len(queue) /\ Len(queue) \in Nat
         /\ \A i \in 1..Len(queue) :
              /\ queue'[i].kind = queue[i].kind
              /\ queue[i].kind = "profile" =>
                   /\ queue'[i].slot = NoSlot /\ queue'[i].picture = queue[i].picture
                   /\ queue'[i].unloaded = queue[i].unloaded
<1>1. PICK n \in Nat : n = Len(queue) /\ DOMAIN queue = 1..n
  BY DEF TypeOK
<1>2. queue' = [i \in 1..n |-> IF queue[i].kind = "profile"
                               THEN [queue[i] EXCEPT !.slot = NoSlot] ELSE queue[i]]
  BY <1>1 DEF Unattended
<1>3. ASSUME NEW i \in 1..n
      PROVE  /\ queue'[i] \in Write /\ queue'[i].kind = queue[i].kind
             /\ queue[i].kind = "profile" =>
                  /\ queue'[i].slot = NoSlot /\ queue'[i].picture = queue[i].picture
                  /\ queue'[i].unloaded = queue[i].unloaded
  <2>1. queue[i] \in Write
    BY <1>1, <1>3, QueueElement
  <2>2. CASE queue[i].kind = "profile"
    <3>1. queue[i] \in Update
      BY <2>1, <2>2, UpdateFields
    <3>2. queue'[i] = [queue[i] EXCEPT !.slot = NoSlot]
      BY <1>2, <1>3, <2>2
    <3> QED
      BY <3>1, <3>2 DEF Update, Write
  <2>3. CASE queue[i].kind # "profile"
    BY <1>2, <1>3, <2>1, <2>3
  <2> QED
    BY <2>2, <2>3
<1>4. queue' \in Seq(Write) /\ Len(queue') = n
  <2>1. PICK q : q = queue'
    OBVIOUS
  <2>2. q = [i \in 1..n |-> q[i]] /\ \A i \in 1..n : q[i] \in Write
    BY <1>2, <1>3, <2>1
  <2>3. q \in [1..n -> Write]
    BY <2>2
  <2>4. q \in Seq(Write) /\ Len(q) = n
    BY <2>3
  <2> QED
    BY <2>1, <2>4
<1> QED
  BY <1>1, <1>3, <1>4

\* A pop takes the progress dialog if there is one, and what it was opened from
\* only if neither it nor the page is there.
LEMMA PopEffect ==
  ASSUME TypeOK, PopTop
  PROVE  /\ below' \in BOOLEAN /\ page' \in {"open", "closing", "gone"}
         /\ progress' \in BOOLEAN /\ media' \in {"none", "dialog", "picker"}
         /\ progress /\ media = "none" => ~progress' /\ page' = page
         /\ progress' => progress
         /\ media = "none" => media' = "none"
         /\ progress \/ page = "open" => below' = below
         /\ page' # page => page' = "closing" /\ page = "open" /\ ~progress
<1>1. CASE media = "dialog" /\ media' = "none" /\ UNCHANGED <<below, page, progress>>
  BY <1>1 DEF TypeOK
<1>2. CASE progress /\ progress' = FALSE /\ UNCHANGED <<below, page, media>>
  BY <1>2 DEF TypeOK
<1>3. CASE /\ media # "dialog" /\ ~progress /\ page = "open"
           /\ page' = "closing" /\ UNCHANGED <<below, progress, media>>
  BY <1>3 DEF TypeOK
<1>4. CASE /\ media # "dialog" /\ ~progress /\ page # "open"
           /\ below' = FALSE /\ UNCHANGED <<page, progress, media>>
  BY <1>4 DEF TypeOK
<1> QED
  BY <1>1, <1>2, <1>3, <1>4 DEF PopTop

\* The end of an update: its slot is free, the other calls remain, without
\* their drafts if a progress dialog is there to be popped.
LEMMA SettleEffect ==
  ASSUME TypeOK, NEW s \in Slots, Settle(s)
  PROVE  /\ calls' \in [Slots -> Call] /\ calls'[s] = Idle
         /\ \A t \in Slots : t # s =>
              calls'[t] = IF progress THEN Undrafted(calls[t]) ELSE calls[t]
<1>1. calls' = [t \in Slots |-> IF t = s THEN Idle
                                ELSE IF progress THEN Undrafted(calls[t]) ELSE calls[t]]
  BY DEF Settle
<1>2. \A t \in Slots : calls[t] \in Call /\ Undrafted(calls[t]) \in Call
  BY CallOf, UndraftedCall
<1> QED
  BY <1>1, <1>2, IdleIsCall

LEMMA FreeSlot ==
  ASSUME HasFree
  PROVE  Free \in Slots /\ calls[Free] = Idle
BY DEF HasFree, Free

LEMMA NewFormType == NewForm \in Form /\ NewForm.url = NoPicture
BY DEF NewForm, Form, Urls

\* A new upload, and what a tap sends at once.
LEMMA TapEffect ==
  ASSUME TypeOK, TapUpdate
  PROVE  \E s \in Slots :
    /\ calls[s] = Idle /\ calls'[s] \in Call
    /\ calls' \in [Slots -> Call]
    /\ \A t \in Slots : t # s => calls'[t] = calls[t]
    /\ \/ /\ queue' = queue
          /\ calls'[s].at = "uploading" /\ calls'[s].mounted
          /\ calls'[s].unloaded = (loading # "done")
          /\ calls'[s].draft # {} => loading # "asked" /\ calls'[s].draft = {form}
       \/ /\ queue' = Append(queue, Written(form, NoPicture, s, loading # "done"))
          /\ calls'[s] = Saving
<1>1. PICK s \in Slots : s = Free /\ calls[s] = Idle
  BY FreeSlot DEF TapUpdate
<1>2. calls \in [Slots -> Call] /\ form \in Form /\ image \in Pictures \cup {NoPicture}
  BY DEF TypeOK, Call
<1>3. CASE /\ image = NoPicture
           /\ calls' = [calls EXCEPT ![s] = Saving]
           /\ queue' = Append(queue, Written(form, NoPicture, s, loading # "done"))
  BY <1>1, <1>2, <1>3, IdleIsCall
<1>4. ASSUME NEW u, u = [at |-> "uploading", image |-> image, mounted |-> TRUE,
                         frozen |-> NewForm, unloaded |-> loading # "done",
                         draft |-> IF loading = "asked" THEN {} ELSE {form}],
             image # NoPicture, calls' = [calls EXCEPT ![s] = u], queue' = queue
      PROVE  /\ calls' \in [Slots -> Call] /\ calls'[s] = u /\ u \in Call
             /\ \A t \in Slots : t # s => calls'[t] = calls[t]
             /\ u.at = "uploading" /\ u.mounted /\ u.unloaded = (loading # "done")
             /\ u.draft # {} => loading # "asked" /\ u.draft = {form}
  <2>1. u \in Call
    BY <1>2, <1>4, NewFormType DEF Call, Upload
  <2>2. u.at = "uploading" /\ u.mounted /\ u.unloaded = (loading # "done")
    BY <1>4
  <2>3. u.draft = IF loading = "asked" THEN {} ELSE {form}
    BY <1>4
  <2> QED
    BY <1>2, <1>4, <2>1, <2>2, <2>3
<1> QED
  BY <1>1, <1>3, <1>4 DEF TapUpdate

\* The update goes on after an upload: what is sent is the page's form, or the
\* last one of a page that is gone.
LEMMA UploadedEffect ==
  ASSUME TypeOK, NEW s \in Slots, Uploaded(s)
  PROVE  /\ calls[s].at = "uploading" /\ calls[s] \in Upload
         /\ calls' \in [Slots -> Call]
         /\ calls'[s] = IF calls[s].mounted THEN Saving ELSE Idle
         /\ \A t \in Slots : t # s => calls'[t] = calls[t]
         /\ \E got \in {calls[s].image, NoPicture} :
              queue' = Append(queue, IF calls[s].mounted
                                     THEN Written(form, got, s, calls[s].unloaded)
                                     ELSE Written(calls[s].frozen, got, NoSlot, calls[s].unloaded))
<1>1. calls \in [Slots -> Call] /\ calls[s].at = "uploading"
  BY DEF TypeOK, Call, Uploaded
<1>2. calls[s] \in Upload
  BY <1>1, UploadFields
<1>3. CASE calls[s].mounted
  <2>1. PICK got \in {calls[s].image, NoPicture} :
          queue' = Append(queue, Written(form, got, s, calls[s].unloaded))
          /\ calls' = [calls EXCEPT ![s] = Saving]
    BY <1>3 DEF Uploaded
  <2> QED
    BY <1>1, <1>2, <1>3, <2>1, IdleIsCall
<1>4. CASE ~calls[s].mounted
  <2>1. PICK got \in {calls[s].image, NoPicture} :
          queue' = Append(queue, Written(calls[s].frozen, got, NoSlot, calls[s].unloaded))
          /\ calls' = [calls EXCEPT ![s] = Idle]
    BY <1>4 DEF Uploaded
  <2> QED
    BY <1>1, <1>2, <1>4, <2>1, IdleIsCall
<1> QED
  BY <1>3, <1>4

\* What a load finds is the document, or an update on its way.
LEMMA FoundType ==
  ASSUME TypeOK, NEW doc \in Found
  PROVE  \/ doc = user
         \/ \E i \in 1..Len(queue) : doc = queue[i] /\ queue[i].kind = "profile"
BY DEF Found, LastUpdate

LEMMA InitType == Init => TypeOK
<1> SUFFICES ASSUME Init PROVE TypeOK
  OBVIOUS
<1>1. calls \in [Slots -> Call] /\ queue \in Seq(Write)
  BY IdleIsCall DEF Init
<1>2. user \in User
  BY TextsAssumption DEF Init, User, Urls
<1>3. form \in Form /\ taps \in 0..MaxTaps /\ moves \in 0..MaxMoves
  BY NewFormType, BoundsAssumption DEF Init
<1>4. /\ below \in BOOLEAN /\ page \in {"open", "closing", "gone"}
      /\ progress \in BOOLEAN /\ media \in {"none", "dialog", "picker"}
      /\ image \in Pictures \cup {NoPicture} /\ loading \in {"asked", "done", "failed"}
      /\ raced \in BOOLEAN
  BY DEF Init
<1> QED
  BY <1>1, <1>2, <1>3, <1>4 DEF TypeOK, Call, Write

\* The part of the types that only some of the steps touch.
LEMMA RoutesType ==
  ASSUME TypeOK, PopTop \/ UNCHANGED routes
  PROVE  /\ below' \in BOOLEAN /\ page' \in {"open", "closing", "gone"}
         /\ progress' \in BOOLEAN /\ media' \in {"none", "dialog", "picker"}
<1>1. CASE PopTop
  BY <1>1, PopEffect
<1>2. CASE UNCHANGED routes
  BY <1>2 DEF routes, TypeOK
<1> QED
  BY <1>1, <1>2

LEMMA LoadedType ==
  ASSUME TypeOK, NEW doc \in Found
  PROVE  [text |-> doc.text, url |-> Shown(doc.picture)] \in Form
<1>1. doc.text \in Texts \cup {Blank} /\ doc.picture \in Urls
  <2>1. CASE doc = user
    BY <2>1 DEF TypeOK, User
  <2>2. ASSUME NEW i \in 1..Len(queue), doc = queue[i], queue[i].kind = "profile"
        PROVE  doc.text \in Texts \cup {Blank} /\ doc.picture \in Urls
    BY <2>2, QueueElement, UpdateFields
  <2> QED
    BY <2>1, <2>2, FoundType
<1> QED
  BY <1>1 DEF Form, Shown, Urls

LEMMA AppliedType ==
  ASSUME TypeOK, NEW w \in Write
  PROVE  Applied(w) \in User
<1>1. user \in User
  BY DEF TypeOK
<1>2. CASE w.kind = "profile"
  BY <1>1, <1>2, UpdateFields DEF Applied, User
<1>3. CASE w.kind # "profile"
  BY <1>1, <1>3, MoveFields DEF Applied, User
<1> QED
  BY <1>2, <1>3

\* The handler of an answer: none, or the one in the slot of the write.
LEMMA AnsweredEffect ==
  ASSUME TypeOK, NEW w \in Write, NEW ok \in BOOLEAN, Answered(w, ok)
  PROVE  \/ (w.kind = "location" \/ w.slot = NoSlot) /\ UNCHANGED <<routes, form, calls>>
         \/ /\ w.kind = "profile" /\ w.slot \in Slots
            /\ Settle(w.slot) /\ PopTop
            /\ form' \in Form /\ form'.text = form.text
            /\ form'.url \in {form.url} \cup Pictures
            /\ form'.url = form.url \/ w.uploaded # NoPicture
<1>1. CASE w.kind = "location" \/ w.slot = NoSlot
  BY <1>1 DEF Answered
<1>2. CASE ~(w.kind = "location" \/ w.slot = NoSlot)
  <2>1. w.kind = "profile"
    BY <1>2, MoveFields
  <2>2. w.slot \in Slots /\ w.uploaded \in Pictures \cup {NoPicture}
    BY <1>2, <2>1, UpdateFields
  <2>3. /\ Settle(w.slot) /\ PopTop
        /\ form' = IF ok /\ w.uploaded # NoPicture THEN [form EXCEPT !.url = w.uploaded]
                   ELSE form
    BY <1>2 DEF Answered
  <2>4. form \in Form
    BY DEF TypeOK
  <2>5. /\ form' \in Form /\ form'.text = form.text
        /\ form'.url \in {form.url} \cup Pictures
        /\ form'.url = form.url \/ w.uploaded # NoPicture
    BY <2>2, <2>3, <2>4 DEF Form, Urls
  <2> QED
    BY <2>1, <2>2, <2>3, <2>5
<1> QED
  BY <1>1, <1>2

\* What the back button leaves of the updates.
LEMMA BackEffect ==
  ASSUME TypeOK, Back
  PROVE  /\ calls' \in [Slots -> Call]
         /\ \A s \in Slots : calls'[s] = IF progress THEN Undrafted(calls[s]) ELSE calls[s]
<1>1. calls' = [s \in Slots |-> IF progress THEN Undrafted(calls[s]) ELSE calls[s]]
  BY DEF Back
<1>2. \A s \in Slots : calls[s] \in Call /\ Undrafted(calls[s]) \in Call
  BY CallOf, UndraftedCall
<1> QED
  BY <1>1, <1>2

\* What the end of the page leaves of them: none waits for the server, those
\* with an upload go on with the fields as they are.
LEMMA ClosedEffect ==
  ASSUME TypeOK, Closed
  PROVE  /\ calls' \in [Slots -> Call]
         /\ \A s \in Slots :
              /\ ~InFlight(calls'[s])
              /\ calls'[s].at = "uploading" =>
                   /\ calls[s].at = "uploading"
                   /\ calls'[s].unloaded = calls[s].unloaded /\ calls'[s].draft = calls[s].draft
                   /\ calls[s].mounted => calls'[s].frozen = form
                   /\ ~calls[s].mounted => calls'[s] = calls[s]
<1>1. calls' = [s \in Slots |->
        IF calls[s] = Saving THEN Idle
        ELSE IF InFlight(calls[s]) THEN [calls[s] EXCEPT !.mounted = FALSE, !.frozen = form]
        ELSE calls[s]]
  BY DEF Closed
<1>2. ASSUME NEW s \in Slots
      PROVE  /\ calls'[s] \in Call /\ ~InFlight(calls'[s])
             /\ calls'[s].at = "uploading" =>
                  /\ calls[s].at = "uploading"
                  /\ calls'[s].unloaded = calls[s].unloaded /\ calls'[s].draft = calls[s].draft
                  /\ calls[s].mounted => calls'[s].frozen = form
                  /\ ~calls[s].mounted => calls'[s] = calls[s]
  <2>1. calls[s] \in Call
    BY CallOf
  <2>2. CASE calls[s] = Saving
    BY <1>1, <2>2, IdleIsCall DEF InFlight, Idle
  <2>3. CASE calls[s] # Saving /\ InFlight(calls[s])
    <3>1. PICK u : u = [calls[s] EXCEPT !.mounted = FALSE, !.frozen = form]
      OBVIOUS
    <3>2. calls'[s] = u /\ calls[s].at = "uploading" /\ calls[s].mounted
      BY <1>1, <2>3, <3>1 DEF InFlight
    <3>3. /\ u \in Call /\ u.at = "uploading" /\ ~u.mounted /\ u.frozen = form
          /\ u.unloaded = calls[s].unloaded /\ u.draft = calls[s].draft
      BY <2>1, <3>1, <3>2, UnmountedCall
    <3>4. u # Saving
      BY <3>3 DEF Saving
    <3> QED
      BY <3>2, <3>3, <3>4 DEF InFlight
  <2>4. CASE calls[s] # Saving /\ ~InFlight(calls[s])
    BY <1>1, <2>1, <2>4 DEF InFlight
  <2> QED
    BY <2>2, <2>3, <2>4
<1> QED
  BY <1>1, <1>2

LEMMA NextType == TypeOK /\ [Next]_vars => TypeOK'
<1> SUFFICES ASSUME TypeOK, [Next]_vars PROVE TypeOK'
  OBVIOUS
<1> USE DEF routes, counts
<1>1. CASE OpenPage \/ LoadFails \/ OpenMedia \/ ChooseSource \/ PickerReturns
  BY <1>1 DEF OpenPage, LoadFails, OpenMedia, ChooseSource, PickerReturns, TypeOK
<1>2. CASE Loaded
  <2>1. form' \in Form
    BY <1>2, LoadedType DEF Loaded
  <2> QED
    BY <1>2, <2>1 DEF Loaded, TypeOK
<1>3. CASE Back
  <2>1. calls' \in [Slots -> Call]
    BY <1>3, BackEffect
  <2>2. /\ below' \in BOOLEAN /\ page' \in {"open", "closing", "gone"}
        /\ progress' \in BOOLEAN /\ media' \in {"none", "dialog", "picker"}
    BY <1>3, RoutesType DEF Back
  <2>3. raced' \in BOOLEAN /\ UNCHANGED <<form, image, loading, queue, user, taps, moves>>
    BY <1>3 DEF Back, TypeOK, Busy
  <2> QED
    BY <2>1, <2>2, <2>3 DEF TypeOK, Call
<1>4. CASE Closed
  <2>1. calls' \in [Slots -> Call]
    BY <1>4, ClosedEffect
  <2>2. queue' \in Seq(Write)
    BY <1>4, UnattendedQueue DEF Closed
  <2>3. form' \in Form
    BY <1>4, NewFormType DEF Closed
  <2> QED
    BY <1>4, <2>1, <2>2, <2>3 DEF Closed, TypeOK, Call, Write
<1>5. CASE TapUpdate
  <2>1. calls' \in [Slots -> Call]
    BY <1>5, TapEffect
  <2>2. queue' \in Seq(Write)
    <3>1. PICK s \in Slots :
            queue' = queue \/ queue' = Append(queue, Written(form, NoPicture, s, loading # "done"))
      BY <1>5, TapEffect
    <3>2. Written(form, NoPicture, s, loading # "done") \in Write
      BY WrittenType DEF TypeOK, Write
    <3> QED
      BY <3>1, <3>2, QueueAppend DEF TypeOK, Write
  <2>3. taps' \in 0..MaxTaps
    BY <1>5, BoundsAssumption DEF TapUpdate, TypeOK
  <2>4. progress' = TRUE /\ UNCHANGED <<below, page, media, form, image, loading, user, moves, raced>>
    BY <1>5 DEF TapUpdate
  <2> QED
    BY <2>1, <2>2, <2>3, <2>4 DEF TypeOK, Call, Write
<1>6. CASE Commit
  <2>1. queue' \in Seq(Write) /\ Head(queue) \in Write
    BY <1>6, QueueTail DEF Commit
  <2>2. PICK w \in Write : w = Head(queue)
    BY <2>1
  <2>3. PICK ok \in BOOLEAN : user' = (IF ok THEN Applied(w) ELSE user) /\ Answered(w, ok)
    BY <1>6, <2>2 DEF Commit
  <2>4. user' \in User
    BY <2>2, <2>3, AppliedType DEF TypeOK
  <2>5. form' \in Form /\ calls' \in [Slots -> Call]
    BY <2>2, <2>3, AnsweredEffect, SettleEffect DEF TypeOK, Call
  <2>6. /\ below' \in BOOLEAN /\ page' \in {"open", "closing", "gone"}
        /\ progress' \in BOOLEAN /\ media' \in {"none", "dialog", "picker"}
    BY <2>2, <2>3, AnsweredEffect, RoutesType
  <2>7. UNCHANGED <<image, loading, taps, moves, raced>>
    BY <1>6 DEF Commit
  <2> QED
    BY <2>1, <2>4, <2>5, <2>6, <2>7 DEF TypeOK, Call, Write
<1>7. CASE Restart
  <2>1. queue' \in Seq(Write)
    BY <1>7, UnattendedQueue DEF Restart
  <2>2. calls' \in [Slots -> Call]
    BY <1>7, IdleIsCall DEF Restart
  <2> QED
    BY <1>7, <2>1, <2>2, NewFormType DEF Restart, TypeOK, Call, Write
<1>8. ASSUME NEW t \in Texts \cup {Blank}, Type(t) PROVE TypeOK'
  <2>1. form' \in Form
    BY <1>8 DEF Type, TypeOK, Form
  <2> QED
    BY <1>8, <2>1 DEF Type, TypeOK
<1>9. ASSUME NEW s \in Slots, Uploaded(s) PROVE TypeOK'
  <2>1. calls' \in [Slots -> Call]
    BY <1>9, UploadedEffect
  <2>2. queue' \in Seq(Write)
    <3>1. PICK got \in {calls[s].image, NoPicture} :
            queue' = Append(queue, IF calls[s].mounted
                                   THEN Written(form, got, s, calls[s].unloaded)
                                   ELSE Written(calls[s].frozen, got, NoSlot, calls[s].unloaded))
      BY <1>9, UploadedEffect
    <3>2. /\ calls[s].unloaded \in BOOLEAN /\ got \in Pictures \cup {NoPicture}
          /\ calls[s].frozen \in Form /\ form \in Form
      BY <1>9, UploadedEffect, UploadFields, CallOf DEF TypeOK
    <3>3. /\ Written(form, got, s, calls[s].unloaded) \in Write
          /\ Written(calls[s].frozen, got, NoSlot, calls[s].unloaded) \in Write
      BY <3>2, WrittenType DEF Write
    <3> QED
      BY <3>1, <3>3, QueueAppend
  <2>3. UNCHANGED <<below, page, progress, media, form, image, loading, user, taps, moves, raced>>
    BY <1>9 DEF Uploaded
  <2> QED
    BY <2>1, <2>2, <2>3 DEF TypeOK, Call, Write
<1>10. ASSUME NEW p \in Places, SetLocation(p) PROVE TypeOK'
  <2>1. queue' \in Seq(Write)
    <3>1. [kind |-> "location", place |-> p] \in Write
      BY DEF Write, Move
    <3> QED
      BY <1>10, <3>1, QueueAppend DEF SetLocation
  <2>2. moves' \in 0..MaxMoves
    BY <1>10, BoundsAssumption DEF SetLocation, TypeOK
  <2> QED
    BY <1>10, <2>1, <2>2 DEF SetLocation, TypeOK, Write
<1>11. CASE UNCHANGED vars
  BY <1>11 DEF vars, TypeOK
<1> QED
  BY <1>1, <1>2, <1>3, <1>4, <1>5, <1>6, <1>7, <1>8, <1>9, <1>10, <1>11 DEF Next

\* All variables keep their types: an update always has a picture or null to
\* write and a text, whichever page, dead page or url it takes them from.
THEOREM TypeCorrect == Spec => []TypeOK
BY InitType, NextType, PTL DEF Spec

-----------------------------------------------------------------------------
(* The writes that updates wait for.                                        *)

Waits(i) == queue[i].kind = "profile" /\ queue[i].slot # NoSlot

\* Every write that a handler waits for has a handler of its own.
Waiting ==
  /\ \A i \in 1..Len(queue) : Waits(i) => calls[queue[i].slot] = Saving
  /\ \A i, j \in 1..Len(queue) :
       Waits(i) /\ Waits(j) /\ queue[i].slot = queue[j].slot => i = j

LEMMA WaitsFor ==
  ASSUME TypeOK, NEW i \in 1..Len(queue), Waits(i)
  PROVE  queue[i].slot \in Slots
BY QueueElement, UpdateFields DEF Waits

LEMMA WaitingKept ==
  ASSUME TypeOK, Waiting, queue' = queue,
         \A s \in Slots : calls[s] = Saving => calls'[s] = Saving
  PROVE  Waiting'
<1>1. \A i : Waits(i)' <=> Waits(i)
  BY DEF Waits
<1> QED
  BY <1>1, WaitsFor DEF Waiting

LEMMA WaitingAppended ==
  ASSUME TypeOK, Waiting, NEW w \in Write, queue' = Append(queue, w),
         \A s \in Slots : calls[s] = Saving => calls'[s] = Saving,
         w.kind = "profile" /\ w.slot # NoSlot =>
           calls[w.slot] # Saving /\ calls'[w.slot] = Saving
  PROVE  Waiting'
<1>1. PICK n \in Nat : n = Len(queue)
  BY QueueAppend
<1>2. /\ Len(queue') = n + 1 /\ queue'[n + 1] = w
      /\ \A i \in 1..n : queue'[i] = queue[i]
  BY <1>1, QueueAppend
<1>3. \A i \in 1..n : Waits(i)' <=> Waits(i)
  BY <1>2 DEF Waits
<1>4. Waits(n + 1)' <=> w.kind = "profile" /\ w.slot # NoSlot
  BY <1>2 DEF Waits
<1>5. \A i \in 1..Len(queue') : i \in 1..n \/ i = n + 1
  BY <1>2
<1>6. \A i \in 1..n : Waits(i)' =>
        /\ calls'[queue'[i].slot] = Saving /\ calls[queue'[i].slot] = Saving
  BY <1>1, <1>2, <1>3, WaitsFor DEF Waiting
<1>7. \A i, j \in 1..n :
        Waits(i)' /\ Waits(j)' /\ queue'[i].slot = queue'[j].slot => i = j
  BY <1>1, <1>2, <1>3 DEF Waiting
<1>8. \A i \in 1..n : Waits(i)' /\ Waits(n + 1)' => queue'[i].slot # queue'[n + 1].slot
  BY <1>2, <1>4, <1>6
<1> HIDE DEF Waits
<1> QED
  BY <1>2, <1>4, <1>5, <1>6, <1>7, <1>8 DEF Waiting

LEMMA WaitingAnswered ==
  ASSUME TypeOK, Waiting, queue # <<>>, queue' = Tail(queue),
         \A s \in Slots : calls[s] = Saving /\ ~(Waits(1) /\ queue[1].slot = s)
                            => calls'[s] = Saving
  PROVE  Waiting'
<1>1. PICK n \in Nat : n = Len(queue) /\ n # 0
  BY QueueTail
<1>2. Len(queue') = n - 1 /\ \A i \in 1..(n - 1) : queue'[i] = queue[i + 1]
  BY <1>1, QueueTail
<1>3. \A i \in 1..(n - 1) : i + 1 \in 1..n /\ i + 1 # 1
  OBVIOUS
<1>4. \A i \in 1..(n - 1) : Waits(i)' <=> Waits(i + 1)
  BY <1>2 DEF Waits
<1>5. 1 \in 1..n
  BY <1>1
<1>6. \A i \in 1..(n - 1) : Waits(i)' => calls'[queue'[i].slot] = Saving
  <2> SUFFICES ASSUME NEW i \in 1..(n - 1), Waits(i)'
               PROVE  calls'[queue'[i].slot] = Saving
    OBVIOUS
  <2>1. Waits(i + 1) /\ i + 1 \in 1..Len(queue) /\ queue'[i] = queue[i + 1] /\ i + 1 # 1
    BY <1>1, <1>2, <1>3, <1>4
  <2>2. PICK k \in 1..Len(queue) : k = i + 1
    BY <2>1
  <2>3. calls[queue[k].slot] = Saving /\ queue[k].slot \in Slots
    BY <2>1, <2>2, WaitsFor DEF Waiting
  <2>4. ~(Waits(1) /\ queue[1].slot = queue[k].slot)
    BY <1>1, <1>5, <2>1, <2>2 DEF Waiting
  <2> QED
    BY <2>1, <2>2, <2>3, <2>4
<1>7. \A i, j \in 1..(n - 1) :
        Waits(i)' /\ Waits(j)' /\ queue'[i].slot = queue'[j].slot => i = j
  <2> SUFFICES ASSUME NEW i \in 1..(n - 1), NEW j \in 1..(n - 1),
                      Waits(i)', Waits(j)', queue'[i].slot = queue'[j].slot
               PROVE  i = j
    OBVIOUS
  <2>1. Waits(i + 1) /\ Waits(j + 1) /\ queue[i + 1].slot = queue[j + 1].slot
    BY <1>2, <1>4
  <2>2. i + 1 = j + 1
    BY <1>1, <1>3, <2>1 DEF Waiting
  <2> QED
    BY <2>2
<1> QED
  BY <1>2, <1>6, <1>7 DEF Waiting

LEMMA WaitingUnattended ==
  ASSUME TypeOK, queue' = Unattended
  PROVE  Waiting'
<1>1. \A i \in 1..Len(queue') : ~Waits(i)'
  BY UnattendedQueue DEF Waits
<1> QED
  BY <1>1 DEF Waiting

-----------------------------------------------------------------------------
(* The progress dialog, and the page below.                                 *)

\* A progress dialog is above an open page; a page that is gone has no update
\* in flight, and one on which the back button was not used has one at most.
Above ==
  /\ progress => media = "none" /\ page = "open"
  /\ page = "gone" => ~Busy
  /\ ~raced => \A s, t \in Slots : InFlight(calls[s]) /\ InFlight(calls[t]) => s = t

RoutesInv == Waiting /\ Above /\ ProgressIsUpdate /\ BelowStays

LEMMA InitRoutes == Init => RoutesInv
<1> SUFFICES ASSUME Init PROVE RoutesInv
  OBVIOUS
<1>1. \A s \in Slots : ~InFlight(calls[s])
  BY IdleIsCall DEF Init, InFlight, Idle
<1>2. Waiting
  BY DEF Init, Waiting
<1> QED
  BY <1>1, <1>2 DEF Init, RoutesInv, Above, ProgressIsUpdate, BelowStays, Busy

LEMMA InFlightUndrafted ==
  ASSUME NEW c \in Call
  PROVE  /\ InFlight(Undrafted(c)) <=> InFlight(c)
         /\ c = Saving => Undrafted(c) = Saving
<1>1. Saving.at # "uploading"
  BY DEF Saving
<1>2. CASE c.at = "uploading"
  BY <1>1, <1>2, UndraftedCall DEF InFlight
<1>3. CASE c.at # "uploading"
  BY <1>1, <1>3, UndraftedCall DEF InFlight
<1> QED
  BY <1>2, <1>3

\* Steps that leave the updates and their writes alone.
LEMMA NoUpdateStep ==
  ASSUME TypeOK, RoutesInv, UNCHANGED <<calls, queue, below, raced, progress, page>>,
         progress => media' = "none"
  PROVE  RoutesInv'
<1>1. Waiting'
  BY WaitingKept DEF RoutesInv
<1> QED
  BY <1>1 DEF RoutesInv, Above, ProgressIsUpdate, BelowStays, Busy, InFlight

LEMMA BackRoutes ==
  ASSUME TypeOK, RoutesInv, Back
  PROVE  RoutesInv'
<1>1. \A s \in Slots : /\ InFlight(calls'[s]) <=> InFlight(calls[s])
                       /\ calls[s] = Saving => calls'[s] = Saving
  BY BackEffect, InFlightUndrafted, CallOf
<1>2. Waiting'
  BY <1>1, WaitingKept DEF Back, RoutesInv
<1>3. PICK busy \in BOOLEAN : (busy <=> Busy) /\ (busy <=> Busy')
  BY <1>1 DEF Busy
<1>4. ~progress' /\ page' \in {"open", "closing"} /\ below' = below
  BY PopEffect DEF Back, RoutesInv, Above
<1>5. raced' = (raced \/ busy)
  BY <1>3 DEF Back
<1>6. progress => busy
  BY <1>3 DEF RoutesInv, ProgressIsUpdate
<1>7. ~raced' => \A s, t \in Slots : InFlight(calls'[s]) /\ InFlight(calls'[t]) => s = t
  BY <1>1, <1>5 DEF RoutesInv, Above
<1> QED
  BY <1>2, <1>3, <1>4, <1>5, <1>7 DEF RoutesInv, Above, ProgressIsUpdate, BelowStays

LEMMA TapRoutes ==
  ASSUME TypeOK, RoutesInv, TapUpdate
  PROVE  RoutesInv'
<1>1. /\ ~progress /\ progress' /\ page = "open" /\ page' = "open"
      /\ media = "none" /\ media' = "none" /\ below' = below /\ raced' = raced
  BY DEF TapUpdate, OnTop
<1>2. PICK s \in Slots :
        /\ calls[s] = Idle /\ \A t \in Slots : t # s => calls'[t] = calls[t]
        /\ \/ /\ queue' = queue
              /\ calls'[s].at = "uploading" /\ calls'[s].mounted
           \/ /\ queue' = Append(queue, Written(form, NoPicture, s, loading # "done"))
              /\ calls'[s] = Saving
  BY TapEffect
<1>3. InFlight(calls'[s])
  BY <1>2 DEF InFlight
<1>4. \A t \in Slots : calls[t] = Saving => calls'[t] = Saving
  BY <1>2, IdleIsCall
<1>5. Waiting'
  <2>1. CASE queue' = queue
    BY <1>4, <2>1, WaitingKept DEF RoutesInv
  <2>2. CASE /\ queue' = Append(queue, Written(form, NoPicture, s, loading # "done"))
             /\ calls'[s] = Saving
    <3>1. PICK w : w = Written(form, NoPicture, s, loading # "done")
      OBVIOUS
    <3>2. w.slot = s
      BY <3>1 DEF Written
    <3>3. form \in Form /\ (loading # "done") \in BOOLEAN
      BY DEF TypeOK
    <3>4. w \in Write
      BY <3>1, <3>3, WrittenType DEF Write
    <3> QED
      BY <1>2, <1>4, <2>2, <3>1, <3>2, <3>4, IdleIsCall, WaitingAppended DEF RoutesInv
  <2> QED
    BY <1>2, <2>1, <2>2
<1>6. ~raced => \A t \in Slots : ~InFlight(calls[t])
  BY <1>1 DEF RoutesInv, ProgressIsUpdate, Busy
<1>7. ~raced' => \A t \in Slots : InFlight(calls'[t]) => t = s
  BY <1>1, <1>2, <1>6
<1>8. Above'
  BY <1>1, <1>7 DEF Above
<1>9. Busy'
  BY <1>3 DEF Busy
<1> QED
  BY <1>1, <1>5, <1>8, <1>9 DEF RoutesInv, ProgressIsUpdate, BelowStays

LEMMA UploadedRoutes ==
  ASSUME TypeOK, RoutesInv, NEW s \in Slots, Uploaded(s)
  PROVE  RoutesInv'
<1>1. UNCHANGED <<below, page, progress, media, raced>>
  BY DEF Uploaded, routes
<1>2. /\ calls[s].at = "uploading" /\ calls[s] # Saving
      /\ calls'[s] = IF calls[s].mounted THEN Saving ELSE Idle
      /\ \A t \in Slots : t # s => calls'[t] = calls[t]
  BY UploadedEffect DEF Saving
<1>3. \A t \in Slots : InFlight(calls'[t]) <=> InFlight(calls[t])
  <2>1. InFlight(calls'[s]) <=> InFlight(calls[s])
    BY <1>2, IdleIsCall DEF InFlight, Idle
  <2> QED
    BY <1>2, <2>1
<1>4. \A t \in Slots : calls[t] = Saving => calls'[t] = Saving
  BY <1>2
<1>5. Waiting'
  <2>1. PICK got \in {calls[s].image, NoPicture} :
          queue' = Append(queue, IF calls[s].mounted
                                 THEN Written(form, got, s, calls[s].unloaded)
                                 ELSE Written(calls[s].frozen, got, NoSlot, calls[s].unloaded))
    BY UploadedEffect
  <2>2. /\ calls[s].unloaded \in BOOLEAN /\ got \in Pictures \cup {NoPicture}
        /\ calls[s].frozen \in Form /\ form \in Form
    BY <1>2, <2>1, UploadFields, CallOf DEF TypeOK
  <2>3. PICK w : queue' = Append(queue, w) /\ w \in Write
                 /\ w.slot = IF calls[s].mounted THEN s ELSE NoSlot
    <3>1. PICK v : v = Written(form, got, s, calls[s].unloaded)
      OBVIOUS
    <3>2. PICK v2 : v2 = Written(calls[s].frozen, got, NoSlot, calls[s].unloaded)
      OBVIOUS
    <3>3. v \in Write /\ v2 \in Write
      BY <2>2, <3>1, <3>2, WrittenType DEF Write
    <3>4. v.slot = s /\ v2.slot = NoSlot
      BY <3>1, <3>2 DEF Written
    <3> QED
      BY <2>1, <3>1, <3>2, <3>3, <3>4
  <2> QED
    BY <1>2, <1>4, <2>3, WaitingAppended DEF RoutesInv
<1> QED
  BY <1>1, <1>3, <1>5 DEF RoutesInv, Above, ProgressIsUpdate, BelowStays, Busy

LEMMA ClosedRoutes ==
  ASSUME TypeOK, RoutesInv, Closed
  PROVE  RoutesInv'
<1>1. \A s \in Slots : ~InFlight(calls'[s])
  BY ClosedEffect
<1>2. Waiting'
  BY WaitingUnattended DEF Closed
<1>3. /\ below' = below /\ ~progress' /\ page' = "gone"
      /\ raced' = (raced /\ ~below)
  BY DEF Closed, RoutesInv, Above
<1> QED
  BY <1>1, <1>2, <1>3 DEF RoutesInv, Above, ProgressIsUpdate, BelowStays, Busy

LEMMA RestartRoutes ==
  ASSUME TypeOK, RoutesInv, Restart
  PROVE  RoutesInv'
<1>1. \A s \in Slots : ~InFlight(calls'[s])
  BY IdleIsCall DEF Restart, InFlight, Idle
<1>2. Waiting'
  BY WaitingUnattended DEF Restart
<1>3. below' /\ ~progress' /\ page' = "gone"
  BY DEF Restart
<1> QED
  BY <1>1, <1>2, <1>3 DEF RoutesInv, Above, ProgressIsUpdate, BelowStays, Busy

LEMMA CommitRoutes ==
  ASSUME TypeOK, RoutesInv, Commit
  PROVE  RoutesInv'
<1>1. PICK w \in Write : w = Head(queue) /\ w = queue[1]
  BY QueueTail DEF Commit
<1>2. PICK ok \in BOOLEAN : Answered(w, ok)
  BY <1>1 DEF Commit
<1>3. queue # <<>> /\ queue' = Tail(queue) /\ raced' = raced
  BY DEF Commit
<1>4. CASE (w.kind = "location" \/ w.slot = NoSlot) /\ UNCHANGED <<routes, form, calls>>
  <2>1. Waiting'
    BY <1>3, <1>4, WaitingAnswered DEF RoutesInv
  <2> QED
    BY <1>3, <1>4, <2>1 DEF RoutesInv, Above, ProgressIsUpdate, BelowStays, Busy, routes
<1>5. CASE w.kind = "profile" /\ w.slot \in Slots /\ Settle(w.slot) /\ PopTop
  <2>1. Waits(1) /\ calls[w.slot] = Saving
    <3>1. 1 \in 1..Len(queue)
      BY <1>3, QueueTail
    <3>2. Waits(1)
      BY <1>1, <1>5, SlotsAssumption DEF Waits
    <3> QED
      BY <1>1, <3>1, <3>2 DEF RoutesInv, Waiting
  <2>2. calls'[w.slot] = Idle /\ ~InFlight(calls'[w.slot])
    BY <1>5, SettleEffect, IdleIsCall DEF InFlight, Idle
  <2>3. \A t \in Slots : t # w.slot =>
          /\ InFlight(calls'[t]) <=> InFlight(calls[t])
          /\ calls[t] = Saving => calls'[t] = Saving
    BY <1>5, SettleEffect, InFlightUndrafted, CallOf
  <2>4. Waiting'
    BY <1>1, <1>3, <2>1, <2>3, WaitingAnswered DEF RoutesInv
  <2>5. InFlight(calls[w.slot])
    BY <2>1 DEF InFlight
  <2>6. Busy
    BY <1>5, <2>5 DEF Busy
  <2>7. ~progress'
    BY <1>5, PopEffect DEF RoutesInv, Above
  <2>8. ~raced => /\ page' = page /\ below' = below
                  /\ \A t \in Slots : ~InFlight(calls'[t])
    <3>1. ~raced => progress /\ page = "open" /\ media = "none"
      BY <2>6 DEF RoutesInv, ProgressIsUpdate, Above
    <3>2. ~raced => page' = page /\ below' = below
      BY <1>5, <3>1, PopEffect
    <3>3. ~raced => \A t \in Slots : t # w.slot => ~InFlight(calls[t])
      BY <1>5, <2>5 DEF RoutesInv, Above
    <3> QED
      BY <2>2, <2>3, <3>2, <3>3
  <2>9. page' # "gone"
    BY <1>5, <2>6, PopEffect DEF RoutesInv, Above
  <2> QED
    BY <1>3, <2>4, <2>7, <2>8, <2>9 DEF RoutesInv, Above, ProgressIsUpdate, BelowStays, Busy
<1> QED
  BY <1>2, <1>4, <1>5, AnsweredEffect

LEMMA NextRoutes == TypeOK /\ RoutesInv /\ [Next]_vars => RoutesInv'
<1> SUFFICES ASSUME TypeOK, RoutesInv, [Next]_vars PROVE RoutesInv'
  OBVIOUS
<1>1. CASE OpenPage
  <2>1. Waiting'
    BY <1>1, WaitingKept DEF OpenPage, RoutesInv
  <2>2. \A s \in Slots : ~InFlight(calls'[s])
    BY <1>1 DEF OpenPage, RoutesInv, Above, Busy
  <2>3. below' /\ ~progress'
    BY <1>1 DEF OpenPage, RoutesInv, Above
  <2> QED
    BY <2>1, <2>2, <2>3 DEF RoutesInv, Above, ProgressIsUpdate, BelowStays, Busy
<1>2. CASE Loaded \/ LoadFails
  BY <1>2, NoUpdateStep DEF Loaded, LoadFails, routes, RoutesInv, Above
<1>3. CASE OpenMedia \/ ChooseSource \/ PickerReturns
  BY <1>3, NoUpdateStep DEF OpenMedia, ChooseSource, PickerReturns, OnTop, RoutesInv, Above
<1>4. ASSUME NEW t \in Texts \cup {Blank}, Type(t) PROVE RoutesInv'
  BY <1>4, NoUpdateStep DEF Type, routes, RoutesInv, Above
<1>5. ASSUME NEW p \in Places, SetLocation(p) PROVE RoutesInv'
  <2>1. PICK w : w \in Write /\ w.kind = "location" /\ queue' = Append(queue, w)
    <3>1. [kind |-> "location", place |-> p] \in Write
      BY DEF Write, Move
    <3> QED
      BY <1>5, <3>1 DEF SetLocation
  <2>2. UNCHANGED <<calls, below, page, progress, media, raced>>
    BY <1>5 DEF SetLocation, routes
  <2>3. Waiting'
    BY <2>1, <2>2, WaitingAppended DEF RoutesInv
  <2> QED
    BY <2>2, <2>3 DEF RoutesInv, Above, ProgressIsUpdate, BelowStays, Busy
<1>6. CASE UNCHANGED vars
  BY <1>6, NoUpdateStep DEF vars, RoutesInv, Above
<1> QED
  BY <1>1, <1>2, <1>3, <1>4, <1>5, <1>6, BackRoutes, TapRoutes, UploadedRoutes,
     ClosedRoutes, RestartRoutes, CommitRoutes DEF Next

\* A progress dialog is above the page while and only while an update is under
\* way, whichever uploads of earlier pages end meanwhile, unless the user took
\* it down; it never stays without an update.
THEOREM DialogIsUpdate == Spec => []ProgressIsUpdate
<1>1. RoutesInv => ProgressIsUpdate
  BY DEF RoutesInv
<1> QED
  BY <1>1, InitType, NextType, InitRoutes, NextRoutes, PTL DEF Spec

\* The end of an update pops its own dialog, never the page below, for any
\* number of updates and pages, unless the back button was used during one.
THEOREM BelowKept == Spec => []BelowStays
<1>1. RoutesInv => BelowStays
  BY DEF RoutesInv
<1> QED
  BY <1>1, InitType, NextType, InitRoutes, NextRoutes, PTL DEF Spec

-----------------------------------------------------------------------------
(* Pictures.                                                                *)

\* A page that was filled has a picture to keep; so has an upload it started,
\* from the page or from the contents the page left; and so has a write.
PageHas == page # "gone" /\ loading = "done" => form.url # NoPicture
UploadHas(s) ==
  calls[s].at = "uploading" /\ ~calls[s].unloaded =>
    IF calls[s].mounted THEN loading = "done" ELSE calls[s].frozen.url # NoPicture
WriteHas(w) == w.kind = "profile" /\ w.picture = NoPicture => w.unloaded

Pics == /\ PageHas
        /\ \A s \in Slots : UploadHas(s)
        /\ \A i \in 1..Len(queue) : WriteHas(queue[i])

LEMMA NoUpload == Idle.at # "uploading" /\ Saving.at # "uploading"
BY DEF Idle, Saving

\* A picture that was picked is not null, so a write lacks one only if the
\* fields it was made from do.
LEMMA WrittenHas ==
  ASSUME NEW f, NEW got \in Pictures \cup {NoPicture}, NEW slot, NEW u,
         u \/ f.url # NoPicture
  PROVE  WriteHas(Written(f, got, slot, u))
BY PicturesAssumption DEF WriteHas, Written

LEMMA WritesAppended ==
  ASSUME TypeOK, Pics, NEW w \in Write, WriteHas(w), queue' = Append(queue, w)
  PROVE  \A i \in 1..Len(queue') : WriteHas(queue'[i])
<1>1. PICK n \in Nat : n = Len(queue)
  BY QueueAppend
<1>2. /\ Len(queue') = n + 1 /\ queue'[n + 1] = w
      /\ \A i \in 1..n : queue'[i] = queue[i]
  BY <1>1, QueueAppend
<1>3. \A i \in 1..(n + 1) : i \in 1..n \/ i = n + 1
  OBVIOUS
<1> QED
  BY <1>1, <1>2, <1>3 DEF Pics

LEMMA WritesAnswered ==
  ASSUME TypeOK, Pics, queue # <<>>, queue' = Tail(queue)
  PROVE  \A i \in 1..Len(queue') : WriteHas(queue'[i])
<1>1. PICK n \in Nat : n = Len(queue)
  BY QueueTail
<1>2. Len(queue') = n - 1 /\ \A i \in 1..(n - 1) : queue'[i] = queue[i + 1]
  BY <1>1, QueueTail
<1>3. \A i \in 1..(n - 1) : i + 1 \in 1..n
  OBVIOUS
<1> QED
  BY <1>1, <1>2, <1>3 DEF Pics

LEMMA WritesUnattended ==
  ASSUME TypeOK, Pics, queue' = Unattended
  PROVE  \A i \in 1..Len(queue') : WriteHas(queue'[i])
<1> SUFFICES ASSUME NEW i \in 1..Len(queue') PROVE WriteHas(queue'[i])
  OBVIOUS
<1>1. /\ i \in 1..Len(queue) /\ queue'[i].kind = queue[i].kind
      /\ queue[i].kind = "profile" => /\ queue'[i].picture = queue[i].picture
                                      /\ queue'[i].unloaded = queue[i].unloaded
  BY UnattendedQueue
<1>2. WriteHas(queue[i])
  BY <1>1 DEF Pics
<1> QED
  BY <1>1, <1>2 DEF WriteHas

\* Calls that change in nothing but their drafts, or end.
LEMMA UploadKept ==
  ASSUME TypeOK, NEW s \in Slots, UploadHas(s), loading' = loading,
         calls'[s] \in {calls[s], Undrafted(calls[s]), Idle, Saving}
  PROVE  UploadHas(s)'
<1>1. CASE calls'[s] = calls[s]
  BY <1>1 DEF UploadHas
<1>2. CASE calls'[s] = Undrafted(calls[s])
  BY <1>2, CallOf, UndraftedCall DEF UploadHas
<1>3. CASE calls'[s] \in {Idle, Saving}
  BY <1>3, NoUpload DEF UploadHas
<1> QED
  BY <1>1, <1>2, <1>3

LEMMA InitPics == Init => Pics
BY NoUpload DEF Init, Pics, PageHas, UploadHas

LEMMA LoadedPics ==
  ASSUME TypeOK, Pics, Loaded
  PROVE  Pics'
<1>1. form'.url # NoPicture
  BY PicturesAssumption DEF Loaded, Shown
<1>2. \A s \in Slots : UploadHas(s)'
  BY DEF Loaded, Pics, UploadHas
<1>3. \A i \in 1..Len(queue') : WriteHas(queue'[i])
  BY DEF Loaded, Pics
<1> QED
  BY <1>1, <1>2, <1>3 DEF Pics, PageHas

LEMMA OpenPics ==
  ASSUME TypeOK, RoutesInv, Pics, OpenPage
  PROVE  Pics'
<1>1. \A s \in Slots : ~InFlight(calls[s])
  BY DEF OpenPage, RoutesInv, Above, Busy
<1>2. \A s \in Slots : UploadHas(s)'
  BY <1>1 DEF OpenPage, Pics, UploadHas, InFlight
<1> QED
  BY <1>2 DEF OpenPage, Pics, PageHas

LEMMA TapPics ==
  ASSUME TypeOK, Pics, TapUpdate
  PROVE  Pics'
<1>1. PICK s \in Slots :
        /\ calls[s] = Idle /\ \A t \in Slots : t # s => calls'[t] = calls[t]
        /\ \/ /\ queue' = queue
              /\ calls'[s].at = "uploading" /\ calls'[s].mounted
              /\ calls'[s].unloaded = (loading # "done")
           \/ /\ queue' = Append(queue, Written(form, NoPicture, s, loading # "done"))
              /\ calls'[s] = Saving
  BY TapEffect
<1>2. /\ page = "open" /\ UNCHANGED <<page, form, loading>>
  BY DEF TapUpdate, OnTop
<1>3. PageHas'
  BY <1>2 DEF Pics, PageHas
<1>4. UploadHas(s)'
  BY <1>1, <1>2, NoUpload DEF UploadHas
<1>5. \A t \in Slots : t # s => UploadHas(t)'
  BY <1>1, <1>2, UploadKept DEF Pics
<1>6. \A i \in 1..Len(queue') : WriteHas(queue'[i])
  <2>1. CASE queue' = queue
    BY <2>1 DEF Pics
  <2>2. CASE queue' = Append(queue, Written(form, NoPicture, s, loading # "done"))
    <3>1. PICK w : w = Written(form, NoPicture, s, loading # "done")
      OBVIOUS
    <3>2. form \in Form /\ (loading # "done") \in BOOLEAN
      BY DEF TypeOK
    <3>3. w \in Write
      BY <3>1, <3>2, WrittenType DEF Write
    <3>4. (loading # "done") \/ form.url # NoPicture
      BY <1>2 DEF Pics, PageHas
    <3>5. WriteHas(w)
      BY <3>1, <3>4, WrittenHas
    <3> QED
      BY <2>2, <3>1, <3>3, <3>5, WritesAppended
  <2> QED
    BY <1>1, <2>1, <2>2
<1> QED
  BY <1>3, <1>4, <1>5, <1>6 DEF Pics

LEMMA UploadedPics ==
  ASSUME TypeOK, RoutesInv, Pics, NEW s \in Slots, Uploaded(s)
  PROVE  Pics'
<1>1. UNCHANGED <<page, form, loading>>
  BY DEF Uploaded, routes
<1>2. /\ calls[s].at = "uploading"
      /\ calls'[s] \in {Idle, Saving}
      /\ \A t \in Slots : t # s => calls'[t] = calls[t]
  BY UploadedEffect
<1>3. \A t \in Slots : UploadHas(t)'
  BY <1>1, <1>2, UploadKept DEF Pics
<1>4. PICK got \in {calls[s].image, NoPicture} :
        queue' = Append(queue, IF calls[s].mounted
                               THEN Written(form, got, s, calls[s].unloaded)
                               ELSE Written(calls[s].frozen, got, NoSlot, calls[s].unloaded))
  BY UploadedEffect
<1>5. /\ calls[s].unloaded \in BOOLEAN /\ got \in Pictures \cup {NoPicture}
      /\ calls[s].frozen \in Form /\ form \in Form
  BY <1>2, <1>4, UploadFields, CallOf DEF TypeOK
<1>6. \A i \in 1..Len(queue') : WriteHas(queue'[i])
  <2>1. CASE calls[s].mounted
    <3>1. PICK w : w = Written(form, got, s, calls[s].unloaded)
      OBVIOUS
    <3>2. page # "gone"
      BY <1>2, <2>1 DEF RoutesInv, Above, Busy, InFlight
    <3>3. calls[s].unloaded \/ form.url # NoPicture
      BY <1>2, <2>1, <3>2 DEF Pics, UploadHas, PageHas
    <3>4. WriteHas(w) /\ w \in Write
      BY <1>5, <3>1, <3>3, WrittenHas, WrittenType DEF Write
    <3> QED
      BY <1>4, <2>1, <3>1, <3>4, WritesAppended
  <2>2. CASE ~calls[s].mounted
    <3>1. PICK w : w = Written(calls[s].frozen, got, NoSlot, calls[s].unloaded)
      OBVIOUS
    <3>2. calls[s].unloaded \/ calls[s].frozen.url # NoPicture
      BY <1>2, <2>2 DEF Pics, UploadHas
    <3>3. WriteHas(w) /\ w \in Write
      BY <1>5, <3>1, <3>2, WrittenHas, WrittenType DEF Write
    <3> QED
      BY <1>4, <2>2, <3>1, <3>3, WritesAppended
  <2> QED
    BY <2>1, <2>2
<1> QED
  BY <1>1, <1>3, <1>6 DEF Pics, PageHas

\* A page's last contents are what it was filled with, or later.
LEMMA ClosedPics ==
  ASSUME TypeOK, Pics, Closed
  PROVE  Pics'
<1>1. \A i \in 1..Len(queue') : WriteHas(queue'[i])
  BY WritesUnattended DEF Closed
<1>2. page = "closing" /\ page' = "gone"
  BY DEF Closed
<1>3. ASSUME NEW s \in Slots PROVE UploadHas(s)'
  <2>1. /\ ~InFlight(calls'[s])
        /\ calls'[s].at = "uploading" =>
             /\ calls[s].at = "uploading" /\ calls'[s].unloaded = calls[s].unloaded
             /\ calls[s].mounted => calls'[s].frozen = form
             /\ ~calls[s].mounted => calls'[s] = calls[s]
    BY <1>3, ClosedEffect
  <2>2. calls'[s].at = "uploading" => ~calls'[s].mounted
    BY <2>1 DEF InFlight
  <2>3. UploadHas(s) /\ PageHas
    BY DEF Pics
  <2> QED
    BY <1>2, <2>1, <2>2, <2>3 DEF UploadHas, PageHas
<1> QED
  BY <1>1, <1>2, <1>3 DEF Pics, PageHas

LEMMA RestartPics ==
  ASSUME TypeOK, Pics, Restart
  PROVE  Pics'
<1>1. \A i \in 1..Len(queue') : WriteHas(queue'[i])
  BY WritesUnattended DEF Restart
<1>2. \A s \in Slots : UploadHas(s)'
  BY NoUpload DEF Restart, UploadHas
<1> QED
  BY <1>1, <1>2 DEF Restart, Pics, PageHas

LEMMA CommitPics ==
  ASSUME TypeOK, Pics, Commit
  PROVE  Pics'
<1>1. \A i \in 1..Len(queue') : WriteHas(queue'[i])
  BY WritesAnswered DEF Commit
<1>2. PICK w \in Write : w = Head(queue)
  BY QueueTail DEF Commit
<1>3. PICK ok \in BOOLEAN : Answered(w, ok)
  BY <1>2 DEF Commit
<1>4. loading' = loading
  BY DEF Commit
<1>5. \A s \in Slots : UploadHas(s)'
  <2>1. ASSUME NEW s \in Slots
        PROVE  calls'[s] \in {calls[s], Undrafted(calls[s]), Idle, Saving}
    BY <1>3, <2>1, AnsweredEffect, SettleEffect
  <2> QED
    BY <1>4, <2>1, UploadKept DEF Pics
<1>6. page' # "gone" => page # "gone"
  BY <1>3, AnsweredEffect, PopEffect DEF routes
<1>7. form.url # NoPicture => form'.url # NoPicture
  BY <1>3, AnsweredEffect, PicturesAssumption
<1> QED
  BY <1>1, <1>4, <1>5, <1>6, <1>7 DEF Pics, PageHas

LEMMA NextPics == TypeOK /\ RoutesInv /\ Pics /\ [Next]_vars => Pics'
<1> SUFFICES ASSUME TypeOK, RoutesInv, Pics, [Next]_vars PROVE Pics'
  OBVIOUS
<1>1. CASE LoadFails
  BY <1>1 DEF LoadFails, Pics, PageHas, UploadHas, routes
<1>2. CASE OpenMedia \/ ChooseSource \/ PickerReturns
  BY <1>2 DEF OpenMedia, ChooseSource, PickerReturns, Pics, PageHas, UploadHas
<1>3. ASSUME NEW t \in Texts \cup {Blank}, Type(t) PROVE Pics'
  <2>1. form'.url = form.url
    BY <1>3 DEF Type, TypeOK, Form
  <2> QED
    BY <1>3, <2>1 DEF Type, Pics, PageHas, UploadHas, routes
<1>4. ASSUME NEW p \in Places, SetLocation(p) PROVE Pics'
  <2>1. PICK w : w \in Write /\ w.kind = "location" /\ queue' = Append(queue, w)
    <3>1. [kind |-> "location", place |-> p] \in Write
      BY DEF Write, Move
    <3> QED
      BY <1>4, <3>1 DEF SetLocation
  <2>2. \A i \in 1..Len(queue') : WriteHas(queue'[i])
    BY <2>1, WritesAppended DEF WriteHas
  <2> QED
    BY <1>4, <2>2 DEF SetLocation, Pics, PageHas, UploadHas, routes
<1>5. CASE Back
  <2>1. \A s \in Slots : calls'[s] \in {calls[s], Undrafted(calls[s])}
    BY <1>5, BackEffect
  <2>2. /\ UNCHANGED <<form, loading, queue>> /\ page = "open"
    BY <1>5 DEF Back
  <2>3. \A s \in Slots : UploadHas(s)'
    BY <2>1, <2>2, UploadKept DEF Pics
  <2> QED
    BY <2>2, <2>3 DEF Pics, PageHas
<1>6. CASE UNCHANGED vars
  BY <1>6 DEF vars, Pics, PageHas, UploadHas
<1> QED
  BY <1>1, <1>2, <1>3, <1>4, <1>5, <1>6, LoadedPics, OpenPics, TapPics, UploadedPics,
     ClosedPics, RestartPics, CommitPics DEF Next

\* Only a write changes the document, and it leaves alone what it does not name.
LEMMA StepErasesNothing ==
  ASSUME TypeOK, Pics, [Next]_vars
  PROVE  /\ user.place # NoPlace => user'.place # NoPlace
         /\ user.picture # NoPicture /\ user'.picture = NoPicture => Head(queue).unloaded
<1>1. CASE user' = user
  BY <1>1
<1>2. CASE Commit
  <2>1. PICK w \in Write : w = Head(queue) /\ w = queue[1] /\ 1 \in 1..Len(queue)
    BY <1>2, QueueTail DEF Commit
  <2>2. PICK ok \in BOOLEAN : user' = IF ok THEN Applied(w) ELSE user
    BY <1>2, <2>1 DEF Commit
  <2>3. user \in User
    BY DEF TypeOK
  <2>4. CASE w.kind = "profile"
    <3>1. /\ Applied(w).place = user.place /\ Applied(w).picture = w.picture
      BY <2>3, <2>4, UpdateFields DEF Applied, User
    <3>2. w.picture = NoPicture => w.unloaded
      BY <2>1, <2>4 DEF Pics, WriteHas
    <3> QED
      BY <2>1, <2>2, <3>1, <3>2
  <2>5. CASE w.kind # "profile"
    <3>1. w.kind = "location" /\ w.place \in Places
      BY <2>5, MoveFields
    <3>2. Applied(w).place = w.place /\ Applied(w).picture = user.picture
      BY <2>3, <3>1 DEF Applied, User
    <3> QED
      BY <2>2, <3>1, <3>2, PlacesAssumption
  <2> QED
    BY <2>4, <2>5
<1>3. user' = user \/ Commit
  BY DEF Next, vars, OpenPage, Loaded, LoadFails, OpenMedia, ChooseSource, PickerReturns,
    Back, Closed, TapUpdate, Restart, Type, Uploaded, SetLocation
<1> QED
  BY <1>1, <1>2, <1>3

\* Of two pages that write one document, neither takes away what the other
\* wrote, and a picture is lost only to an update of a page no load had filled.
THEOREM ErasesNothing == Spec => NothingErased
<1> DEFINE Kept == /\ user.place # NoPlace => user'.place # NoPlace
                   /\ (user.picture # NoPicture /\ user'.picture = NoPicture) =>
                        Head(queue).unloaded
<1>1. TypeOK /\ Pics /\ [Next]_vars => [Kept]_vars
  BY StepErasesNothing
<1> QED
  BY <1>1, InitType, NextType, InitRoutes, NextRoutes, InitPics, NextPics, PTL
     DEF Spec, NothingErased

-----------------------------------------------------------------------------
(* Drafts.                                                                  *)

\* An upload that remembers the form of its tap is below a progress dialog, on
\* a page that still says so.
Drafts ==
  \A s \in Slots : calls[s].at = "uploading" /\ calls[s].draft # {} =>
    /\ calls[s].mounted /\ progress /\ loading # "asked"
    /\ calls[s].draft = {form}

LEMMA InitDrafts == Init => Drafts
BY NoUpload DEF Init, Drafts

\* Where there is no progress dialog no upload remembers anything.
LEMMA NoDrafts ==
  ASSUME Drafts, ~progress,
         \A s \in Slots : calls'[s].at = "uploading" =>
           calls[s].at = "uploading" /\ calls'[s].draft = calls[s].draft
  PROVE  Drafts'
BY DEF Drafts

LEMMA DraftsKept ==
  ASSUME Drafts, UNCHANGED <<calls, form, progress>>, loading' = "asked" => loading = "asked"
  PROVE  Drafts'
BY DEF Drafts

LEMMA TapDrafts ==
  ASSUME TypeOK, Drafts, TapUpdate
  PROVE  Drafts'
<1>1. ~progress /\ progress' /\ UNCHANGED <<form, loading>>
  BY DEF TapUpdate, OnTop
<1>2. PICK s \in Slots :
        /\ \A t \in Slots : t # s => calls'[t] = calls[t]
        /\ \/ /\ calls'[s].at = "uploading" /\ calls'[s].mounted
              /\ calls'[s].draft # {} => loading # "asked" /\ calls'[s].draft = {form}
           \/ calls'[s] = Saving
  BY TapEffect
<1>3. \A t \in Slots : t # s => ~(calls'[t].at = "uploading" /\ calls'[t].draft # {})
  BY <1>1, <1>2 DEF Drafts
<1> QED
  BY <1>1, <1>2, <1>3, NoUpload DEF Drafts

\* A pop of the progress dialog takes the memories with it.
LEMMA Undraft ==
  ASSUME TypeOK, Drafts, NEW s \in Slots,
         calls'[s] = (IF progress THEN Undrafted(calls[s]) ELSE calls[s]) \/ calls'[s] = Idle
  PROVE  ~(calls'[s].at = "uploading" /\ calls'[s].draft # {})
<1>1. CASE calls'[s] = Idle
  BY <1>1, NoUpload
<1>2. CASE progress /\ calls'[s] = Undrafted(calls[s])
  BY <1>2, CallOf, UndraftedCall
<1>3. CASE ~progress /\ calls'[s] = calls[s]
  BY <1>3 DEF Drafts
<1> QED
  BY <1>1, <1>2, <1>3

LEMMA CommitDrafts ==
  ASSUME TypeOK, Drafts, Commit
  PROVE  Drafts'
<1>1. PICK w \in Write : w = Head(queue)
  BY QueueTail DEF Commit
<1>2. PICK ok \in BOOLEAN : Answered(w, ok)
  BY <1>1 DEF Commit
<1>3. loading' = loading
  BY DEF Commit
<1>4. CASE UNCHANGED <<routes, form, calls>>
  BY <1>3, <1>4, DraftsKept DEF routes
<1>5. CASE w.slot \in Slots /\ Settle(w.slot)
  <2>1. \A s \in Slots : calls'[s] = (IF progress THEN Undrafted(calls[s]) ELSE calls[s])
                         \/ calls'[s] = Idle
    BY <1>5, SettleEffect
  <2> QED
    BY <2>1, Undraft DEF Drafts
<1> QED
  BY <1>2, <1>4, <1>5, AnsweredEffect

LEMMA NextDrafts == TypeOK /\ RoutesInv /\ Drafts /\ [Next]_vars => Drafts'
<1> SUFFICES ASSUME TypeOK, RoutesInv, Drafts, [Next]_vars PROVE Drafts'
  OBVIOUS
<1>1. CASE OpenPage
  BY <1>1, NoDrafts DEF OpenPage, RoutesInv, Above
<1>2. CASE Loaded
  BY <1>2 DEF Loaded, Drafts
<1>3. CASE LoadFails \/ OpenMedia \/ ChooseSource \/ PickerReturns
  BY <1>3, DraftsKept DEF LoadFails, OpenMedia, ChooseSource, PickerReturns, routes
<1>4. CASE Back
  <2>1. \A s \in Slots : calls'[s] = IF progress THEN Undrafted(calls[s]) ELSE calls[s]
    BY <1>4, BackEffect
  <2> QED
    BY <2>1, Undraft DEF Drafts
<1>5. CASE Closed
  <2>1. ~progress
    BY <1>5 DEF Closed, RoutesInv, Above
  <2> QED
    BY <1>5, <2>1, ClosedEffect, NoDrafts
<1>6. CASE Restart
  BY <1>6, NoUpload DEF Restart, Drafts
<1>7. ASSUME NEW t \in Texts \cup {Blank}, Type(t) PROVE Drafts'
  BY <1>7, NoDrafts DEF Type, OnTop
<1>8. ASSUME NEW s \in Slots, Uploaded(s) PROVE Drafts'
  <2>1. /\ calls'[s] \in {Idle, Saving} /\ \A t \in Slots : t # s => calls'[t] = calls[t]
    BY <1>8, UploadedEffect
  <2>2. UNCHANGED <<form, progress, loading>>
    BY <1>8 DEF Uploaded, routes
  <2> QED
    BY <2>1, <2>2, NoUpload DEF Drafts
<1>9. ASSUME NEW p \in Places, SetLocation(p) PROVE Drafts'
  BY <1>9, DraftsKept DEF SetLocation, routes
<1>10. CASE UNCHANGED vars
  BY <1>10, DraftsKept DEF vars
<1> QED
  BY <1>1, <1>2, <1>3, <1>4, <1>5, <1>6, <1>7, <1>8, <1>9, <1>10, TapDrafts, CommitDrafts
     DEF Next

\* The queue grows by an update only when its upload has ended.
LEMMA GrowsByUpload ==
  ASSUME TypeOK, [Next]_vars, NEW s \in Slots, calls[s].at = "uploading",
         calls'[s] # calls[s], Len(queue') > Len(queue)
  PROVE  Uploaded(s)
<1>1. PICK n \in Nat : n = Len(queue)
  BY DEF TypeOK
<1>2. CASE TapUpdate
  BY <1>2, TapEffect, NoUpload
<1>3. CASE Commit
  <2>1. queue # <<>> /\ queue' = Tail(queue)
    BY <1>3 DEF Commit
  <2>2. Len(queue') = n - 1
    BY <1>1, <2>1, QueueTail
  <2> QED
    BY <1>1, <2>2
<1>4. CASE Closed \/ Restart
  <2>1. queue' = Unattended
    BY <1>4 DEF Closed, Restart
  <2>2. Len(queue') = n
    BY <1>1, <2>1, UnattendedQueue
  <2> QED
    BY <1>1, <2>2
<1>5. ASSUME NEW t \in Slots, Uploaded(t) PROVE Uploaded(s)
  BY <1>5, UploadedEffect
<1>6. CASE queue' = queue \/ calls' = calls
  BY <1>1, <1>6
<1>7. \/ queue' = queue \/ calls' = calls \/ TapUpdate \/ Commit \/ Closed \/ Restart
      \/ \E t \in Slots : Uploaded(t)
  BY DEF Next, vars, OpenPage, Loaded, LoadFails, OpenMedia, ChooseSource, PickerReturns,
    Back, Type, SetLocation
<1> QED
  BY <1>2, <1>3, <1>4, <1>5, <1>6, <1>7

LEMMA StepWritesForm ==
  ASSUME TypeOK, Drafts, [Next]_vars, NEW s \in Slots,
         NEW tap \in IF calls[s].at = "uploading" THEN calls[s].draft ELSE {},
         calls'[s] # calls[s], Len(queue') > Len(queue)
  PROVE  /\ queue'[Len(queue')].text = tap.text
         /\ queue'[Len(queue')].picture \in {calls[s].image, tap.url}
<1>1. calls[s].at = "uploading" /\ calls[s].draft # {} /\ tap \in calls[s].draft
  OBVIOUS
<1>2. calls[s].mounted /\ tap = form
  BY <1>1 DEF Drafts
<1>3. Uploaded(s)
  BY <1>1, GrowsByUpload
<1>4. PICK got \in {calls[s].image, NoPicture} :
        queue' = Append(queue, Written(form, got, s, calls[s].unloaded))
  BY <1>2, <1>3, UploadedEffect
<1>5. PICK w : w = Written(form, got, s, calls[s].unloaded)
  OBVIOUS
<1>6. w \in Write
  <2>1. /\ calls[s].unloaded \in BOOLEAN /\ got \in Pictures \cup {NoPicture} /\ form \in Form
    BY <1>1, <1>4, UploadFields, CallOf DEF TypeOK
  <2> QED
    BY <1>5, <2>1, WrittenType DEF Write
<1>7. queue'[Len(queue')] = w
  BY <1>4, <1>5, <1>6, QueueAppend
<1>8. w.text = form.text /\ w.picture = IF got # NoPicture THEN got ELSE form.url
  BY <1>5 DEF Written
<1> QED
  BY <1>2, <1>4, <1>7, <1>8

\* What an update writes after its upload is what the page said at the tap,
\* whatever is loaded, answered or opened while the picture is on its way.
THEOREM WritesForm == Spec => UpdateIsForm
<1> DEFINE AsTapped ==
      \A s \in Slots : \A tap \in IF calls[s].at = "uploading" THEN calls[s].draft ELSE {} :
        (calls'[s] # calls[s] /\ Len(queue') > Len(queue)) =>
          /\ queue'[Len(queue')].text = tap.text
          /\ queue'[Len(queue')].picture \in {calls[s].image, tap.url}
<1>1. TypeOK /\ Drafts /\ [Next]_vars => [AsTapped]_vars
  BY StepWritesForm
<1> QED
  BY <1>1, InitType, NextType, InitRoutes, NextRoutes, InitDrafts, NextDrafts, PTL
     DEF Spec, UpdateIsForm

-----------------------------------------------------------------------------
(* The filter dialog: types.                                               *)

\* What TapFilter puts into a slot is a query, and a query that loses its
\* context remains one.
LEMMA QueryType ==
  /\ \A f \in Fields, p \in Positions \cup {NoPosition} :
       [at |-> "asked", mounted |-> TRUE, ask |-> [fields |-> f, from |-> p]] \in Query
  /\ \A c \in {NoQuery} \cup Query : c # NoQuery =>
       /\ c.ask \in Ask
       /\ [c EXCEPT !.mounted = FALSE] \in Query
<1>1. \A f \in Fields, p \in Positions \cup {NoPosition} :
        [at |-> "asked", mounted |-> TRUE, ask |-> [fields |-> f, from |-> p]] \in Query
  BY DEF Query, Ask
<1>2. \A c \in Query : c.ask \in Ask /\ [c EXCEPT !.mounted = FALSE] \in Query
  BY DEF Query
<1> QED
  BY <1>1, <1>2

\* Whatever is popped, page, list, dialog and message keep their types.
LEMMA FilterPopType ==
  ASSUME FilterTypeOK, NEW result \in {AllRooms} \cup List, PopRoute(result)
  PROVE  /\ home' \in BOOLEAN /\ list' \in {AllRooms} \cup List
         /\ dialog' \in {"open", "closing", "gone"} /\ alert' \in BOOLEAN
BY DEF FilterTypeOK, PopRoute

\* The result of a query is a list of rooms.
LEMMA FilterResultType ==
  ASSUME NEW ask \in Ask, NEW seen \in SUBSET Rooms
  PROVE  [filtered |-> TRUE, ask |-> ask,
          rooms |-> {r \in seen : Matching(ask, r)}] \in List
<1>1. {r \in seen : Matching(ask, r)} \in SUBSET Rooms
  OBVIOUS
<1> QED
  BY <1>1 DEF List

LEMMA FilterInitType == FilterInit => FilterTypeOK
<1>1. NoFields \in Fields
  BY DEF NoFields, Fields
<1> QED
  BY <1>1 DEF FilterInit, FilterTypeOK

LEMMA FilterNextType ==
  FilterTypeOK /\ [FilterNext]_filterVars => FilterTypeOK'
<1> SUFFICES ASSUME FilterTypeOK, [FilterNext]_filterVars PROVE FilterTypeOK'
  OBVIOUS
<1>1. NoFields \in Fields
  BY DEF NoFields, Fields
<1>2. CASE OpenDialog
  BY <1>1, <1>2 DEF OpenDialog, FilterTypeOK
<1>3. CASE Located
  BY <1>3 DEF Located, FilterTypeOK
<1>4. CASE Dismiss
  <2>1. PopRoute(AllRooms) /\ overlapped' \in BOOLEAN
    BY <1>4 DEF Dismiss, FilterTypeOK
  <2> QED
    BY <1>4, <2>1, FilterPopType DEF Dismiss, FilterTypeOK
<1>5. CASE DialogClosed
  <2>1. queries' \in [QuerySlots -> {NoQuery} \cup Query]
    BY <1>5, QueryType DEF DialogClosed, FilterTypeOK
  <2> QED
    BY <1>1, <1>5, <2>1 DEF DialogClosed, FilterTypeOK
<1>6. ASSUME NEW f \in Fillings, Fill(f) PROVE FilterTypeOK'
  BY <1>6, FillingsAssumption DEF Fill, FilterTypeOK
<1>7. ASSUME NEW s \in QuerySlots, TapFilter(s) PROVE FilterTypeOK'
  <2>1. queries' \in [QuerySlots -> {NoQuery} \cup Query]
    BY <1>7, QueryType DEF TapFilter, FilterTypeOK
  <2>2. alert' \in BOOLEAN /\ overlapped' \in BOOLEAN
    BY <1>7 DEF TapFilter, FilterTypeOK, Reversed
  <2> QED
    BY <1>7, <2>1, <2>2 DEF TapFilter, FilterTypeOK
<1>8. ASSUME NEW s \in QuerySlots, QueryAnswered(s) PROVE FilterTypeOK'
  <2>1. queries' \in [QuerySlots -> {NoQuery} \cup Query] /\ queries[s].ask \in Ask
    BY <1>8, QueryType DEF QueryAnswered, FilterTypeOK
  <2>2. /\ home' \in BOOLEAN /\ list' \in {AllRooms} \cup List
        /\ dialog' \in {"open", "closing", "gone"} /\ alert' \in BOOLEAN
    <3>1. CASE queries[s].mounted
      <4>1. PICK seen \in SUBSET Rooms :
              PopRoute([filtered |-> TRUE, ask |-> queries[s].ask,
                      rooms |-> {r \in seen : Matching(queries[s].ask, r)}])
        BY <1>8, <3>1 DEF QueryAnswered
      <4> QED
        BY <2>1, <4>1, FilterResultType, FilterPopType
    <3>2. CASE ~queries[s].mounted
      BY <1>8, <3>2 DEF QueryAnswered, FilterTypeOK
    <3> QED
      BY <3>1, <3>2
  <2> QED
    BY <1>8, <2>1, <2>2 DEF QueryAnswered, FilterTypeOK
<1>9. CASE UNCHANGED filterVars
  BY <1>9 DEF filterVars, FilterTypeOK
<1> QED
  BY <1>2, <1>3, <1>4, <1>5, <1>6, <1>7, <1>8, <1>9 DEF FilterNext

\* All variables keep their types: what the home page shows is all rooms or a
\* list of posted rooms with the fields it was asked by.
THEOREM FilterTypeCorrect == FilterSpec => []FilterTypeOK
BY FilterInitType, FilterNextType, PTL DEF FilterSpec

-----------------------------------------------------------------------------
(* The filter dialog: the home page stays.                                 *)

\* The message is above an open dialog only.
AlertOverDialog == alert => dialog = "open"

\* No call outlives the dialog with a live context.
GoneUnmounted == dialog = "gone" => \A s \in QuerySlots : ~Asking(s)

\* A dialog that is used once at a time has one call at most, and none when it
\* closes, so nothing is popped from below it.
OneAtATime ==
  ~overlapped =>
    /\ home
    /\ dialog # "open" => \A s \in QuerySlots : ~Asking(s)
    /\ \A s, t \in QuerySlots : Asking(s) /\ Asking(t) => s = t

DialogInv == AlertOverDialog /\ GoneUnmounted /\ OneAtATime

LEMMA InitDialog == FilterInit => DialogInv
BY DEF FilterInit, DialogInv, AlertOverDialog, GoneUnmounted, OneAtATime, Asking

LEMMA NextDialog == FilterTypeOK /\ DialogInv /\ [FilterNext]_filterVars => DialogInv'
<1> SUFFICES ASSUME FilterTypeOK, DialogInv, [FilterNext]_filterVars PROVE DialogInv'
  OBVIOUS
<1> USE DEF DialogInv, AlertOverDialog, GoneUnmounted, OneAtATime
<1>2. CASE OpenDialog
  BY <1>2 DEF OpenDialog, Asking
<1>3. CASE Located
  BY <1>3 DEF Located, Asking
<1>4. CASE Dismiss
  <2>1. \A s \in QuerySlots : Asking(s)' <=> Asking(s)
    BY <1>4 DEF Dismiss, Asking
  <2>2. /\ dialog = "open" /\ home' = home /\ overlapped' = overlapped /\ dialog' = dialog
        /\ alert'= FALSE
     \/ /\ dialog' = "closing" /\ home' = home /\ ~alert /\ ~alert'
        /\ ~overlapped' => ~overlapped /\ \A s \in QuerySlots : ~Asking(s)
    BY <1>4 DEF Dismiss, PopRoute, FilterTypeOK
  <2> QED
    BY <2>1, <2>2
<1>5. CASE DialogClosed
  <2>1. \A s \in QuerySlots : ~Asking(s)'
    <3> SUFFICES ASSUME NEW s \in QuerySlots PROVE ~Asking(s)'
      OBVIOUS
    <3>1. CASE queries[s] = NoQuery
      BY <1>5, <3>1 DEF DialogClosed, Asking, FilterTypeOK
    <3>2. CASE queries[s] # NoQuery
      <4>1. queries'[s] = [queries[s] EXCEPT !.mounted = FALSE] /\ queries[s] \in Query
        BY <1>5, <3>2 DEF DialogClosed, FilterTypeOK
      <4>2. queries'[s].mounted = FALSE
        BY <4>1 DEF Query
      <4> QED
        BY <4>2 DEF Asking
    <3> QED
      BY <3>1, <3>2
  <2> QED
    BY <1>5, <2>1 DEF DialogClosed
<1>6. ASSUME NEW f \in Fillings, Fill(f) PROVE DialogInv'
  BY <1>6 DEF Fill, Asking
<1>7. ASSUME NEW s \in QuerySlots, TapFilter(s) PROVE DialogInv'
  <2>1. \A t \in QuerySlots : t # s => (Asking(t)' <=> Asking(t))
    BY <1>7 DEF TapFilter, Asking, FilterTypeOK
  <2>2. dialog = "open" /\ dialog' = "open" /\ home' = home
    BY <1>7 DEF TapFilter
  <2>3. ~overlapped' => ~overlapped /\ \A t \in QuerySlots : ~Asking(t)
    BY <1>7 DEF TapFilter
  <2> QED
    BY <2>1, <2>2, <2>3
<1>8. ASSUME NEW s \in QuerySlots, QueryAnswered(s) PROVE DialogInv'
  <2>1. /\ \A t \in QuerySlots : t # s => (Asking(t)' <=> Asking(t))
        /\ ~Asking(s)'
    BY <1>8 DEF QueryAnswered, Asking, FilterTypeOK
  <2>2. overlapped' = overlapped
    BY <1>8 DEF QueryAnswered
  <2>3. CASE queries[s].mounted
    <3>1. PICK result : PopRoute(result)
      BY <1>8, <2>3 DEF QueryAnswered
    <3>2. Asking(s)
      BY <1>8, <2>3 DEF QueryAnswered, Asking
    <3>3. ~overlapped => dialog = "open" /\ \A t \in QuerySlots : ~Asking(t)'
      BY <2>1, <3>2
    <3> QED
      BY <2>1, <2>2, <3>1, <3>2, <3>3 DEF PopRoute
  <2>4. CASE ~queries[s].mounted
    <3>1. UNCHANGED <<home, dialog, alert>>
      BY <1>8, <2>4 DEF QueryAnswered
    <3> QED
      BY <2>1, <2>2, <3>1
  <2> QED
    BY <2>3, <2>4
<1>9. CASE UNCHANGED filterVars
  BY <1>9 DEF filterVars, Asking
<1> QED
  BY <1>2, <1>3, <1>4, <1>5, <1>6, <1>7, <1>8, <1>9 DEF FilterNext

\* A dialog used once at a time never pops the page below it, with any number
\* of calls that earlier dialogs left behind.
THEOREM HomeKept == FilterSpec => []HomeStays
<1>1. FilterTypeOK /\ DialogInv => HomeStays
  BY DEF DialogInv, OneAtATime, HomeStays, FilterTypeOK
<1> QED
  BY <1>1, FilterInitType, FilterNextType, InitDialog, NextDialog, PTL DEF FilterSpec

-----------------------------------------------------------------------------
(* The filter dialog: what is listed was asked for.                        *)

Obeys(result) ==
  LET f == result.ask.fields IN
  /\ \A r \in result.rooms :
       /\ f.min \in Prices => f.min <= r.price
       /\ f.max \in Prices => r.price <= f.max
       /\ f.type \in Types => r.type = f.type
       /\ (f.km # Unset /\ result.ask.from # NoPosition) =>
            Km[<<result.ask.from, r.place>>] <= f.km
  /\ Reversed(f) => result.rooms = {}

\* The rooms of a call obey the fields of its own tap, and there are none
\* between reversed prices.
LEMMA ResultObeys ==
  ASSUME NEW ask \in Ask, NEW seen \in SUBSET Rooms
  PROVE  Obeys([filtered |-> TRUE, ask |-> ask,
                rooms |-> {r \in seen : Matching(ask, r)}])
<1> DEFINE f == ask.fields
           found == {r \in seen : Matching(ask, r)}
<1>1. \A r \in found :
        /\ f.min \in Prices => f.min <= r.price
        /\ f.max \in Prices => r.price <= f.max
        /\ f.type \in Types => r.type = f.type
        /\ (f.km # Unset /\ ask.from # NoPosition) => Km[<<ask.from, r.place>>] <= f.km
  <2> SUFFICES ASSUME NEW r \in found
               PROVE  /\ f.min \in Prices => f.min <= r.price
                      /\ f.max \in Prices => r.price <= f.max
                      /\ f.type \in Types => r.type = f.type
                      /\ (f.km # Unset /\ ask.from # NoPosition) =>
                           Km[<<ask.from, r.place>>] <= f.km
    OBVIOUS
  <2>1. Matching(ask, r) /\ r.price \in Nat
    BY RoomsAssumption
  <2>2. f.min \in Prices => f.min <= r.price
    BY <2>1, NumbersAssumption DEF Matching
  <2>3. f.type \in Types => r.type = f.type
    BY <2>1, UnsetAssumption DEF Matching
  <2> QED
    BY <2>1, <2>2, <2>3 DEF Matching
<1>2. Reversed(f) => found = {}
  <2> SUFFICES ASSUME Reversed(f), NEW r \in found PROVE FALSE
    OBVIOUS
  <2>1. /\ f.min \in Nat /\ f.max \in Nat /\ r.price \in Nat
        /\ f.min > f.max /\ f.min <= r.price /\ r.price <= f.max
    BY <1>1, NumbersAssumption, RoomsAssumption DEF Reversed
  <2> QED
    BY <2>1
<1> QED
  BY <1>1, <1>2 DEF Obeys

ListInv == list.filtered => Obeys(list)

LEMMA NextList ==
  FilterTypeOK /\ ListInv /\ [FilterNext]_filterVars => ListInv'
<1> SUFFICES ASSUME FilterTypeOK, ListInv, [FilterNext]_filterVars PROVE ListInv'
  OBVIOUS
<1>1. CASE list' = list
  BY <1>1 DEF ListInv, Obeys
<1>2. CASE list' = AllRooms
  BY <1>2 DEF ListInv, AllRooms
<1>3. ASSUME NEW s \in QuerySlots, QueryAnswered(s), list' # list PROVE ListInv'
  <2>1. queries[s].ask \in Ask
    BY <1>3, QueryType DEF QueryAnswered, FilterTypeOK
  <2>2. PICK seen \in SUBSET Rooms :
          PopRoute([filtered |-> TRUE, ask |-> queries[s].ask,
                  rooms |-> {r \in seen : Matching(queries[s].ask, r)}])
    BY <1>3 DEF QueryAnswered
  <2>3. PICK result :
          /\ result = [filtered |-> TRUE, ask |-> queries[s].ask,
                       rooms |-> {r \in seen : Matching(queries[s].ask, r)}]
          /\ list' = result
    BY <1>3, <2>2 DEF PopRoute
  <2>4. Obeys(result)
    BY <2>1, <2>3, ResultObeys
  <2> QED
    BY <2>3, <2>4 DEF ListInv, Obeys
<1>4. list' = list \/ list' = AllRooms \/ \E s \in QuerySlots : QueryAnswered(s)
  BY DEF FilterNext, filterVars, OpenDialog, Located, Dismiss, PopRoute, DialogClosed, Fill, TapFilter
<1> QED
  BY <1>1, <1>2, <1>3, <1>4

\* The home page lists no room that the tap of "Filter" behind it excluded,
\* and none at all for reversed prices, whatever is edited or answered later.
THEOREM AsAsked == FilterSpec => []ListedAsAsked
<1>1. FilterInit => ListInv
  BY DEF FilterInit, ListInv, AllRooms
<1>2. ListInv => ListedAsAsked
  BY DEF ListInv, Obeys, ListedAsAsked
<1> QED
  BY <1>1, <1>2, FilterInitType, FilterNextType, NextList, PTL DEF FilterSpec
=============================================================================
