--------------------------- MODULE RoomPost_proofs ---------------------------
(***************************************************************************)
(* Proofs about RoomPost, for any photos, places and amenities, any number *)
(* of overlapping calls, and all bounds.                                   *)
(***************************************************************************)
EXTENDS RoomPost, TLAPS, SequenceTheorems

\* A member of a sequence, and a sequence mapped element by element.
LEMMA MemberOfSeq ==
  ASSUME NEW S, NEW q \in Seq(S), NEW i \in DOMAIN q
  PROVE  q[i] \in S
OBVIOUS

LEMMA MappedSeq ==
  ASSUME NEW S, NEW q \in Seq(S), NEW g \in [DOMAIN q -> S]
  PROVE  g \in Seq(S) /\ Len(g) = Len(q)
<1>1. DOMAIN q = 1..Len(q) /\ Len(q) \in Nat
  OBVIOUS
<1> QED
  BY <1>1

LEMMA FormFields ==
  ASSUME NEW f \in Form
  PROVE  /\ f.text \in AllTexts /\ f.chips \subseteq Amenities
         /\ f.address \in Addresses \cup {NotSet} /\ f.coords \in Places \cup {NotSet}
         /\ f.images \in Seq(Photos) /\ DOMAIN f.images = 1..Len(f.images)
         /\ Len(f.images) \in Nat
<1>1. f.images \in Seq(Photos)
  BY DEF Form
<1> QED
  BY <1>1 DEF Form

LEMMA CallFields ==
  ASSUME NEW c \in CallState
  PROVE  /\ c.at \in {"uploading", "adding"} /\ c.id \in 1..MaxPosts
         /\ c.index \in Nat /\ c.length \in Nat /\ c.photo \in Seq(Photos)
         /\ c.urls \subseteq Nat \X Photos /\ c.chips \subseteq Amenities
         /\ c.mounted \in BOOLEAN /\ c.frozen \in Form /\ c # Idle
BY DEF CallState, Idle

LEMMA CallInFlight ==
  ASSUME TypeOK, NEW s \in Slots, calls[s] # Idle
  PROVE  calls[s] \in CallState
BY DEF TypeOK

LEMMA FormOfCall ==
  ASSUME TypeOK, NEW c \in CallState
  PROVE  FormOf(c) \in Form
BY CallFields DEF TypeOK, FormOf

LEMMA NewForms ==
  /\ NewForm \in Form /\ NewForm.images = <<>>
  /\ \A f \in Form : LET g == [NewForm EXCEPT !.text = "untitled", !.coords = f.coords]
                     IN  g \in Form /\ g.images = <<>>
<1>1. <<>> \in Seq(Photos) /\ "untitled" \in AllTexts /\ "unpriced" \in AllTexts
  BY DEF AllTexts
<1>2. NewForm \in Form /\ NewForm.images = <<>>
  BY <1>1 DEF NewForm, Form
<1>3. ASSUME NEW f \in Form
      PROVE  LET g == [NewForm EXCEPT !.text = "untitled", !.coords = f.coords]
             IN  g \in Form /\ g.images = <<>>
  BY <1>1, <1>2, FormFields DEF Form
<1> QED
  BY <1>2, <1>3

-----------------------------------------------------------------------------
(* What the pieces of addRooms do                                           *)

\* Create ends the call or adds one room, made of the form it reads.
LEMMA CreateEffect ==
  ASSUME TypeOK, NEW s \in Slots, NEW c \in CallState, Create(s, c)
  PROVE  \/ calls' = [calls EXCEPT ![s] = Idle] /\ queue' = queue
         \/ \E r \in Room :
              /\ calls' = [calls EXCEPT ![s] = [c EXCEPT !.at = "adding"]]
              /\ queue' = queue \cup {r}
              /\ r.id = c.id /\ r.chips = c.chips /\ r.images = c.urls
              /\ r.text = FormOf(c).text /\ r.address = FormOf(c).address
              /\ r.coords = FormOf(c).coords
<1> DEFINE f == FormOf(c)
           r == [id |-> c.id, text |-> f.text, chips |-> c.chips,
                 address |-> f.address, coords |-> f.coords, images |-> c.urls]
<1>1. CASE f.coords = NotSet \/ f.text \notin Parsed
  BY <1>1 DEF Create, End
<1>2. CASE ~(f.coords = NotSet \/ f.text \notin Parsed)
  <2>1. /\ f.coords \in Places /\ f.text \in Texts \cup {"untitled"}
        /\ f.address \in Addresses \cup {NotSet}
    BY <1>2, FormOfCall, FormFields DEF Parsed
  <2>2. r \in Room
    BY <2>1, CallFields DEF Room
  <2>3. /\ calls' = [calls EXCEPT ![s] = [c EXCEPT !.at = "adding"]]
        /\ queue' = queue \cup {r}
    BY <1>2 DEF Create
  <2>4. /\ r.id = c.id /\ r.chips = c.chips /\ r.images = c.urls
        /\ r.text = f.text /\ r.address = f.address /\ r.coords = f.coords
    OBVIOUS
  <2> HIDE DEF r
  <2> QED
    BY <2>2, <2>3, <2>4
<1> QED
  BY <1>1, <1>2

LEMMA AddingCall ==
  ASSUME NEW c \in CallState
  PROVE  LET a == [c EXCEPT !.at = "adding"] IN
         a \in CallState /\ a.at = "adding" /\ a.id = c.id /\ a.length = c.length
         /\ a.chips = c.chips /\ a.frozen = c.frozen
BY DEF CallState

LEMMA NextPhoto ==
  ASSUME NEW c \in CallState, NEW p \in Photos
  PROVE  LET n == [c EXCEPT !.index = @ + 1, !.photo = <<p>>] IN
         /\ n \in CallState /\ n.at = c.at /\ n.id = c.id /\ n.index = c.index + 1
         /\ n.length = c.length /\ n.photo = <<p>> /\ n.urls = c.urls
         /\ n.chips = c.chips /\ n.mounted = c.mounted /\ n.frozen = c.frozen
<1>1. c.index + 1 \in Nat /\ <<p>> \in Seq(Photos)
  BY CallFields
<1> QED
  BY <1>1 DEF CallState

LEMMA MoreUrls ==
  ASSUME NEW c \in CallState, NEW u \in SUBSET (Nat \X Photos)
  PROVE  LET n == [c EXCEPT !.urls = u] IN
         /\ n \in CallState /\ n.at = c.at /\ n.id = c.id /\ n.index = c.index
         /\ n.length = c.length /\ n.photo = c.photo /\ n.urls = u
         /\ n.chips = c.chips /\ n.mounted = c.mounted /\ n.frozen = c.frozen
BY DEF CallState

LEMMA FrozenCall ==
  ASSUME NEW c \in CallState, NEW f \in Form
  PROVE  LET n == [c EXCEPT !.mounted = FALSE, !.frozen = f] IN
         /\ n \in CallState /\ n.at = c.at /\ n.id = c.id /\ n.index = c.index
         /\ n.length = c.length /\ n.photo = c.photo /\ n.urls = c.urls
         /\ n.chips = c.chips /\ n.mounted = FALSE /\ n.frozen = f
BY DEF CallState

-----------------------------------------------------------------------------
(* The inductive invariant                                                  *)

\* What the form says is what was posted, or another call has reset it, which
\* empties the list of photos.
Agrees(f, draft) ==
  \/ f.images = <<>>
  \/ /\ f.text = draft.text /\ f.address = draft.address
     /\ f.coords = draft.coords /\ f.images = draft.images

UrlsTrue(urls, draft) ==
  \A u \in urls : u[1] \in DOMAIN draft.images /\ draft.images[u[1]] = u[2]

FromDraft(r, draft) ==
  /\ r.text = draft.text /\ r.chips = draft.chips
  /\ r.address = draft.address /\ r.coords = draft.coords
  /\ UrlsTrue(r.images, draft)

\* A call that is uploading has photos to upload: a form without any is no
\* longer the one it was started with, and its loop throws.
CallTrue(c) ==
  /\ c.id \in DOMAIN log
  /\ c.length = Len(log[c.id].draft.images) /\ c.chips = log[c.id].draft.chips
  /\ c.at = "uploading" =>
       /\ c.index \in 1..c.length /\ Len(c.photo) = 1
       /\ ~log[c.id].edited =>
            /\ Agrees(FormOf(c), log[c.id].draft)
            /\ c.photo = <<log[c.id].draft.images[c.index]>>
            /\ UrlsTrue(c.urls, log[c.id].draft)

CallsTrue == \A s \in Slots : calls[s] # Idle => CallTrue(calls[s])

RoomTrue(r) ==
  r.id \in DOMAIN log /\ (~log[r.id].edited => FromDraft(r, log[r.id].draft))

RoomsTrue == \A r \in queue \cup rooms : RoomTrue(r)

Inv == TypeOK /\ CallsTrue /\ RoomsTrue

\* A tap's entry in the log is never forgotten.
LogGrows ==
  \A i \in DOMAIN log :
    /\ i \in DOMAIN log' /\ log'[i].draft = log[i].draft
    /\ log[i].edited => log'[i].edited

LEMMA LogEntry ==
  ASSUME TypeOK, NEW i \in DOMAIN log
  PROVE  /\ log[i].draft \in Form /\ log[i].edited \in BOOLEAN
         /\ log[i].disturbed \in BOOLEAN
<1>1. log[i] \in Posts
  BY MemberOfSeq DEF TypeOK
<1> QED
  BY <1>1 DEF Posts

LEMMA KeptRoom ==
  ASSUME NEW r, RoomTrue(r), LogGrows
  PROVE  RoomTrue(r)'
BY DEF RoomTrue, LogGrows, FromDraft, UrlsTrue

LEMMA KeptCall ==
  ASSUME NEW c \in CallState, CallTrue(c), LogGrows,
         c.at = "uploading" /\ ~log'[c.id].edited =>
           FormOf(c)' = FormOf(c) \/ FormOf(c)'.images = <<>>
  PROVE  CallTrue(c)'
BY DEF CallTrue, LogGrows, Agrees, UrlsTrue

\* The calls after a step, one by one.
LEMMA CallsTrueNext ==
  ASSUME \A s \in Slots :
           calls'[s] = Idle \/ \E c \in CallState : calls'[s] = c /\ CallTrue(c)'
  PROVE  CallsTrue'
<1> SUFFICES ASSUME NEW s \in Slots, calls'[s] # Idle
             PROVE  CallTrue(calls[s])'
  BY DEF CallsTrue
<1>1. PICK c \in CallState : calls'[s] = c /\ CallTrue(c)'
  OBVIOUS
<1> QED
  BY <1>1 DEF CallTrue, FormOf

LEMMA SetCall ==
  ASSUME TypeOK, NEW s \in Slots, NEW k \in {Idle} \cup CallState,
         calls' = [calls EXCEPT ![s] = k]
  PROVE  /\ calls' \in [Slots -> {Idle} \cup CallState]
         /\ calls'[s] = k /\ \A t \in Slots : t # s => calls'[t] = calls[t]
BY DEF TypeOK

LEMMA InitInv == Init => Inv
<1> SUFFICES ASSUME Init PROVE Inv
  OBVIOUS
<1>1. TypeOK
  <2>1. <<>> \in Seq(Posts) /\ 0 \in 0..MaxEdits
    BY BoundsAssumption
  <2> QED
    BY <2>1, NewForms DEF Init, TypeOK
<1>2. CallsTrue /\ RoomsTrue
  BY DEF Init, CallsTrue, RoomsTrue
<1> QED
  BY <1>1, <1>2 DEF Inv

-----------------------------------------------------------------------------
(* The landlord's steps                                                     *)

LEMMA EditKeeps ==
  ASSUME Inv, NEW new \in Form, Edit(new), picked' \subseteq Pick
  PROVE  Inv'
<1>1. /\ edits' = edits + 1 /\ edits < MaxEdits /\ form' = new
      /\ UNCHANGED <<calls, queue, rooms, told, refused>>
  BY DEF Edit
<1>2. log' = [i \in DOMAIN log |->
        IF i \in Reading THEN [log[i] EXCEPT !.edited = TRUE, !.disturbed = TRUE]
        ELSE log[i]]
  BY DEF Edit
<1>3. log' \in Seq(Posts) /\ LogGrows
  <2>1. \A i \in DOMAIN log : log[i] \in Posts
    BY MemberOfSeq DEF Inv, TypeOK
  <2>2. log' \in [DOMAIN log -> Posts]
    BY <1>2, <2>1 DEF Posts
  <2>3. log' \in Seq(Posts)
    BY <2>2, MappedSeq DEF Inv, TypeOK
  <2>4. LogGrows
    BY <1>2, <2>1 DEF LogGrows, Posts
  <2> QED
    BY <2>3, <2>4
<1>4. TypeOK'
  BY <1>1, <1>3, BoundsAssumption DEF Inv, TypeOK
<1>5. ASSUME NEW s \in Slots, calls[s] # Idle
      PROVE  \E c \in CallState : calls'[s] = c /\ CallTrue(c)'
  <2>1. PICK c \in CallState : c = calls[s]
    BY <1>5, CallInFlight DEF Inv
  <2>2. CallTrue(c)
    BY <1>5, <2>1 DEF Inv, CallsTrue
  <2>3. CASE c.at = "uploading" /\ c.mounted
    <3>1. c.id \in Reading /\ c.id \in DOMAIN log
      BY <2>1, <2>2, <2>3 DEF Reading, CallTrue
    <3>2. log[c.id] \in Posts
      BY <3>1, MemberOfSeq DEF Inv, TypeOK
    <3>3. log'[c.id].edited
      BY <1>2, <3>1, <3>2 DEF Posts
    <3> QED
      BY <1>1, <1>3, <2>1, <2>2, <3>3, KeptCall
  <2>4. CASE ~(c.at = "uploading" /\ c.mounted)
    <3>1. c.at = "uploading" => FormOf(c)' = FormOf(c)
      BY <2>4, CallFields DEF FormOf
    <3> QED
      BY <1>1, <1>3, <2>1, <2>2, <3>1, KeptCall
  <2> QED
    BY <2>3, <2>4
<1>6. CallsTrue'
  BY <1>1, <1>5, CallsTrueNext
<1>7. RoomsTrue'
  BY <1>1, <1>3, KeptRoom DEF Inv, RoomsTrue
<1> QED
  BY <1>4, <1>6, <1>7 DEF Inv

LEMMA EditStepKeeps ==
  ASSUME Inv, EditStep
  PROVE  Inv'
<1>1. form \in Form /\ picked \subseteq Pick
  BY DEF Inv, TypeOK
<1>2. ASSUME NEW t \in AllTexts, Type(t) PROVE Inv'
  <2>1. [form EXCEPT !.text = t] \in Form
    BY <1>1 DEF Form
  <2> QED
    BY <1>1, <1>2, <2>1, EditKeeps DEF Type
<1>3. ASSUME NEW a \in Amenities, ToggleChip(a) PROVE Inv'
  <2>1. [form EXCEPT !.chips = IF a \in @ THEN @ \ {a} ELSE @ \cup {a}] \in Form
    BY <1>1 DEF Form
  <2> QED
    BY <1>1, <1>3, <2>1, EditKeeps DEF ToggleChip
<1>4. ASSUME NEW r \in Pick, PickLocation(r) PROVE Inv'
  <2>1. [form EXCEPT !.address = r.address, !.coords = r.place] \in Form
    BY <1>1 DEF Form, Pick
  <2>2. picked' \subseteq Pick
    BY <1>1, <1>4 DEF PickLocation
  <2> QED
    BY <1>4, <2>1, <2>2, EditKeeps DEF PickLocation
<1>5. ASSUME NEW p \in Photos, AddPhoto(p) PROVE Inv'
  <2>1. Append(form.images, p) \in Seq(Photos)
    BY <1>1, FormFields
  <2>2. [form EXCEPT !.images = Append(@, p)] \in Form
    BY <1>1, <2>1 DEF Form
  <2> QED
    BY <1>1, <1>5, <2>2, EditKeeps DEF AddPhoto
<1>6. ASSUME NEW i \in 1..Len(form.images), RemovePhoto(i) PROVE Inv'
  <2> DEFINE q == form.images
             rest == SubSeq(q, 1, i - 1) \o SubSeq(q, i + 1, Len(q))
  <2>1. rest \in Seq(Photos)
    <3>1. q \in Seq(Photos) /\ Len(q) \in Nat /\ i \in Int
      BY <1>1, FormFields
    <3>2. /\ \A j \in 1..(i - 1) : q[j] \in Photos
          /\ \A j \in (i + 1)..Len(q) : q[j] \in Photos
      BY <3>1
    <3>3. SubSeq(q, 1, i - 1) \in Seq(Photos)
      BY <3>1, <3>2, SubSeqProperties
    <3>4. SubSeq(q, i + 1, Len(q)) \in Seq(Photos)
      BY <3>1, <3>2, SubSeqProperties
    <3> QED
      BY <3>3, <3>4
  <2>2. [form EXCEPT !.images = rest] \in Form
    BY <1>1, <2>1 DEF Form
  <2> QED
    BY <1>1, <1>6, <2>2, EditKeeps DEF RemovePhoto
<1> QED
  BY <1>2, <1>3, <1>4, <1>5, <1>6 DEF EditStep

\* Leaving the page: a call that held it holds its last contents.
LEMMA ReopenKeeps ==
  ASSUME Inv, Reopen
  PROVE  Inv'
<1>1. /\ form' = NewForm /\ UNCHANGED <<queue, rooms, edits, picked, log, told, refused>>
      /\ calls' = [s \in Slots |->
           IF calls[s] # Idle /\ calls[s].mounted
           THEN [calls[s] EXCEPT !.mounted = FALSE, !.frozen = form] ELSE calls[s]]
  BY DEF Reopen
<1>2. form \in Form
  BY DEF Inv, TypeOK
<1>3. ASSUME NEW s \in Slots
      PROVE  \/ calls'[s] = Idle
             \/ \E c \in CallState : calls'[s] = c /\ CallTrue(c)'
  <2>1. CASE calls[s] = Idle
    BY <1>1, <2>1
  <2>2. CASE calls[s] # Idle /\ calls[s].mounted
    <3>1. PICK c \in CallState : c = calls[s]
      BY <2>2, CallInFlight DEF Inv
    <3>2. PICK f \in Form : f = form
      BY <1>2
    <3>3. PICK n \in CallState :
            /\ n = [c EXCEPT !.mounted = FALSE, !.frozen = f]
            /\ n.at = c.at /\ n.id = c.id /\ n.index = c.index
            /\ n.length = c.length /\ n.photo = c.photo /\ n.urls = c.urls
            /\ n.chips = c.chips /\ n.mounted = FALSE /\ n.frozen = f
      BY FrozenCall
    <3>4. CallTrue(c) /\ FormOf(c) = f
      BY <2>2, <3>1, <3>2 DEF Inv, CallsTrue, FormOf
    <3>5. CallTrue(n)'
      BY <1>1, <3>3, <3>4 DEF CallTrue, FormOf
    <3>6. calls'[s] = n
      BY <1>1, <2>2, <3>1, <3>2, <3>3
    <3> QED
      BY <3>5, <3>6
  <2>3. CASE calls[s] # Idle /\ ~calls[s].mounted
    <3>1. PICK c \in CallState : c = calls[s]
      BY <2>3, CallInFlight DEF Inv
    <3>2. CallTrue(c) /\ ~c.mounted /\ calls'[s] = c
      BY <1>1, <2>3, <3>1 DEF Inv, CallsTrue
    <3>3. CallTrue(c)'
      BY <1>1, <3>2 DEF CallTrue, FormOf
    <3> QED
      BY <3>2, <3>3
  <2> QED
    BY <2>1, <2>2, <2>3
<1>4. calls' \in [Slots -> {Idle} \cup CallState]
  BY <1>1, <1>3
<1>5. TypeOK'
  BY <1>1, <1>4, NewForms DEF Inv, TypeOK
<1>6. CallsTrue'
  BY <1>3, CallsTrueNext
<1>7. RoomsTrue'
  BY <1>1 DEF Inv, RoomsTrue, RoomTrue
<1> QED
  BY <1>5, <1>6, <1>7 DEF Inv

-----------------------------------------------------------------------------
(* The calls' steps                                                         *)

\* The other calls, when one call moves and the form is left alone.
LEMMA OtherCalls ==
  ASSUME Inv, NEW s \in Slots, NEW t \in Slots, t # s, LogGrows,
         form' = form, \A u \in Slots : u # s => calls'[u] = calls[u]
  PROVE  \/ calls'[t] = Idle
         \/ \E c \in CallState : calls'[t] = c /\ CallTrue(c)'
<1>1. CASE calls[t] = Idle
  BY <1>1
<1>2. CASE calls[t] # Idle
  <2>1. PICK c \in CallState : c = calls[t]
    BY <1>2, CallInFlight DEF Inv
  <2>2. CallTrue(c) /\ FormOf(c)' = FormOf(c)
    BY <1>2, <2>1 DEF Inv, CallsTrue, FormOf
  <2>3. CallTrue(c)'
    BY <2>2, KeptCall
  <2> QED
    BY <2>1, <2>3
<1> QED
  BY <1>1, <1>2

\* Create keeps the invariant if the form its call reads is the draft's.
LEMMA CreateKeeps ==
  ASSUME Inv, NEW s \in Slots, NEW c \in CallState, Create(s, c),
         LogGrows, log' \in Seq(Posts),
         UNCHANGED <<form, rooms, edits, picked, told, refused>>,
         NEW draft \in Form, c.id \in DOMAIN log', log'[c.id].draft = draft,
         c.length = Len(draft.images), c.chips = draft.chips,
         ~log'[c.id].edited =>
           /\ FormOf(c).text = draft.text /\ FormOf(c).address = draft.address
           /\ FormOf(c).coords = draft.coords /\ UrlsTrue(c.urls, draft)
  PROVE  Inv'
<1>1. CASE calls' = [calls EXCEPT ![s] = Idle] /\ queue' = queue
  <2>1. /\ calls' \in [Slots -> {Idle} \cup CallState]
        /\ calls'[s] = Idle /\ \A t \in Slots : t # s => calls'[t] = calls[t]
    BY <1>1, SetCall DEF Inv
  <2>2. TypeOK'
    BY <1>1, <2>1 DEF Inv, TypeOK
  <2>3. CallsTrue'
    BY <2>1, OtherCalls, CallsTrueNext
  <2>4. RoomsTrue'
    BY <1>1, KeptRoom DEF Inv, RoomsTrue
  <2> QED
    BY <2>2, <2>3, <2>4 DEF Inv
<1>2. ASSUME NEW r \in Room,
             calls' = [calls EXCEPT ![s] = [c EXCEPT !.at = "adding"]],
             queue' = queue \cup {r},
             r.id = c.id, r.chips = c.chips, r.images = c.urls,
             r.text = FormOf(c).text, r.address = FormOf(c).address,
             r.coords = FormOf(c).coords
      PROVE  Inv'
  <2>1. PICK a \in CallState :
          /\ a = [c EXCEPT !.at = "adding"] /\ a.at = "adding" /\ a.id = c.id
          /\ a.length = c.length /\ a.chips = c.chips /\ a.frozen = c.frozen
    BY AddingCall
  <2>2. /\ calls' \in [Slots -> {Idle} \cup CallState]
        /\ calls'[s] = a /\ \A t \in Slots : t # s => calls'[t] = calls[t]
    BY <1>2, <2>1, SetCall DEF Inv
  <2>3. CallTrue(a)'
    BY <2>1 DEF CallTrue
  <2>4. TypeOK'
    BY <1>2, <2>2 DEF Inv, TypeOK
  <2>5. CallsTrue'
    BY <2>2, <2>3, OtherCalls, CallsTrueNext
  <2>6. RoomTrue(r)'
    BY <1>2 DEF RoomTrue, FromDraft, UrlsTrue
  <2>7. RoomsTrue'
    BY <1>2, <2>6, KeptRoom DEF Inv, RoomsTrue
  <2> QED
    BY <2>4, <2>5, <2>7 DEF Inv
<1> QED
  BY <1>1, <1>2, CreateEffect DEF Inv

\* A call whose loop goes on: the list it reads is the draft's, because it has
\* the draft's length, or the landlord has edited the form.
LEMMA LoopKeeps ==
  ASSUME Inv, NEW s \in Slots, NEW c \in CallState, c.at = "uploading",
         CallTrue(c), Loop(s, c), UNCHANGED <<form, rooms, edits, picked, log, told, refused>>
  PROVE  Inv'
<1> DEFINE draft == log[c.id].draft
           list == FormOf(c).images
<1>1. draft \in Form /\ c.id \in DOMAIN log /\ LogGrows
  BY LogEntry DEF Inv, CallTrue, LogGrows
<1>2. /\ c.index \in 1..c.length /\ c.length = Len(draft.images)
      /\ c.length \in Nat /\ c.index \in Nat /\ c.chips = draft.chips
  BY CallFields DEF CallTrue
<1>3. list \in Seq(Photos) /\ FormOf(c) \in Form
  BY FormOfCall, FormFields DEF Inv
<1>4. CASE Len(list) # c.length
  <2>1. calls' = [calls EXCEPT ![s] = Idle] /\ queue' = queue
    BY <1>4 DEF Loop, End
  <2>2. /\ calls' \in [Slots -> {Idle} \cup CallState]
        /\ calls'[s] = Idle /\ \A t \in Slots : t # s => calls'[t] = calls[t]
    BY <2>1, SetCall DEF Inv
  <2>3. CallsTrue'
    BY <1>1, <2>2, OtherCalls, CallsTrueNext
  <2> QED
    BY <2>1, <2>2, <2>3 DEF Inv, TypeOK, RoomsTrue, RoomTrue
<1>5. ASSUME Len(list) = c.length, ~log[c.id].edited
      PROVE  /\ list = draft.images
             /\ FormOf(c).text = draft.text /\ FormOf(c).address = draft.address
             /\ FormOf(c).coords = draft.coords
  <2>1. list # <<>>
    BY <1>2, <1>3, <1>5
  <2> QED
    BY <1>5, <2>1 DEF CallTrue, Agrees
<1>6. CASE Len(list) = c.length /\ c.index = c.length
  <2>1. Create(s, c)
    BY <1>6 DEF Loop
  <2>2. log' \in Seq(Posts)
    BY DEF Inv, TypeOK
  <2>3. ~log[c.id].edited => UrlsTrue(c.urls, draft)
    BY DEF CallTrue
  <2> HIDE DEF draft, list
  <2>4. log'[c.id].draft = draft
    BY DEF draft
  <2> QED
    BY <1>1, <1>2, <1>5, <1>6, <2>1, <2>2, <2>3, <2>4, CreateKeeps
<1>7. CASE Len(list) = c.length /\ c.index # c.length
  <2>1. c.index + 1 \in 1..c.length /\ list[c.index + 1] \in Photos
    BY <1>2, <1>3, <1>7
  <2>2. PICK p \in Photos : p = list[c.index + 1]
    BY <2>1
  <2>3. PICK n \in CallState :
          /\ n = [c EXCEPT !.index = @ + 1, !.photo = <<p>>]
          /\ n.at = c.at /\ n.id = c.id /\ n.index = c.index + 1
          /\ n.length = c.length /\ n.photo = <<p>> /\ n.urls = c.urls
          /\ n.chips = c.chips /\ n.mounted = c.mounted /\ n.frozen = c.frozen
    BY NextPhoto
  <2>4. calls' = [calls EXCEPT ![s] = n] /\ queue' = queue
    BY <1>7, <2>2, <2>3 DEF Loop
  <2>5. /\ calls' \in [Slots -> {Idle} \cup CallState]
        /\ calls'[s] = n /\ \A t \in Slots : t # s => calls'[t] = calls[t]
    BY <2>4, SetCall DEF Inv
  <2>6. CallTrue(n)'
    <3>1. ~log[c.id].edited => p = draft.images[n.index]
      BY <1>5, <1>7, <2>2, <2>3
    <3>2. FormOf(n)' = FormOf(c)
      BY <2>3 DEF FormOf
    <3> QED
      BY <1>2, <2>1, <2>3, <3>1, <3>2 DEF CallTrue
  <2>7. CallsTrue'
    BY <1>1, <2>5, <2>6, OtherCalls, CallsTrueNext
  <2> QED
    BY <2>4, <2>5, <2>7 DEF Inv, TypeOK, RoomsTrue, RoomTrue
<1> QED
  BY <1>4, <1>6, <1>7

LEMMA UploadedKeeps ==
  ASSUME Inv, NEW s \in Slots, Uploaded(s)
  PROVE  Inv'
<1>1. calls[s] # Idle /\ calls[s].at = "uploading"
  BY DEF Uploaded, Idle
<1>2. PICK c \in CallState : c = calls[s] /\ c.at = "uploading" /\ CallTrue(c)
  BY <1>1, CallInFlight DEF Inv, CallsTrue
<1>3. PICK urls \in {c.urls, c.urls \cup {<<c.index, c.photo[1]>>}} :
        Loop(s, [c EXCEPT !.urls = urls])
  BY <1>2 DEF Uploaded
<1>4. c.index \in Nat /\ c.photo[1] \in Photos /\ c.urls \subseteq Nat \X Photos
  BY <1>2, CallFields DEF CallTrue
<1>5. urls \in SUBSET (Nat \X Photos)
  BY <1>3, <1>4
<1>6. PICK n \in CallState :
        /\ n = [c EXCEPT !.urls = urls]
        /\ n.at = c.at /\ n.id = c.id /\ n.index = c.index
        /\ n.length = c.length /\ n.photo = c.photo /\ n.urls = urls
        /\ n.chips = c.chips /\ n.mounted = c.mounted /\ n.frozen = c.frozen
  BY ZenonT(30), <1>5, MoreUrls
<1>7. CallTrue(n)
  <2>1. ASSUME ~log[c.id].edited
        PROVE  UrlsTrue(urls, log[c.id].draft)
    <3>1. /\ c.photo[1] = log[c.id].draft.images[c.index]
          /\ UrlsTrue(c.urls, log[c.id].draft)
      BY <1>2, <2>1 DEF CallTrue
    <3>2. c.index \in DOMAIN log[c.id].draft.images
      BY <1>2, LogEntry, FormFields DEF Inv, CallTrue
    <3> QED
      BY <1>3, <3>1, <3>2 DEF UrlsTrue
  <2>2. FormOf(n) = FormOf(c)
    BY <1>6 DEF FormOf
  <2> QED
    BY <1>2, <1>6, <2>1, <2>2 DEF CallTrue
<1> QED
  BY <1>2, <1>3, <1>6, <1>7, LoopKeeps DEF Uploaded

\* A tap's entry comes last, and leaves the drafts before it.
LEMMA PostLog ==
  ASSUME Inv, NEW s \in Slots, Post(s)
  PROVE  /\ LogGrows /\ log' \in Seq(Posts)
         /\ Len(log) + 1 \in DOMAIN log' /\ log'[Len(log) + 1].draft = form
<1> DEFINE old == [i \in DOMAIN log |-> [log[i] EXCEPT !.disturbed = @ \/ i \in Open]]
           entry == [draft |-> form, edited |-> FALSE, disturbed |-> Open # {}]
<1>1. log' = Append(old, entry)
  BY DEF Post
<1>2. log \in Seq(Posts) /\ Len(log) \in Nat /\ DOMAIN log = 1..Len(log) /\ form \in Form
  BY DEF Inv, TypeOK
<1>3. \A i \in DOMAIN log : log[i] \in Posts
  BY <1>2, MemberOfSeq
<1>4. old \in Seq(Posts) /\ Len(old) = Len(log)
  <2>1. old \in [DOMAIN log -> Posts]
    BY <1>3 DEF Posts
  <2> HIDE DEF old
  <2> QED
    BY <1>2, <2>1, MappedSeq
<1>5. entry \in Posts /\ entry.draft = form
  BY <1>2 DEF Posts
<1>6. \A i \in DOMAIN log : old[i].draft = log[i].draft /\ old[i].edited = log[i].edited
  BY <1>3 DEF Posts
<1> HIDE DEF old, entry
<1>7. /\ log' \in Seq(Posts) /\ Len(log) + 1 \in DOMAIN log'
      /\ log'[Len(log) + 1].draft = form
      /\ \A i \in DOMAIN log : i \in DOMAIN log' /\ log'[i] = old[i]
  BY <1>1, <1>2, <1>4, <1>5
<1> QED
  BY <1>6, <1>7 DEF LogGrows

\* A tap: the draft is the form, and the call's first photo the draft's first.
LEMMA PostKeeps ==
  ASSUME Inv, NEW s \in Slots, Post(s)
  PROVE  Inv'
<1> DEFINE id == Len(log) + 1
           c == [at |-> "uploading", id |-> id, index |-> 0, length |-> Len(form.images),
                 photo |-> <<>>, urls |-> {}, chips |-> form.chips, mounted |-> TRUE,
                 frozen |-> NewForm]
<1>1. Len(log) < MaxPosts /\ UNCHANGED <<form, rooms, edits, picked, told, refused>>
  BY DEF Post
<1>2. /\ form \in Form /\ form.images \in Seq(Photos) /\ Len(form.images) \in Nat
      /\ form.chips \subseteq Amenities
  BY FormFields DEF Inv, TypeOK
<1>3. log \in Seq(Posts) /\ Len(log) \in Nat /\ DOMAIN log = 1..Len(log)
  BY DEF Inv, TypeOK
<1>7. c \in CallState
  <2>1. id \in 1..MaxPosts
    BY <1>1, <1>3, BoundsAssumption
  <2>2. NewForm \in Form
    BY NewForms
  <2>3. <<>> \in Seq(Photos)
    OBVIOUS
  <2> HIDE DEF id
  <2> QED
    BY <1>2, <2>1, <2>2, <2>3 DEF CallState
<1>8. log' \in Seq(Posts) /\ id \in DOMAIN log' /\ log'[id].draft = form
  BY PostLog
<1>9. LogGrows
  BY PostLog
<1>10. CASE c.length = 0 /\ Create(s, c)
  <2>1. FormOf(c) = form
    BY DEF FormOf
  <2>2. c.id = id /\ c.length = Len(form.images) /\ c.chips = form.chips /\ c.urls = {}
    OBVIOUS
  <2>3. UrlsTrue(c.urls, form)
    BY <2>2 DEF UrlsTrue
  <2> HIDE DEF c, id
  <2> QED
    BY <1>1, <1>2, <1>7, <1>8, <1>9, <1>10, <2>1, <2>2, <2>3, CreateKeeps
<1>11. CASE /\ c.length > 0 /\ queue' = queue
            /\ calls' = [calls EXCEPT ![s] =
                 [c EXCEPT !.index = 1, !.photo = <<form.images[1]>>]]
  <2> DEFINE n == [c EXCEPT !.index = 1, !.photo = <<form.images[1]>>]
  <2>1. <<form.images[1]>> \in Seq(Photos) /\ Len(<<form.images[1]>>) = 1
    BY <1>2, <1>11
  <2>2. /\ n.at = "uploading" /\ n.id = id /\ n.index = 1
        /\ n.length = Len(form.images) /\ n.photo = <<form.images[1]>>
        /\ n.urls = {} /\ n.chips = form.chips /\ n.mounted
    OBVIOUS
  <2>3. n \in CallState /\ Len(n.photo) = 1
    <3> HIDE DEF c
    <3> QED
      BY <1>7, <2>1 DEF CallState
  <2>3a. n.index \in 1..n.length
    BY <1>2, <1>11, <2>2
  <2> HIDE DEF n, c, id
  <2>4. PICK m \in CallState : m = n
    BY <2>3
  <2>5. /\ calls' \in [Slots -> {Idle} \cup CallState]
        /\ calls'[s] = m /\ \A t \in Slots : t # s => calls'[t] = calls[t]
    BY <1>11, <2>4, SetCall DEF Inv, n
  <2>6. CallTrue(m)'
    <3>1. FormOf(m)' = form
      BY <1>1, <2>2, <2>4 DEF FormOf
    <3>2. Agrees(form, form) /\ UrlsTrue({}, form)
      BY DEF Agrees, UrlsTrue
    <3> QED
      BY <1>8, <2>2, <2>3, <2>4, <2>3a, <3>1, <3>2 DEF CallTrue
  <2>7. CallsTrue'
    BY <1>1, <1>9, <2>5, <2>6, OtherCalls, CallsTrueNext
  <2>8. RoomsTrue'
    BY <1>1, <1>9, <1>11, KeptRoom DEF Inv, RoomsTrue
  <2>9. TypeOK'
    BY <1>1, <1>8, <1>11, <2>5 DEF Inv, TypeOK
  <2> QED
    BY <2>7, <2>8, <2>9 DEF Inv
<1> QED
  BY <1>10, <1>11 DEF Post

LEMMA CommitKeeps ==
  ASSUME Inv, Commit
  PROVE  Inv'
<1>1. PICK r \in queue :
        /\ queue' = queue \ {r} /\ UNCHANGED <<form, calls, edits, picked, log, told>>
        /\ \/ rooms' = rooms \cup {r} /\ UNCHANGED refused
           \/ refused' = refused \cup {r.id} /\ UNCHANGED rooms
  BY DEF Commit
<1>2. r \in Room /\ r.id \in 1..MaxPosts
  BY DEF Inv, TypeOK, Room
<1>3. TypeOK'
  BY <1>1, <1>2 DEF Inv, TypeOK
<1>4. RoomsTrue'
  BY <1>1 DEF Inv, RoomsTrue, RoomTrue
<1>5. CallsTrue'
  BY <1>1 DEF Inv, CallsTrue, CallTrue, FormOf
<1> QED
  BY <1>3, <1>4, <1>5 DEF Inv

\* The reset empties the list of photos of the calls that hold the form.
LEMMA AddedKeeps ==
  ASSUME Inv, NEW s \in Slots, Added(s)
  PROVE  Inv'
<1>1. /\ calls' = [calls EXCEPT ![s] = Idle] /\ UNCHANGED <<queue, rooms, edits, picked, log, refused>>
      /\ calls[s] # Idle
  BY DEF Added, Idle
<1>2. /\ calls' \in [Slots -> {Idle} \cup CallState]
      /\ calls'[s] = Idle /\ \A t \in Slots : t # s => calls'[t] = calls[t]
  BY <1>1, SetCall DEF Inv
<1>3. /\ form' \in Form /\ told' \subseteq 1..MaxPosts
      /\ form' = form \/ form'.images = <<>>
  <2>1. CASE calls[s].mounted
    <3>1. /\ told' = told \cup {calls[s].id}
          /\ form' = [NewForm EXCEPT !.text = "untitled", !.coords = form.coords]
      BY <2>1 DEF Added
    <3>2. calls[s].id \in 1..MaxPosts /\ form \in Form
      BY <1>1, CallInFlight, CallFields DEF Inv, TypeOK
    <3> QED
      BY <3>1, <3>2, NewForms DEF Inv, TypeOK
  <2>2. CASE ~calls[s].mounted
    BY <2>2 DEF Added, Inv, TypeOK
  <2> QED
    BY <2>1, <2>2
<1>4. LogGrows
  BY <1>1 DEF LogGrows
<1>5. ASSUME NEW t \in Slots, calls'[t] # Idle
      PROVE  \E c \in CallState : calls'[t] = c /\ CallTrue(c)'
  <2>1. PICK c \in CallState : c = calls[t] /\ calls'[t] = c
    BY <1>2, <1>5, CallInFlight DEF Inv
  <2>2. CallTrue(c)
    BY <1>2, <1>5, <2>1 DEF Inv, CallsTrue
  <2>3. FormOf(c)' = FormOf(c) \/ FormOf(c)'.images = <<>>
    BY <1>3 DEF FormOf
  <2>4. CallTrue(c)'
    BY <1>4, <2>2, <2>3, KeptCall
  <2> QED
    BY <2>1, <2>4
<1>6. CallsTrue'
  BY <1>5, CallsTrueNext
<1>7. RoomsTrue'
  BY <1>1 DEF Inv, RoomsTrue, RoomTrue
<1> QED
  BY <1>1, <1>2, <1>3, <1>6, <1>7 DEF Inv, TypeOK

LEMMA RestartKeeps ==
  ASSUME Inv, Restart
  PROVE  Inv'
<1>1. /\ form' = NewForm /\ calls' = [s \in Slots |-> Idle]
      /\ UNCHANGED <<queue, rooms, edits, picked, told, refused>>
      /\ log' = [i \in DOMAIN log |-> [log[i] EXCEPT !.disturbed =
                   @ \/ \E s \in Slots : calls[s] # Idle /\ calls[s].id = i]]
  BY DEF Restart
<1>2. \A i \in DOMAIN log : log[i] \in Posts
  BY MemberOfSeq DEF Inv, TypeOK
<1>3. log' \in [DOMAIN log -> Posts]
  BY <1>1, <1>2 DEF Posts
<1>4. log' \in Seq(Posts)
  BY <1>3, MappedSeq DEF Inv, TypeOK
<1>5. LogGrows
  BY <1>1, <1>2 DEF LogGrows, Posts
<1>6. TypeOK'
  BY <1>1, <1>4, NewForms DEF Inv, TypeOK
<1>7. CallsTrue'
  BY <1>1 DEF CallsTrue
<1>8. RoomsTrue'
  BY <1>1, <1>5, KeptRoom DEF Inv, RoomsTrue
<1> QED
  BY <1>6, <1>7, <1>8 DEF Inv

LEMMA NextInv == Inv /\ [Next]_vars => Inv'
<1> SUFFICES ASSUME Inv, [Next]_vars PROVE Inv'
  OBVIOUS
<1>1. CASE UNCHANGED vars
  BY <1>1 DEF vars, Inv, TypeOK, CallsTrue, CallTrue, FormOf, RoomsTrue, RoomTrue
<1>2. CASE Next
  BY <1>2, EditStepKeeps, ReopenKeeps, CommitKeeps, RestartKeeps, PostKeeps,
     UploadedKeeps, AddedKeeps DEF Next
<1> QED
  BY <1>1, <1>2

-----------------------------------------------------------------------------
\* Forms, calls, rooms and the log keep their types: a room always has a
\* place, a text that parses, and photos of this app.
THEOREM TypeCorrect == Spec => []TypeOK
<1>1. Inv => TypeOK
  BY DEF Inv
<1> QED
  BY <1>1, InitInv, NextInv, PTL DEF Spec

\* Unless the landlord edits the form meanwhile, a room is the form that was
\* posted, with any number of calls that overlap on the form and reset it.
THEOREM PostedAsDrafted == Spec => []PostIsDraft
<1>1. Inv => PostIsDraft
  BY DEF Inv, RoomsTrue, RoomTrue, FromDraft, UrlsTrue, PostIsDraft
<1> QED
  BY <1>1, InitInv, NextInv, PTL DEF Spec

-----------------------------------------------------------------------------
(* The location of a room                                                   *)

\* Address and coordinates that one map page returned, and coordinates that one
\* returned but whose address is gone.
OfPick(x, P) == [address |-> x.address, place |-> x.coords] \in P
Cleared(x, P) == x.address = NotSet /\ \E q \in P : q.place = x.coords

\* Where a form says the room is: nowhere yet, where a map page has put it, or
\* nowhere after a reset, which Added does only when it announces a room.
Located(f) ==
  \/ f.address = NotSet /\ f.coords = NotSet
  \/ OfPick(f, picked)
  \/ Cleared(f, picked) /\ told # {}

FormsLocated ==
  /\ Located(form)
  /\ \A s \in Slots : calls[s] # Idle => Located(calls[s].frozen)

\* A tap has at most one call in flight, and is announced when it ends.
OneCallEach ==
  /\ told \subseteq DOMAIN log
  /\ \A s \in Slots : calls[s] # Idle =>
       /\ calls[s].id \notin told
       /\ \A t \in Slots : calls[t] # Idle /\ t # s => calls[t].id # calls[s].id

\* The location of a room is what one map page returned, address and coordinates
\* together: never one pick's address beside another's coordinates.  "Not Set"
\* stands for a picked place only in a room that was made after another one had
\* been announced and had taken the address off the form.
AddressOrReset ==
  \A r \in queue \cup rooms :
    OfPick(r, picked) \/ (Cleared(r, picked) /\ told \ {r.id} # {})

LocInv == FormsLocated /\ OneCallEach /\ AddressOrReset

\* What Create, Loop and Post have in common: a call c takes the place of the
\* one in slot s or ends it, and may add a room with the location it reads.
Moves(s, c) ==
  /\ \A t \in Slots : t # s => calls'[t] = calls[t]
  /\ calls'[s] # Idle => calls'[s].id = c.id /\ calls'[s].frozen = c.frozen
  /\ \A r \in queue' : r \in queue \/
       (/\ r.id = c.id /\ r.coords # NotSet
        /\ r.address = FormOf(c).address /\ r.coords = FormOf(c).coords)

LEMMA CreateMoves ==
  ASSUME TypeOK, NEW s \in Slots, NEW c \in CallState, Create(s, c)
  PROVE  Moves(s, c)
<1>1. CASE calls' = [calls EXCEPT ![s] = Idle] /\ queue' = queue
  <2>1. /\ calls'[s] = Idle /\ \A t \in Slots : t # s => calls'[t] = calls[t]
    BY <1>1, SetCall
  <2> QED
    BY <1>1, <2>1 DEF Moves
<1>2. ASSUME NEW r \in Room,
             calls' = [calls EXCEPT ![s] = [c EXCEPT !.at = "adding"]],
             queue' = queue \cup {r}, r.id = c.id,
             r.address = FormOf(c).address, r.coords = FormOf(c).coords
      PROVE  Moves(s, c)
  <2>1. PICK a \in CallState :
          /\ a = [c EXCEPT !.at = "adding"] /\ a.at = "adding" /\ a.id = c.id
          /\ a.length = c.length /\ a.chips = c.chips /\ a.frozen = c.frozen
    BY AddingCall
  <2>2. /\ calls'[s] = a /\ \A t \in Slots : t # s => calls'[t] = calls[t]
    BY <1>2, <2>1, SetCall
  <2>3. r.coords # NotSet
    BY NotSetAssumption DEF Room
  <2> QED
    BY <1>2, <2>1, <2>2, <2>3 DEF Moves
<1> QED
  BY <1>1, <1>2, CreateEffect

LEMMA LoopMoves ==
  ASSUME TypeOK, NEW s \in Slots, NEW c \in CallState,
         c.index \in 0..c.length, Loop(s, c)
  PROVE  Moves(s, c)
<1> DEFINE list == FormOf(c).images
<1>1. CASE Len(list) # c.length
  <2>1. calls' = [calls EXCEPT ![s] = Idle] /\ queue' = queue
    BY <1>1 DEF Loop, End
  <2>2. calls'[s] = Idle /\ \A t \in Slots : t # s => calls'[t] = calls[t]
    BY <2>1, SetCall
  <2> QED
    BY <2>1, <2>2 DEF Moves
<1>2. CASE Len(list) = c.length /\ c.index = c.length
  BY <1>2, CreateMoves DEF Loop
<1>3. CASE Len(list) = c.length /\ c.index # c.length
  <2>1. list \in Seq(Photos) /\ c.length \in Nat
    BY FormOfCall, FormFields, CallFields
  <2>2. PICK p \in Photos : p = list[c.index + 1]
    BY <1>3, <2>1
  <2>3. PICK n \in CallState :
          /\ n = [c EXCEPT !.index = @ + 1, !.photo = <<p>>]
          /\ n.at = c.at /\ n.id = c.id /\ n.index = c.index + 1
          /\ n.length = c.length /\ n.photo = <<p>> /\ n.urls = c.urls
          /\ n.chips = c.chips /\ n.mounted = c.mounted /\ n.frozen = c.frozen
    BY NextPhoto
  <2>4. calls' = [calls EXCEPT ![s] = n] /\ queue' = queue
    BY <1>3, <2>2, <2>3 DEF Loop
  <2>5. calls'[s] = n /\ \A t \in Slots : t # s => calls'[t] = calls[t]
    BY <2>4, SetCall
  <2> QED
    BY <2>3, <2>4, <2>5 DEF Moves
<1> QED
  BY <1>1, <1>2, <1>3

\* A moving call that holds a number of its own keeps the invariant.
LEMMA MoveLocated ==
  ASSUME LocInv, NEW s \in Slots, NEW c \in CallState, Moves(s, c),
         UNCHANGED <<form, rooms, picked, told>>, DOMAIN log \subseteq DOMAIN log',
         Located(c.frozen), c.id \notin told,
         \A t \in Slots : calls[t] # Idle /\ t # s => calls[t].id # c.id
  PROVE  LocInv'
<1>1. Located(FormOf(c))
  BY DEF LocInv, FormsLocated, FormOf
<1>2. FormsLocated'
  <2>1. \A f : Located(f)' <=> Located(f)
    BY DEF Located
  <2> QED
    BY <2>1 DEF LocInv, FormsLocated, Moves
<1>3. OneCallEach'
  BY DEF LocInv, OneCallEach, Moves
<1>4. AddressOrReset'
  <2>1. ASSUME NEW r, r \in queue' \cup rooms'
        PROVE  OfPick(r, picked) \/ (Cleared(r, picked) /\ told \ {r.id} # {})
    <3>1. CASE r \in queue \cup rooms
      BY <3>1 DEF LocInv, AddressOrReset
    <3>2. CASE /\ r.id = c.id /\ r.coords # NotSet
               /\ r.address = FormOf(c).address /\ r.coords = FormOf(c).coords
      BY <1>1, <3>2 DEF Located, OfPick, Cleared
    <3> QED
      BY <2>1, <3>1, <3>2 DEF Moves
  <2> QED
    BY <2>1 DEF AddressOrReset
<1> QED
  BY <1>2, <1>3, <1>4 DEF LocInv

LEMMA InitLocated == Init => LocInv
BY DEF Init, LocInv, FormsLocated, OneCallEach, AddressOrReset, Located, NewForm

LEMMA EditLocated ==
  ASSUME Inv, LocInv, EditStep
  PROVE  LocInv'
<1>1. form \in Form /\ Located(form)
  BY DEF Inv, TypeOK, LocInv, FormsLocated
<1>2. \/ form'.address = form.address /\ form'.coords = form.coords
      \/ OfPick(form', picked')
  <2>1. CASE \E r \in Pick : PickLocation(r)
    <3>1. PICK r \in Pick : PickLocation(r)
      BY <2>1
    <3>2. form'.address = r.address /\ form'.coords = r.place /\ r \in picked'
      BY <1>1, <3>1 DEF PickLocation, Edit, Form
    <3>3. [address |-> r.address, place |-> r.place] = r
      BY DEF Pick
    <3> QED
      BY <3>2, <3>3 DEF OfPick
  <2>2. CASE ~\E r \in Pick : PickLocation(r)
    BY <1>1, <2>2 DEF EditStep, Type, ToggleChip, AddPhoto, RemovePhoto, Edit, Form
  <2> QED
    BY <2>1, <2>2
<1>3. /\ UNCHANGED <<calls, queue, rooms, told>> /\ DOMAIN log' = DOMAIN log
      /\ picked \subseteq picked'
  BY DEF EditStep, Type, ToggleChip, PickLocation, AddPhoto, RemovePhoto, Edit
<1>4. ASSUME NEW x
      PROVE  /\ OfPick(x, picked) => OfPick(x, picked')
             /\ Cleared(x, picked) => Cleared(x, picked')
  BY <1>3 DEF OfPick, Cleared
<1>5. FormsLocated'
  <2>1. Located(form)'
    BY <1>1, <1>2, <1>3, <1>4 DEF Located, OfPick, Cleared
  <2>2. ASSUME NEW f, Located(f) PROVE Located(f)'
    BY <1>3, <1>4, <2>2 DEF Located
  <2> QED
    BY <1>3, <2>1, <2>2 DEF LocInv, FormsLocated
<1>6. OneCallEach' /\ AddressOrReset'
  BY <1>3, <1>4 DEF LocInv, OneCallEach, AddressOrReset
<1> QED
  BY <1>5, <1>6 DEF LocInv

LEMMA ReopenLocated ==
  ASSUME Inv, LocInv, Reopen
  PROVE  LocInv'
<1>1. /\ form' = NewForm /\ UNCHANGED <<queue, rooms, picked, log, told>>
      /\ calls' = [s \in Slots |->
           IF calls[s] # Idle /\ calls[s].mounted
           THEN [calls[s] EXCEPT !.mounted = FALSE, !.frozen = form] ELSE calls[s]]
  BY DEF Reopen
<1>2. Located(form) /\ Located(NewForm)
  BY DEF LocInv, FormsLocated, Located, NewForm
<1>3. ASSUME NEW s \in Slots
      PROVE  /\ calls'[s] # Idle => calls[s] # Idle
             /\ calls[s] # Idle => /\ calls'[s].id = calls[s].id
                                   /\ Located(calls'[s].frozen)
  <2>1. CASE calls[s] # Idle /\ calls[s].mounted
    <3>1. PICK c \in CallState : c = calls[s]
      BY <2>1, CallInFlight DEF Inv
    <3>2. calls'[s] = [c EXCEPT !.mounted = FALSE, !.frozen = form]
      BY <1>1, <2>1, <3>1
    <3>3. calls'[s].id = c.id /\ calls'[s].frozen = form
      BY <3>2 DEF CallState
    <3> QED
      BY <1>2, <2>1, <3>1, <3>3
  <2>2. CASE ~(calls[s] # Idle /\ calls[s].mounted)
    BY <1>1, <2>2 DEF LocInv, FormsLocated
  <2> QED
    BY <2>1, <2>2
<1>4. FormsLocated'
  <2>1. Located(form)'
    BY <1>1, <1>2 DEF Located
  <2>2. ASSUME NEW s \in Slots, calls'[s] # Idle PROVE Located(calls[s].frozen)'
    <3>1. Located(calls'[s].frozen)
      BY <1>3, <2>2
    <3> QED
      BY <1>1, <3>1 DEF Located
  <2> QED
    BY <2>1, <2>2 DEF FormsLocated
<1>5. OneCallEach'
  <2>1. \A s \in Slots : calls'[s] # Idle => calls[s] # Idle /\ calls'[s].id = calls[s].id
    BY <1>3
  <2>2. ASSUME NEW s \in Slots, calls'[s] # Idle
        PROVE  /\ calls'[s].id \notin told
               /\ \A t \in Slots : calls'[t] # Idle /\ t # s => calls'[t].id # calls'[s].id
    <3>1. calls[s] # Idle /\ calls'[s].id = calls[s].id
      BY <2>1, <2>2
    <3> QED
      BY <2>1, <3>1 DEF LocInv, OneCallEach
  <2>3. told \subseteq DOMAIN log
    BY DEF LocInv, OneCallEach
  <2> QED
    BY <1>1, <2>2, <2>3 DEF OneCallEach
<1>6. AddressOrReset'
  BY <1>1 DEF LocInv, AddressOrReset
<1> QED
  BY <1>4, <1>5, <1>6 DEF LocInv

LEMMA PostLocated ==
  ASSUME Inv, LocInv, NEW s \in Slots, Post(s)
  PROVE  LocInv'
<1> DEFINE id == Len(log) + 1
           c == [at |-> "uploading", id |-> id, index |-> 0, length |-> Len(form.images),
                 photo |-> <<>>, urls |-> {}, chips |-> form.chips, mounted |-> TRUE,
                 frozen |-> NewForm]
<1>1. Len(log) < MaxPosts /\ UNCHANGED <<form, rooms, picked, told>>
  BY DEF Post
<1>2. /\ form.images \in Seq(Photos) /\ Len(form.images) \in Nat
      /\ form.chips \subseteq Amenities
  BY FormFields DEF Inv, TypeOK
<1>3. Len(log) \in Nat /\ DOMAIN log = 1..Len(log)
  BY DEF Inv, TypeOK
<1>4. DOMAIN log \subseteq DOMAIN log'
  <2>1. LogGrows
    BY PostLog
  <2> QED
    BY <2>1 DEF LogGrows
<1>5. c \in CallState
  <2>1. id \in 1..MaxPosts
    BY <1>1, <1>3, BoundsAssumption
  <2>2. NewForm \in Form
    BY NewForms
  <2>3. <<>> \in Seq(Photos)
    OBVIOUS
  <2> HIDE DEF id
  <2> QED
    BY <1>2, <2>1, <2>2, <2>3 DEF CallState
<1>6. c.id = id /\ c.frozen = NewForm
  OBVIOUS
<1>7. Located(NewForm)
  BY DEF Located, NewForm
<1>8. \A t \in Slots : calls[t] # Idle => calls[t].id \in DOMAIN log
  BY DEF Inv, CallsTrue, CallTrue
<1>9. c.id \notin told /\ \A t \in Slots : calls[t] # Idle => calls[t].id # c.id
  <2>1. id \notin DOMAIN log
    BY <1>3
  <2> HIDE DEF id, c
  <2> QED
    BY <1>6, <1>8, <2>1 DEF LocInv, OneCallEach
<1>10. PICK k \in CallState : k = c
  BY <1>5
<1>11. Moves(s, k)
  <2>1. CASE Create(s, c)
    <3> HIDE DEF c
    <3> QED
      BY <1>10, <2>1, CreateMoves DEF Inv
  <2>2. CASE /\ c.length > 0 /\ queue' = queue
             /\ calls' = [calls EXCEPT ![s] =
                  [c EXCEPT !.index = 1, !.photo = <<form.images[1]>>]]
    <3> DEFINE m == [c EXCEPT !.index = 1, !.photo = <<form.images[1]>>]
    <3>1. <<form.images[1]>> \in Seq(Photos)
      BY <1>2, <2>2
    <3> HIDE DEF c
    <3>2. m \in CallState /\ m.id = c.id /\ m.frozen = c.frozen
      BY <1>5, <3>1 DEF CallState
    <3> HIDE DEF m
    <3>3. PICK n \in CallState : n = m
      BY <3>2
    <3>4. calls'[s] = n /\ \A t \in Slots : t # s => calls'[t] = calls[t]
      BY <2>2, <3>3, SetCall DEF Inv, m
    <3> QED
      BY <1>10, <2>2, <3>2, <3>3, <3>4 DEF Moves
  <2> QED
    BY <2>1, <2>2 DEF Post
<1> HIDE DEF c
<1>12. Located(k.frozen) /\ k.id \notin told
       /\ \A t \in Slots : calls[t] # Idle /\ t # s => calls[t].id # k.id
  BY <1>6, <1>7, <1>9, <1>10
<1> QED
  BY <1>1, <1>4, <1>11, <1>12, MoveLocated

LEMMA UploadedLocated ==
  ASSUME Inv, LocInv, NEW s \in Slots, Uploaded(s)
  PROVE  LocInv'
<1>1. calls[s] # Idle /\ calls[s].at = "uploading"
  BY DEF Uploaded, Idle
<1>2. PICK c \in CallState : c = calls[s] /\ c.at = "uploading" /\ CallTrue(c)
  BY <1>1, CallInFlight DEF Inv, CallsTrue
<1>3. PICK urls \in {c.urls, c.urls \cup {<<c.index, c.photo[1]>>}} :
        Loop(s, [c EXCEPT !.urls = urls])
  BY <1>2 DEF Uploaded
<1>4. c.index \in Nat /\ c.photo[1] \in Photos /\ c.urls \subseteq Nat \X Photos
  BY <1>2, CallFields DEF CallTrue
<1>5. urls \in SUBSET (Nat \X Photos)
  BY <1>3, <1>4
<1>6. PICK n \in CallState :
        /\ n = [c EXCEPT !.urls = urls]
        /\ n.at = c.at /\ n.id = c.id /\ n.index = c.index
        /\ n.length = c.length /\ n.photo = c.photo /\ n.urls = urls
        /\ n.chips = c.chips /\ n.mounted = c.mounted /\ n.frozen = c.frozen
  BY ZenonT(30), <1>5, MoreUrls
<1>7. n.index \in 0..n.length
  BY <1>2, <1>6, CallFields DEF CallTrue
<1>8. Moves(s, n)
  BY <1>3, <1>6, <1>7, LoopMoves DEF Inv
<1>9. UNCHANGED <<form, rooms, picked, told, log>>
  BY DEF Uploaded
<1>10. Located(n.frozen) /\ n.id \notin told
       /\ \A t \in Slots : calls[t] # Idle /\ t # s => calls[t].id # n.id
  BY <1>1, <1>2, <1>6 DEF LocInv, FormsLocated, OneCallEach
<1> QED
  BY <1>8, <1>9, <1>10, MoveLocated

LEMMA CommitLocated ==
  ASSUME LocInv, Commit
  PROVE  LocInv'
<1>1. /\ UNCHANGED <<form, calls, picked, log, told>>
      /\ queue' \cup rooms' \subseteq queue \cup rooms
  BY DEF Commit
<1> QED
  BY <1>1 DEF LocInv, FormsLocated, Located, OneCallEach, AddressOrReset

\* The reset takes the address off the form, and tells of a room.
LEMMA AddedLocated ==
  ASSUME Inv, LocInv, NEW s \in Slots, Added(s)
  PROVE  LocInv'
<1>1. /\ calls' = [calls EXCEPT ![s] = Idle] /\ UNCHANGED <<queue, rooms, picked, log>>
      /\ calls[s] # Idle
  BY DEF Added, Idle
<1>2. calls'[s] = Idle /\ \A t \in Slots : t # s => calls'[t] = calls[t]
  BY <1>1, SetCall DEF Inv
<1>3. calls[s].id \in DOMAIN log
  BY <1>1 DEF Inv, CallsTrue, CallTrue
<1>4. /\ told \subseteq told' /\ told' \subseteq told \cup {calls[s].id}
      /\ \/ form' = form
         \/ form'.address = NotSet /\ form'.coords = form.coords /\ told' # {}
  BY DEF Added, NewForm
<1>5. FormsLocated'
  <2>1. Located(form)'
    BY <1>1, <1>4 DEF LocInv, FormsLocated, Located, OfPick, Cleared
  <2>2. ASSUME NEW f, Located(f) PROVE Located(f)'
    BY <1>1, <1>4, <2>2 DEF Located
  <2> QED
    BY <1>2, <2>1, <2>2 DEF LocInv, FormsLocated
<1>6. OneCallEach'
  BY <1>1, <1>2, <1>3, <1>4 DEF LocInv, OneCallEach
<1>7. AddressOrReset'
  BY <1>1, <1>4 DEF LocInv, AddressOrReset
<1> QED
  BY <1>5, <1>6, <1>7 DEF LocInv

LEMMA RestartLocated ==
  ASSUME LocInv, Restart
  PROVE  LocInv'
<1>1. /\ form' = NewForm /\ calls' = [s \in Slots |-> Idle]
      /\ UNCHANGED <<queue, rooms, picked, told>> /\ DOMAIN log' = DOMAIN log
  BY DEF Restart
<1> QED
  BY <1>1 DEF LocInv, FormsLocated, Located, OneCallEach, AddressOrReset, NewForm

LEMMA NextLocated == Inv /\ LocInv /\ [Next]_vars => LocInv'
<1> SUFFICES ASSUME Inv, LocInv, [Next]_vars PROVE LocInv'
  OBVIOUS
<1>1. CASE UNCHANGED vars
  BY <1>1 DEF vars, LocInv, FormsLocated, Located, OneCallEach, AddressOrReset
<1>2. CASE Next
  BY <1>2, EditLocated, ReopenLocated, CommitLocated, RestartLocated, PostLocated,
     UploadedLocated, AddedLocated DEF Next
<1> QED
  BY <1>1, <1>2

\* AddressIsLocation fails in one way only: a room that was made on a form that
\* an announced room had reset says "Location: Not Set" beside the coordinates
\* that the reset left.  Every other room has the address and the coordinates of
\* one pick, with whatever error text or late coordinates the map page returned.
THEOREM AddressTrueOrReset == Spec => []AddressOrReset
<1>1. LocInv => AddressOrReset
  BY DEF LocInv
<1> QED
  BY <1>1, InitInv, NextInv, InitLocated, NextLocated, PTL DEF Spec
=============================================================================
