-------------------------- MODULE Preferences_proofs --------------------------
(***************************************************************************)
(* Proofs about Preferences, for any number of phones and places, any      *)
(* rooms and choices, and all bounds.                                      *)
(***************************************************************************)
EXTENDS Preferences, TLAPS, FiniteSetTheorems, SequenceTheorems

\* The list shown on a home page is a list of the rooms that were read.
LEMMA ListOfRooms ==
  ASSUME NEW pref, NEW seen \in SUBSET Rooms,
         NEW list \in Recommendations(pref, seen)
  PROVE  list \in Seq(Rooms)
<1> DEFINE passing == {r \in seen : Passes(pref, r)}
           size == Cardinality(passing)
<1>1. size \in Nat
  <2>1. IsFiniteSet(Rooms) /\ passing \in SUBSET Rooms
    BY RoomsAssumption
  <2>2. IsFiniteSet(passing)
    BY <2>1, FS_Subset
  <2> QED
    BY <2>2, FS_CardinalityType
<1>2. PICK s \in [1..size -> passing] : list = SubSeq(s, 1, Lesser(size, Limit))
  BY DEF Recommendations
<1>3. /\ Lesser(size, Limit) \in Int
      /\ \A i \in 1..Lesser(size, Limit) : s[i] \in Rooms
  <2>1. Lesser(size, Limit) \in Int /\ Lesser(size, Limit) <= size
    BY <1>1, RoomsAssumption DEF Lesser
  <2>2. \A i \in 1..Lesser(size, Limit) : i \in 1..size
    BY <1>1, <2>1
  <2> QED
    BY <2>1, <2>2
<1> QED
  BY <1>2, <1>3, SubSeqProperties

LEMMA FoundDoc ==
  ASSUME TypeOK, NEW d \in Devices, NEW doc \in Found(d)
  PROVE  doc \in Doc \cup {NoDoc}
<1>1. queue[d] \subseteq Doc /\ stored \in Doc \cup {NoDoc} /\ kept[d] \in Doc \cup {NoDoc}
  BY DEF TypeOK
<1>2. CASE queue[d] # {}
  BY <1>1, <1>2 DEF Found
<1>3. CASE queue[d] = {}
  BY <1>1, <1>3 DEF Found
<1> QED
  BY <1>2, <1>3

\* The fields of an open page, and that assigning them leaves a page.
LEMMA FormFields ==
  ASSUME NEW f \in Form
  PROVE  /\ f.open = TRUE
         /\ f.address \in Addresses \cup {NotSet} /\ f.latitude \in Places \cup {NotSet}
         /\ f.longitude \in Places \cup {NotSet, Zero}
         /\ f.numbers \in Numbers \cup {Malformed} /\ f.choice \in Choices
         /\ f.from \in 0..MaxSaves
BY DEF Form

LEMMA OpenForm ==
  ASSUME TypeOK, NEW d \in Devices, form[d].open
  PROVE  form[d] \in Form
BY DEF TypeOK, Closed

LEMMA DocFields ==
  ASSUME NEW w \in Doc
  PROVE  /\ w.save \in 1..MaxSaves /\ w.from \in 0..MaxSaves
         /\ w.address \in Addresses /\ w.latitude \in Places
         /\ w.longitude \in Places \cup {Zero}
         /\ w.numbers \in Numbers /\ w.choice \in Choices
         /\ w # NoDoc
BY DEF Doc, NoDoc

\* A load that is answered holds the document it will set.
LEMMA AnsweredLoad ==
  ASSUME TypeOK, NEW d \in Devices, load[d].at = "answered"
  PROVE  load[d].doc \in Doc \cup {NoDoc}
<1>1. load[d] \in Load
  BY DEF TypeOK
<1>2. PICK l \in Load : l = load[d]
  BY <1>1
<1>3. l \in [at : {"answered"}, doc : Doc \cup {NoDoc}]
  <2>1. l.at = "answered"
    BY <1>2
  <2>2. [at |-> "idle"].at = "idle" /\ [at |-> "asked"].at = "asked"
    OBVIOUS
  <2> QED
    BY <2>1, <2>2 DEF Load, NoLoad
<1>4. l.doc \in Doc \cup {NoDoc}
  BY <1>3
<1> QED
  BY <1>2, <1>4

LEMMA LoadedForm ==
  ASSUME NEW f \in Form, NEW doc \in Doc
  PROVE  /\ Loaded(f, doc) \in Form
         /\ Loaded(f, doc).address = doc.address
         /\ Loaded(f, doc).latitude = doc.latitude
         /\ Loaded(f, doc).longitude = Zero
<1>1. /\ doc.address \in Addresses /\ doc.latitude \in Places /\ doc.numbers \in Numbers
      /\ doc.choice \in Choices /\ doc.save \in 0..MaxSaves
  BY DocFields, BoundsAssumption
<1> QED
  BY <1>1 DEF Loaded, Form

\* An edit leaves a page whose address and latitude are those of the edit.
LEMMA EditedForm ==
  ASSUME NEW f \in Form
  PROVE  LET g == [f EXCEPT !.from = 0] IN
         /\ g \in Form /\ g.address = f.address /\ g.latitude = f.latitude
         /\ g.longitude = f.longitude
<1>1. 0 \in 0..MaxSaves
  BY BoundsAssumption
<1> QED
  BY <1>1 DEF Form

-----------------------------------------------------------------------------
\* The inductive invariant: what every page holds, and every document the
\* phones and the server hold or are about to set, is of one pick; and only an
\* open page loads, so that an answer always finds the fields it sets.
FromPick(x, P) ==
  /\ [address |-> x.address, place |-> x.latitude] \in P
  /\ x.longitude \in {x.latitude, Zero}
Fit(f, P) ==
  \/ f.address = NotSet /\ f.latitude = NotSet /\ f.longitude = NotSet
  \/ FromPick(f, P)
Whole(w, P) == w = NoDoc \/ FromPick(w, P)

FormsAgree == \A d \in Devices : form[d].open => Fit(form[d], picked)
LoadsAgree ==
  \A d \in Devices : load[d].at = "answered" => Whole(load[d].doc, picked)
StoresAgree ==
  /\ Whole(stored, picked)
  /\ \A d \in Devices :
       Whole(kept[d], picked) /\ \A w \in queue[d] : Whole(w, picked)
LoadsOpen == \A d \in Devices : load[d] # NoLoad => form[d].open
HomesAgree == \A d \in Devices : Whole(home[d].doc, picked)

Inv ==
  TypeOK /\ LoadsOpen /\ FormsAgree /\ LoadsAgree /\ StoresAgree /\ HomesAgree

\* What is of one pick stays so, whatever is picked later.
LEMMA StaysPicked ==
  ASSUME NEW P, NEW Q, P \subseteq Q, NEW x
  PROVE  /\ FromPick(x, P) => FromPick(x, Q)
         /\ Fit(x, P) => Fit(x, Q)
         /\ Whole(x, P) => Whole(x, Q)
BY DEF FromPick, Fit, Whole

LEMMA InvAgrees == Inv => LocationIsOnePick
<1> SUFFICES ASSUME Inv PROVE LocationIsOnePick
  OBVIOUS
<1>1. ASSUME NEW d \in Devices, form[d].open
      PROVE  \/ {form[d].address, form[d].latitude, form[d].longitude} = {NotSet}
             \/ OnePick(form[d])
  BY <1>1 DEF Inv, FormsAgree, Fit, FromPick, OnePick
<1>2. ASSUME NEW w \in Docs PROVE OnePick(w)
  <2>1. w # NoDoc
    BY DEF Docs
  <2>2. \/ w = stored
        \/ \E d \in Devices : w = kept[d] \/ w \in queue[d] \/ w = home[d].doc
    <3>1. \/ w \in {stored} \/ w \in {kept[d] : d \in Devices}
          \/ w \in UNION {queue[d] : d \in Devices}
          \/ w \in {home[d].doc : d \in Devices}
      BY DEF Docs
    <3>2. w \in UNION {queue[d] : d \in Devices} => \E d \in Devices : w \in queue[d]
      OBVIOUS
    <3> QED
      BY <3>1, <3>2
  <2>3. Whole(w, picked)
    BY <2>2 DEF Inv, StoresAgree, HomesAgree
  <2> QED
    BY <2>1, <2>3 DEF Whole, FromPick, OnePick
<1> QED
  BY <1>1, <1>2 DEF LocationIsOnePick

LEMMA FoundWhole ==
  ASSUME StoresAgree, NEW d \in Devices, NEW doc \in Found(d)
  PROVE  Whole(doc, picked)
BY DEF StoresAgree, Found

LEMMA InitInv == Init => Inv
<1> SUFFICES ASSUME Init PROVE Inv
  OBVIOUS
<1>1. TypeOK
  BY BoundsAssumption DEF Init, TypeOK, NoLoad, Load, NoHome
<1>2. FormsAgree /\ LoadsAgree /\ LoadsOpen
  BY DEF Init, FormsAgree, LoadsAgree, LoadsOpen, Closed, NoLoad
<1>3. StoresAgree /\ HomesAgree
  BY DEF Init, StoresAgree, HomesAgree, NoHome, Whole
<1> QED
  BY <1>1, <1>2, <1>3 DEF Inv

\* A step that sets one page, to a page that agrees with itself.
LEMMA SetForm ==
  ASSUME Inv, NEW d \in Devices, NEW f \in {Closed} \cup Form,
         f.open => Fit(f, picked), form' = [form EXCEPT ![d] = f],
         UNCHANGED picked
  PROVE  form' \in [Devices -> {Closed} \cup Form] /\ FormsAgree'
BY DEF Inv, TypeOK, FormsAgree

LEMMA SetLoad ==
  ASSUME Inv, NEW d \in Devices, NEW l \in Load,
         l.at = "answered" => Whole(l.doc, picked), load' = [load EXCEPT ![d] = l],
         UNCHANGED picked
  PROVE  load' \in [Devices -> Load] /\ LoadsAgree'
BY DEF Inv, TypeOK, LoadsAgree

LEMMA SetKept ==
  ASSUME Inv, NEW d \in Devices, NEW w \in Doc \cup {NoDoc}, Whole(w, picked),
         kept' = [kept EXCEPT ![d] = w], UNCHANGED <<stored, queue, picked>>
  PROVE  kept' \in [Devices -> Doc \cup {NoDoc}] /\ StoresAgree'
BY DEF Inv, TypeOK, StoresAgree

HomeState == [at : {"idle", "preferences", "rooms", "shown"}, doc : Doc \cup {NoDoc},
              rooms : SUBSET Rooms, list : Seq(Rooms)]

LEMMA SetHome ==
  ASSUME Inv, NEW d \in Devices, NEW h \in HomeState, Whole(h.doc, picked),
         home' = [home EXCEPT ![d] = h],
         UNCHANGED picked
  PROVE  home' \in [Devices -> HomeState] /\ HomesAgree'
BY DEF Inv, TypeOK, HomesAgree, HomeState

LEMMA NoValues ==
  /\ NoLoad \in Load /\ [at |-> "asked"] \in Load
  /\ NoHome \in HomeState /\ Whole(NoHome.doc, picked)
  /\ NewForm \in Form /\ Fit(NewForm, picked)
  /\ ~Closed.open
BY ChoicesAssumption, BoundsAssumption
   DEF NoLoad, Load, NoHome, HomeState, Whole, Fit, NewForm, Form, Closed

-----------------------------------------------------------------------------
LEMMA PageOpens ==
  ASSUME Inv, NEW d \in Devices, OpenPage(d) \/ ClosePage(d)
  PROVE  Inv'
<1>1. /\ form' \in [Devices -> {Closed} \cup Form] /\ FormsAgree'
      /\ load' \in [Devices -> Load] /\ LoadsAgree' /\ LoadsOpen'
  <2>1. CASE OpenPage(d)
    <3>1. /\ form' = [form EXCEPT ![d] = NewForm]
          /\ load' = [load EXCEPT ![d] = [at |-> "asked"]] /\ picked' = picked
      BY <2>1 DEF OpenPage
    <3>2. LoadsOpen'
      BY <3>1 DEF Inv, TypeOK, LoadsOpen, NewForm
    <3> QED
      BY <3>1, <3>2, NoValues, SetForm, SetLoad
  <2>2. CASE ClosePage(d)
    <3>1. /\ form' = [form EXCEPT ![d] = Closed] /\ load' = [load EXCEPT ![d] = NoLoad]
          /\ picked' = picked
      BY <2>2 DEF ClosePage
    <3>2. LoadsOpen'
      BY <3>1 DEF Inv, TypeOK, LoadsOpen
    <3> QED
      BY <3>1, <3>2, NoValues, SetForm, SetLoad DEF NoLoad
  <2> QED
    BY <2>1, <2>2
<1>2. UNCHANGED <<stored, kept, queue, home, picked, edits, saves>>
  BY DEF OpenPage, ClosePage, store
<1> QED
  BY <1>1, <1>2 DEF Inv, TypeOK, StoresAgree, HomesAgree

LEMMA LoadIsAnswered ==
  ASSUME Inv, NEW d \in Devices, LoadAnswered(d)
  PROVE  Inv'
<1>1. PICK doc \in Found(d) :
        /\ load' = [load EXCEPT ![d] = [at |-> "answered", doc |-> doc]]
        /\ kept' = [kept EXCEPT ![d] = IF queue[d] = {} THEN doc ELSE @]
        /\ picked' = picked
  BY DEF LoadAnswered
<1>2. doc \in Doc \cup {NoDoc} /\ Whole(doc, picked)
  BY FoundDoc, FoundWhole DEF Inv
<1>3. load' \in [Devices -> Load] /\ LoadsAgree'
  <2>1. [at |-> "answered", doc |-> doc] \in Load
    BY <1>2 DEF Load
  <2> QED
    BY <1>1, <1>2, <2>1, SetLoad
<1>4. UNCHANGED <<form, stored, queue, home, picked, edits, saves>>
  BY DEF LoadAnswered
<1>5. kept' \in [Devices -> Doc \cup {NoDoc}] /\ StoresAgree'
  <2>1. CASE queue[d] = {}
    BY <1>1, <1>2, <1>4, <2>1, SetKept
  <2>2. CASE queue[d] # {}
    <3>1. kept' = kept
      BY <1>1, <2>2 DEF Inv, TypeOK
    <3> QED
      BY <1>4, <3>1 DEF Inv, TypeOK, StoresAgree
  <2> QED
    BY <2>1, <2>2
<1>6. LoadsOpen'
  <2>1. load[d] # NoLoad
    BY DEF LoadAnswered, NoLoad
  <2> QED
    BY <1>1, <1>4, <2>1 DEF Inv, TypeOK, LoadsOpen
<1> QED
  BY <1>3, <1>4, <1>5, <1>6 DEF Inv, TypeOK, FormsAgree, HomesAgree

LEMMA LoadEnds ==
  ASSUME Inv, NEW d \in Devices, LoadFails(d) \/ LoadDone(d)
  PROVE  Inv'
<1>1. /\ load' = [load EXCEPT ![d] = NoLoad]
      /\ UNCHANGED <<stored, kept, queue, home, picked, edits, saves>>
  BY DEF LoadFails, LoadDone, store
<1>2. load' \in [Devices -> Load] /\ LoadsAgree'
  BY <1>1, NoValues, SetLoad DEF NoLoad
<1>3. form' \in [Devices -> {Closed} \cup Form] /\ FormsAgree'
  <2>1. CASE form' = form
    BY <1>1, <2>1 DEF Inv, TypeOK, FormsAgree
  <2>2. CASE LoadDone(d) /\ load[d].doc # NoDoc
    <3>1. form[d] \in Form
      BY <2>2, OpenForm DEF Inv, LoadsOpen, LoadDone, NoLoad
    <3>2. load[d].doc \in Doc /\ FromPick(load[d].doc, picked)
      BY <2>2, AnsweredLoad DEF Inv, LoadDone, LoadsAgree, Whole
    <3>3. form' = [form EXCEPT ![d] = Loaded(form[d], load[d].doc)]
      BY <2>2 DEF LoadDone
    <3>4. /\ Loaded(form[d], load[d].doc) \in Form
          /\ Fit(Loaded(form[d], load[d].doc), picked)
      BY <3>1, <3>2, LoadedForm DEF Fit, FromPick
    <3> QED
      BY <1>1, <3>3, <3>4, SetForm
  <2> QED
    BY <2>1, <2>2 DEF LoadFails, LoadDone
<1>4. LoadsOpen'
  <2>1. \A e \in Devices : e # d => form'[e] = form[e]
    BY DEF LoadFails, LoadDone, Inv, TypeOK
  <2> QED
    BY <1>1, <2>1 DEF Inv, TypeOK, LoadsOpen
<1> QED
  BY <1>1, <1>2, <1>3, <1>4 DEF Inv, TypeOK, StoresAgree, HomesAgree

LEMMA PageIsEdited ==
  ASSUME Inv, NEW d \in Devices, NEW new,
         form[d].open => new \in Form /\ Fit(new, picked'),
         picked \subseteq picked', picked' \subseteq Pick, Edit(d, new)
  PROVE  Inv'
<1> DEFINE f == [new EXCEPT !.from = 0]
<1>1. /\ form' = [form EXCEPT ![d] = f] /\ edits' = edits + 1 /\ edits < MaxEdits
      /\ UNCHANGED <<load, stored, kept, queue, home, saves>>
  BY DEF Edit, store
<1>2. f \in Form /\ Fit(f, picked') /\ f.open
  BY EditedForm, FormFields DEF Edit, Fit, FromPick
<1> HIDE DEF f
<1>3. form' \in [Devices -> {Closed} \cup Form] /\ FormsAgree'
  BY <1>1, <1>2, StaysPicked DEF Inv, TypeOK, FormsAgree
<1>4. LoadsOpen'
  BY <1>1, <1>2 DEF Inv, TypeOK, LoadsOpen
<1>5. edits' \in 0..MaxEdits
  BY <1>1, BoundsAssumption DEF Inv, TypeOK
<1>6. StoresAgree' /\ HomesAgree'
  BY <1>1, StaysPicked DEF Inv, StoresAgree, HomesAgree
<1>7. LoadsAgree'
  BY <1>1, StaysPicked DEF Inv, LoadsAgree
<1> QED
  BY <1>1, <1>3, <1>4, <1>5, <1>6, <1>7 DEF Inv, TypeOK

LEMMA PageEdits ==
  ASSUME Inv, NEW d \in Devices,
         \/ \E r \in Pick : PickPlace(d, r)
         \/ \E n \in Numbers \cup {Malformed} : Type(d, n)
         \/ \E c \in Choices : Choose(d, c)
  PROVE  Inv'
<1>1. form[d].open => form[d] \in Form /\ Fit(form[d], picked)
  BY OpenForm DEF Inv, FormsAgree
<1>2. picked \subseteq Pick
  BY DEF Inv, TypeOK
<1>3. ASSUME NEW r \in Pick, PickPlace(d, r) PROVE Inv'
  <2> DEFINE new == [form[d] EXCEPT !.address = r.address, !.latitude = r.place,
                                    !.longitude = r.place]
  <2>1. picked' = picked \cup {r} /\ Edit(d, new)
    BY <1>3 DEF PickPlace
  <2>2. /\ r.address \in Addresses /\ r.place \in Places
        /\ [address |-> r.address, place |-> r.place] = r
    BY DEF Pick
  <2>3. form[d].open => new \in Form
    BY <1>1, <2>2 DEF Form
  <2>4. form[d].open =>
          new.address = r.address /\ new.latitude = r.place /\ new.longitude = r.place
    BY <1>1 DEF Form
  <2> HIDE DEF new
  <2>5. form[d].open => Fit(new, picked')
    BY <2>1, <2>2, <2>4 DEF Fit, FromPick
  <2> QED
    BY <1>2, <2>1, <2>3, <2>5, PageIsEdited
<1>4. ASSUME NEW n \in Numbers \cup {Malformed}, Type(d, n) PROVE Inv'
  <2>1. form[d].open =>
          LET new == [form[d] EXCEPT !.numbers = n] IN
          new \in Form /\ Fit(new, picked)
    BY <1>1 DEF Form, Fit, FromPick
  <2> QED
    BY <1>2, <1>4, <2>1, PageIsEdited DEF Type
<1>5. ASSUME NEW c \in Choices, Choose(d, c) PROVE Inv'
  <2>1. form[d].open =>
          LET new == [form[d] EXCEPT !.choice = c] IN new \in Form /\ Fit(new, picked)
    BY <1>1 DEF Form, Fit, FromPick
  <2> QED
    BY <1>2, <1>5, <2>1, PageIsEdited DEF Choose
<1> QED
  BY <1>3, <1>4, <1>5

LEMMA PageSaves ==
  ASSUME Inv, NEW d \in Devices, Save(d)
  PROVE  Inv'
<1> DEFINE f == form[d]
           w == [save |-> saves + 1, from |-> f.from, address |-> f.address,
                 latitude |-> f.latitude, longitude |-> f.longitude,
                 numbers |-> f.numbers, choice |-> f.choice]
<1>1. /\ f.open /\ f.latitude # NotSet /\ f.longitude # NotSet /\ f.numbers \in Numbers
      /\ saves < MaxSaves /\ saves' = saves + 1
      /\ queue' = [queue EXCEPT ![d] = @ \cup {w}]
      /\ UNCHANGED <<form, load, stored, kept, home, picked, edits>>
  BY DEF Save
<1>2. f \in Form /\ FromPick(f, picked)
  BY <1>1, OpenForm DEF Inv, FormsAgree, Fit
<1>3. saves' \in 1..MaxSaves
  BY <1>1, BoundsAssumption DEF Inv, TypeOK
<1>4. w \in Doc /\ Whole(w, picked)
  <2>1. /\ f.latitude \in Places /\ f.longitude \in Places \cup {Zero}
        /\ f.from \in 0..MaxSaves /\ f.choice \in Choices
    BY <1>1, <1>2, FormFields
  <2>2. f.address \in Addresses
    <3>1. [address |-> f.address, place |-> f.latitude] \in Pick
      BY <1>2 DEF FromPick, Inv, TypeOK
    <3> HIDE DEF f
    <3> QED
      BY <3>1 DEF Pick
  <2>3. FromPick(f, picked)
    BY <1>2
  <2> HIDE DEF f
  <2>4. w \in Doc
    BY <1>1, <1>3, <2>1, <2>2 DEF Doc
  <2>5. w.address = f.address /\ w.latitude = f.latitude /\ w.longitude = f.longitude
    OBVIOUS
  <2> QED
    BY <2>3, <2>4, <2>5 DEF Whole, FromPick
<1> HIDE DEF w, f
<1>5. queue' \in [Devices -> SUBSET Doc] /\ StoresAgree'
  BY <1>1, <1>4 DEF Inv, TypeOK, StoresAgree
<1>6. saves' \in 0..MaxSaves
  BY <1>3
<1> QED
  BY <1>1, <1>5, <1>6 DEF Inv, TypeOK, LoadsOpen, FormsAgree, LoadsAgree, HomesAgree

LEMMA DocCommits ==
  ASSUME Inv, NEW d \in Devices, Commit(d)
  PROVE  Inv'
<1>1. PICK w \in queue[d] :
        /\ queue' = [queue EXCEPT ![d] = @ \ {w}]
        /\ \/ stored' = w /\ kept' = [kept EXCEPT ![d] = w]
           \/ UNCHANGED <<stored, kept>>
        /\ UNCHANGED <<form, load, picked, edits, saves, home>>
  BY DEF Commit, page
<1>2. w \in Doc /\ Whole(w, picked)
  BY DEF Inv, TypeOK, StoresAgree
<1>3. /\ queue' \in [Devices -> SUBSET Doc]
      /\ kept' \in [Devices -> Doc \cup {NoDoc}] /\ stored' \in Doc \cup {NoDoc}
      /\ StoresAgree'
  BY <1>1, <1>2 DEF Inv, TypeOK, StoresAgree
<1> QED
  BY <1>1, <1>3 DEF Inv, TypeOK, LoadsOpen, FormsAgree, LoadsAgree, HomesAgree

-----------------------------------------------------------------------------
LEMMA HomeMoves ==
  ASSUME Inv, NEW d \in Devices, BuildHome(d) \/ RoomsRead(d) \/ HomeFails(d)
  PROVE  Inv'
<1>1. UNCHANGED <<form, load, picked, edits, saves, stored, kept, queue>>
  BY DEF BuildHome, RoomsRead, HomeFails, page, store
<1>2. home' \in [Devices -> HomeState] /\ HomesAgree'
  <2>1. CASE BuildHome(d) \/ HomeFails(d)
    <3>1. [NoHome EXCEPT !.at = "preferences"] \in HomeState
          /\ Whole([NoHome EXCEPT !.at = "preferences"].doc, picked)
      BY NoValues DEF HomeState, NoHome, Whole
    <3> QED
      BY <1>1, <2>1, <3>1, NoValues, SetHome DEF BuildHome, HomeFails
  <2>2. CASE RoomsRead(d)
    <3>1. PICK seen \in SUBSET Rooms :
            \E list \in Recommendations(Prefs(home[d].doc), seen) :
              home' = [home EXCEPT ![d].at = "shown", ![d].rooms = seen, ![d].list = list]
      BY <2>2, RoomsAssumption DEF RoomsRead
    <3>2. PICK list \in Recommendations(Prefs(home[d].doc), seen) :
            home' = [home EXCEPT ![d].at = "shown", ![d].rooms = seen, ![d].list = list]
      BY <3>1
    <3> DEFINE h == [home[d] EXCEPT !.at = "shown", !.rooms = seen, !.list = list]
    <3>3. home' = [home EXCEPT ![d] = h]
      BY <3>2
    <3>4. list \in Seq(Rooms)
      BY ListOfRooms
    <3>5. home[d] \in HomeState /\ Whole(home[d].doc, picked)
      BY DEF Inv, TypeOK, HomesAgree, HomeState
    <3>6. h \in HomeState /\ h.doc = home[d].doc
      BY <3>4, <3>5 DEF HomeState
    <3> HIDE DEF h
    <3> QED
      BY <1>1, <3>3, <3>5, <3>6, SetHome
  <2> QED
    BY <2>1, <2>2
<1> QED
  BY <1>1, <1>2
  DEF Inv, TypeOK, LoadsOpen, FormsAgree, LoadsAgree, StoresAgree, HomeState

LEMMA HomeReads ==
  ASSUME Inv, NEW d \in Devices, PreferencesRead(d)
  PROVE  Inv'
<1>1. PICK doc \in Found(d) :
        /\ home' = [home EXCEPT ![d].doc = doc,
                                ![d].at = IF doc = NoDoc THEN "idle" ELSE "rooms"]
        /\ kept' = [kept EXCEPT ![d] = IF queue[d] = {} THEN doc ELSE @]
  BY DEF PreferencesRead
<1>2. UNCHANGED <<form, load, picked, edits, saves, stored, queue>>
  BY DEF PreferencesRead, page
<1>3. doc \in Doc \cup {NoDoc} /\ Whole(doc, picked)
  BY FoundDoc, FoundWhole DEF Inv
<1>4. home' \in [Devices -> HomeState] /\ HomesAgree'
  <2> DEFINE h == [home[d] EXCEPT !.doc = doc,
                                  !.at = IF doc = NoDoc THEN "idle" ELSE "rooms"]
  <2>1. home' = [home EXCEPT ![d] = h]
    BY <1>1
  <2>2. home[d] \in HomeState
    BY DEF Inv, TypeOK, HomeState
  <2>3. h \in HomeState /\ h.doc = doc
    BY <1>3, <2>2 DEF HomeState
  <2> HIDE DEF h
  <2> QED
    BY <1>2, <1>3, <2>1, <2>3, SetHome
<1>5. kept' \in [Devices -> Doc \cup {NoDoc}] /\ StoresAgree'
  <2>1. CASE queue[d] = {}
    BY <1>1, <1>2, <1>3, <2>1, SetKept
  <2>2. CASE queue[d] # {}
    <3>1. kept' = kept
      BY <1>1, <2>2 DEF Inv, TypeOK
    <3> QED
      BY <1>2, <3>1 DEF Inv, TypeOK, StoresAgree
  <2> QED
    BY <2>1, <2>2
<1> QED
  BY <1>2, <1>4, <1>5
  DEF Inv, TypeOK, LoadsOpen, FormsAgree, LoadsAgree, HomeState

LEMMA PhoneRestarts ==
  ASSUME Inv, NEW d \in Devices, Restart(d)
  PROVE  Inv'
<1>1. /\ form' = [form EXCEPT ![d] = Closed] /\ load' = [load EXCEPT ![d] = NoLoad]
      /\ home' = [home EXCEPT ![d] = NoHome]
      /\ UNCHANGED <<stored, kept, queue, picked, edits, saves>>
  BY DEF Restart, store
<1>2. form' \in [Devices -> {Closed} \cup Form] /\ FormsAgree'
  BY <1>1, NoValues, SetForm
<1>3. load' \in [Devices -> Load] /\ LoadsAgree'
  BY <1>1, NoValues, SetLoad DEF NoLoad
<1>4. home' \in [Devices -> HomeState] /\ HomesAgree'
  BY <1>1, NoValues, SetHome
<1>5. LoadsOpen'
  BY <1>1 DEF Inv, TypeOK, LoadsOpen
<1> QED
  BY <1>1, <1>2, <1>3, <1>4, <1>5 DEF Inv, TypeOK, StoresAgree, HomeState

LEMMA NextInv == Inv /\ [Next]_vars => Inv'
<1> SUFFICES ASSUME Inv, [Next]_vars PROVE Inv'
  OBVIOUS
<1>1. CASE UNCHANGED vars
  BY <1>1 DEF vars, Inv, TypeOK, LoadsOpen, FormsAgree, LoadsAgree, StoresAgree, HomesAgree
<1>2. CASE Next
  <2>1. PICK d \in Devices : PageStep(d) \/ HomeStep(d)
    BY <1>2 DEF Next
  <2>2. CASE PageStep(d)
    BY <2>2, PageOpens, LoadIsAnswered, LoadEnds, PageEdits, PageSaves, DocCommits,
       PhoneRestarts DEF PageStep
  <2>3. CASE HomeStep(d)
    BY <2>3, HomeMoves, HomeReads DEF HomeStep
  <2> QED
    BY <2>1, <2>2, <2>3
<1> QED
  BY <1>1, <1>2

-----------------------------------------------------------------------------
\* Pages, documents, loads and recommendation lists keep their types: what a
\* page saves is a complete document, and what is listed are rooms.
THEOREM TypeCorrect == Spec => []TypeOK
<1>1. Inv => TypeOK
  BY DEF Inv
<1> QED
  BY <1>1, InitInv, NextInv, PTL DEF Spec

\* The location of every page and of every document is what one map page has
\* returned, the longitude a load has replaced apart, in whatever order loads,
\* picks and saves of any number of phones interleave: fields of two picks are
\* never mixed.
THEOREM LocationOfOnePick == Spec => []LocationIsOnePick
  BY InitInv, NextInv, InvAgrees, PTL DEF Spec

-----------------------------------------------------------------------------
\* ScoredByTenantsPlace fails in one way only: rooms are scored at the latitude
\* that came from the map with the address the tenant reads, and at the same
\* place's longitude or at the longitude 0.0 that a load put there, never at
\* the longitude of another place.
ScoredAtPickOrZero ==
  \A d \in Devices : home[d].at = "rooms" =>
    /\ [address |-> home[d].doc.address, place |-> home[d].doc.latitude] \in picked
    /\ home[d].doc.longitude \in {home[d].doc.latitude, Zero}

\* A phone reads the rooms only with a document to score them by.
HomesHaveDocs == \A d \in Devices : home[d].at = "rooms" => home[d].doc # NoDoc

LEMMA StepHomeDocs == TypeOK /\ HomesHaveDocs /\ [Next]_vars => HomesHaveDocs'
<1> SUFFICES ASSUME TypeOK, HomesHaveDocs, [Next]_vars PROVE HomesHaveDocs'
  OBVIOUS
<1>1. CASE UNCHANGED home
  BY <1>1 DEF HomesHaveDocs
<1>2. ASSUME NEW d \in Devices, NEW h, home' = [home EXCEPT ![d] = h],
             h.at = "rooms" => h.doc # NoDoc
      PROVE  HomesHaveDocs'
  BY <1>2 DEF HomesHaveDocs, TypeOK
<1>3. ASSUME NEW d \in Devices, BuildHome(d) \/ HomeFails(d) \/ Restart(d)
      PROVE  HomesHaveDocs'
  <2>1. NoHome.at # "rooms" /\ [NoHome EXCEPT !.at = "preferences"].at # "rooms"
    BY DEF NoHome
  <2> QED
    BY <1>2, <1>3, <2>1 DEF BuildHome, HomeFails, Restart
<1>4. ASSUME NEW d \in Devices, PreferencesRead(d) PROVE HomesHaveDocs'
  <2>1. PICK doc \in Found(d) :
          home' = [home EXCEPT ![d].doc = doc,
                               ![d].at = IF doc = NoDoc THEN "idle" ELSE "rooms"]
    BY <1>4 DEF PreferencesRead
  <2>2. doc \in Doc \cup {NoDoc} /\ home[d] \in HomeState
    BY FoundDoc DEF TypeOK, HomeState
  <2> DEFINE h == [home[d] EXCEPT !.doc = doc,
                                  !.at = IF doc = NoDoc THEN "idle" ELSE "rooms"]
  <2>3. home' = [home EXCEPT ![d] = h]
    BY <2>1 DEF TypeOK
  <2>4. h.at = "rooms" => h.doc # NoDoc
    BY <2>2 DEF HomeState
  <2> HIDE DEF h
  <2> QED
    BY <1>2, <2>3, <2>4
<1>5. ASSUME NEW d \in Devices, RoomsRead(d) PROVE HomesHaveDocs'
  <2>1. \A e \in Devices : e # d => home'[e] = home[e]
    BY <1>5 DEF RoomsRead, TypeOK
  <2>2. home'[d].at = "shown"
    BY <1>5 DEF RoomsRead, TypeOK
  <2> QED
    BY <2>1, <2>2 DEF HomesHaveDocs
<1>6. CASE Next
  <2>1. PICK d \in Devices : PageStep(d) \/ HomeStep(d)
    BY <1>6 DEF Next
  <2>2. UNCHANGED home \/ Restart(d) \/ HomeStep(d)
    BY <2>1 DEF PageStep, OpenPage, ClosePage, LoadAnswered, LoadFails, LoadDone,
                PickPlace, Type, Choose, Edit, Save, Commit
  <2> QED
    BY <1>1, <1>3, <1>4, <1>5, <2>2 DEF HomeStep
<1> QED
  BY <1>1, <1>6 DEF vars

\* The coordinates of every scoring are a pin's, the longitude apart.
THEOREM ScoredTrueOrZero == Spec => []ScoredAtPickOrZero
<1>1. Inv /\ HomesHaveDocs => ScoredAtPickOrZero
  BY DEF Inv, HomesAgree, HomesHaveDocs, Whole, FromPick, ScoredAtPickOrZero
<1>2. Inv => TypeOK
  BY DEF Inv
<1>3. Init => HomesHaveDocs
  BY DEF Init, HomesHaveDocs, NoHome
<1> QED
  BY <1>1, <1>2, <1>3, InitInv, NextInv, StepHomeDocs, PTL DEF Spec

-----------------------------------------------------------------------------
(* Saves.  A document is known by the tap it comes from, wherever it is.    *)

\* The document is on the server or the phones, queued, cached, about to be
\* loaded or behind a list of recommendations.
Holds(w) ==
  /\ w # NoDoc
  /\ \/ w = stored
     \/ \E d \in Devices : \/ w = kept[d] \/ w \in queue[d] \/ w = home[d].doc
                           \/ load[d].at = "answered" /\ w = load[d].doc

\* Two documents of one save are one, and none comes from a save to come.
Named ==
  \A w \in Doc : Holds(w) =>
    w.save <= saves /\ \A v \in Doc : Holds(v) /\ v.save = w.save => v = w

SameFields(x, v) ==
  /\ x.address = v.address /\ x.latitude = v.latitude
  /\ x.numbers = v.numbers /\ x.choice = v.choice

\* A page that was loaded and not edited shows the document it was loaded from.
LoadedFrom(f) ==
  /\ f.from <= saves
  /\ f.from # 0 => \A v \in Doc : Holds(v) /\ v.save = f.from => SameFields(f, v)
LoadedAs == \A d \in Devices : form[d].open => LoadedFrom(form[d])

Traced == Inv /\ Named /\ LoadedAs

\* What "Save Preferences" queues on phone d.
Draft(d) ==
  [save |-> saves + 1, from |-> form[d].from, address |-> form[d].address,
   latitude |-> form[d].latitude, longitude |-> form[d].longitude,
   numbers |-> form[d].numbers, choice |-> form[d].choice]

\* No document appears that was nowhere before.
NothingNew == \A w \in Doc : Holds(w)' => Holds(w)

LEMMA FoundHeld ==
  ASSUME NEW d \in Devices, NEW doc \in Found(d), doc # NoDoc
  PROVE  Holds(doc)
BY DEF Found, Holds

\* Where a document can be after a step, if nothing new appears.
LEMMA Sources ==
  ASSUME Inv,
         \/ stored' = stored \/ Holds(stored'),
         \A e \in Devices :
           /\ kept'[e] \in {kept[e], NoDoc} \/ Holds(kept'[e])
           /\ queue'[e] \subseteq queue[e]
           /\ home'[e].doc \in {home[e].doc, NoDoc} \/ Holds(home'[e].doc)
           /\ load'[e].at = "answered" =>
                load'[e] = load[e] \/ load'[e].doc = NoDoc \/ Holds(load'[e].doc)
  PROVE  NothingNew
<1> SUFFICES ASSUME NEW w \in Doc, Holds(w)' PROVE Holds(w)
  BY DEF NothingNew
<1>1. w # NoDoc
  BY DEF Holds
<1>2. CASE w = stored'
  BY <1>1, <1>2 DEF Holds
<1>3. ASSUME NEW e \in Devices,
             \/ w = kept'[e] \/ w \in queue'[e] \/ w = home'[e].doc
             \/ load'[e].at = "answered" /\ w = load'[e].doc
      PROVE  Holds(w)
  <2>1. CASE w = kept'[e]
    BY <1>1, <2>1 DEF Holds
  <2>2. CASE w \in queue'[e]
    BY <1>1, <2>2 DEF Holds
  <2>3. CASE w = home'[e].doc
    BY <1>1, <2>3 DEF Holds
  <2>4. CASE load'[e].at = "answered" /\ w = load'[e].doc
    BY <1>1, <2>4 DEF Holds
  <2> QED
    BY <1>3, <2>1, <2>2, <2>3, <2>4
<1> QED
  BY <1>2, <1>3 DEF Holds

\* Only a save makes a document.
LEMMA StepHolds ==
  ASSUME Inv, NEW d \in Devices, PageStep(d) \/ HomeStep(d), ~Save(d)
  PROVE  NothingNew
<1> USE DEF store, page
<1>1. CASE OpenPage(d) \/ ClosePage(d) \/ LoadFails(d) \/ LoadDone(d)
  <2>1. UNCHANGED <<stored, kept, queue, home>>
    BY <1>1 DEF OpenPage, ClosePage, LoadFails, LoadDone
  <2>2. \A e \in Devices : load'[e] = load[e] \/ load'[e].at # "answered"
    BY <1>1 DEF OpenPage, ClosePage, LoadFails, LoadDone, NoLoad, Inv, TypeOK
  <2> QED
    BY <2>1, <2>2, Sources
<1>2. CASE LoadAnswered(d)
  <2>1. PICK doc \in Found(d) :
          /\ load' = [load EXCEPT ![d] = [at |-> "answered", doc |-> doc]]
          /\ kept' = [kept EXCEPT ![d] = IF queue[d] = {} THEN doc ELSE @]
    BY <1>2 DEF LoadAnswered
  <2>2. doc = NoDoc \/ Holds(doc)
    BY FoundHeld
  <2>3. UNCHANGED <<stored, queue, home>>
    BY <1>2 DEF LoadAnswered
  <2>4. \A e \in Devices : /\ load'[e] = load[e] \/ load'[e].doc = doc
                           /\ kept'[e] \in {kept[e], doc}
    BY <2>1 DEF Inv, TypeOK
  <2>5. \A e \in Devices : kept'[e] \in {kept[e], NoDoc} \/ Holds(kept'[e])
    BY <2>2, <2>4
  <2>6. \A e \in Devices : load'[e] = load[e] \/ load'[e].doc = NoDoc \/ Holds(load'[e].doc)
    BY <2>2, <2>4
  <2> QED
    BY <2>3, <2>5, <2>6, Sources
<1>3. CASE \/ \E r \in Pick : PickPlace(d, r)
           \/ \E n \in Numbers \cup {Malformed} : Type(d, n)
           \/ \E c \in Choices : Choose(d, c)
  <2>1. UNCHANGED <<load, stored, kept, queue, home>>
    BY <1>3 DEF PickPlace, Type, Choose, Edit
  <2> QED
    BY <2>1, Sources
<1>4. CASE Commit(d)
  <2>1. PICK w \in queue[d] :
          /\ queue' = [queue EXCEPT ![d] = @ \ {w}]
          /\ \/ stored' = w /\ kept' = [kept EXCEPT ![d] = w]
             \/ UNCHANGED <<stored, kept>>
          /\ UNCHANGED <<load, home>>
    BY <1>4 DEF Commit
  <2>2. Holds(w)
    BY DocFields DEF Holds, Inv, TypeOK
  <2>3. \A e \in Devices : queue'[e] \subseteq queue[e] /\ kept'[e] \in {kept[e], w}
    BY <2>1 DEF Inv, TypeOK
  <2>4. \A e \in Devices : kept'[e] \in {kept[e], NoDoc} \/ Holds(kept'[e])
    BY <2>2, <2>3
  <2>5. stored' = stored \/ Holds(stored')
    BY <2>1, <2>2
  <2> QED
    BY <2>1, <2>3, <2>4, <2>5, Sources
<1>5. CASE BuildHome(d) \/ HomeFails(d) \/ RoomsRead(d)
  <2>1. UNCHANGED <<load, stored, kept, queue>>
    BY <1>5 DEF BuildHome, HomeFails, RoomsRead
  <2>2. PICK h :
          /\ home' = [home EXCEPT ![d] = h]
          /\ h.doc \in {home[d].doc, NoDoc}
    <3>1. CASE BuildHome(d)
      <4>1. [NoHome EXCEPT !.at = "preferences"].doc = NoDoc
        BY DEF NoHome
      <4> QED
        BY <3>1, <4>1 DEF BuildHome
    <3>2. CASE HomeFails(d)
      <4>1. NoHome.doc = NoDoc
        BY DEF NoHome
      <4> QED
        BY <3>2, <4>1 DEF HomeFails
    <3>3. CASE RoomsRead(d)
      <4>1. PICK seen \in SUBSET Rooms :
              \E list \in Recommendations(Prefs(home[d].doc), seen) :
                home' = [home EXCEPT ![d].at = "shown", ![d].rooms = seen, ![d].list = list]
        BY <3>3, RoomsAssumption DEF RoomsRead
      <4>2. PICK list \in Recommendations(Prefs(home[d].doc), seen) :
              home' = [home EXCEPT ![d].at = "shown", ![d].rooms = seen, ![d].list = list]
        BY <4>1
      <4> DEFINE g == [home[d] EXCEPT !.at = "shown", !.rooms = seen, !.list = list]
      <4>3. home' = [home EXCEPT ![d] = g]
        BY <4>2
      <4>4. home[d] \in HomeState
        BY DEF Inv, TypeOK, HomeState
      <4>5. g.doc = home[d].doc
        BY <4>4 DEF HomeState
      <4> HIDE DEF g
      <4> QED
        BY <4>3, <4>5
    <3> QED
      BY <1>5, <3>1, <3>2, <3>3
  <2>3. \A e \in Devices : home'[e].doc \in {home[e].doc, NoDoc}
    BY <2>2 DEF Inv, TypeOK
  <2> QED
    BY <2>1, <2>3, Sources
<1>6. CASE PreferencesRead(d)
  <2>1. PICK doc \in Found(d) :
          /\ home' = [home EXCEPT ![d].doc = doc,
                                  ![d].at = IF doc = NoDoc THEN "idle" ELSE "rooms"]
          /\ kept' = [kept EXCEPT ![d] = IF queue[d] = {} THEN doc ELSE @]
    BY <1>6 DEF PreferencesRead
  <2>2. doc = NoDoc \/ Holds(doc)
    BY FoundHeld
  <2>3. UNCHANGED <<load, stored, queue>>
    BY <1>6 DEF PreferencesRead
  <2>4. \A e \in Devices : /\ home'[e].doc \in {home[e].doc, doc}
                           /\ kept'[e] \in {kept[e], doc}
    BY <2>1 DEF Inv, TypeOK
  <2>5. \A e \in Devices : kept'[e] \in {kept[e], NoDoc} \/ Holds(kept'[e])
    BY <2>2, <2>4
  <2>6. \A e \in Devices : home'[e].doc \in {home[e].doc, NoDoc} \/ Holds(home'[e].doc)
    BY <2>2, <2>4
  <2> QED
    BY <2>3, <2>5, <2>6, Sources
<1>7. CASE Restart(d)
  <2>1. UNCHANGED <<stored, kept, queue>>
    BY <1>7 DEF Restart
  <2>2. \A e \in Devices : /\ home'[e].doc \in {home[e].doc, NoDoc}
                           /\ load'[e] = load[e] \/ load'[e].at # "answered"
    BY <1>7 DEF Restart, NoHome, NoLoad, Inv, TypeOK
  <2> QED
    BY <2>1, <2>2, Sources
<1> QED
  BY <1>1, <1>2, <1>3, <1>4, <1>5, <1>6, <1>7 DEF PageStep, HomeStep

\* Only a save queues a document, and only its own phone does.
LEMMA StepQueues ==
  ASSUME Inv, NEW d \in Devices, PageStep(d) \/ HomeStep(d), ~Save(d)
  PROVE  saves' = saves /\ \A e \in Devices : queue'[e] \subseteq queue[e]
<1> USE DEF store, page
<1>1. CASE OpenPage(d) \/ ClosePage(d) \/ LoadFails(d) \/ LoadDone(d) \/ LoadAnswered(d)
  BY <1>1 DEF OpenPage, ClosePage, LoadFails, LoadDone, LoadAnswered
<1>2. CASE \/ \E r \in Pick : PickPlace(d, r)
           \/ \E n \in Numbers \cup {Malformed} : Type(d, n)
           \/ \E c \in Choices : Choose(d, c)
  BY <1>2 DEF PickPlace, Type, Choose, Edit
<1>3. CASE Commit(d)
  BY <1>3 DEF Commit, Inv, TypeOK
<1>4. CASE BuildHome(d) \/ HomeFails(d) \/ RoomsRead(d) \/ PreferencesRead(d) \/ Restart(d)
  BY <1>4 DEF BuildHome, HomeFails, RoomsRead, PreferencesRead, Restart
<1> QED
  BY <1>1, <1>2, <1>3, <1>4 DEF PageStep, HomeStep

\* What a save does: one more document, whose save is the next.
LEMMA SaveEffect ==
  ASSUME Inv, NEW d \in Devices, Save(d)
  PROVE  /\ Draft(d) \in Doc /\ Draft(d).save = saves + 1
         /\ Draft(d).from = form[d].from /\ SameFields(Draft(d), form[d])
         /\ form[d].open /\ saves' = saves + 1
         /\ queue' = [queue EXCEPT ![d] = @ \cup {Draft(d)}]
         /\ UNCHANGED <<form, load, stored, kept, home, picked, edits>>
<1>1. /\ form[d].open /\ form[d].latitude # NotSet /\ form[d].longitude # NotSet
      /\ form[d].numbers \in Numbers /\ saves < MaxSaves /\ saves' = saves + 1
      /\ queue' = [queue EXCEPT ![d] = @ \cup {Draft(d)}]
      /\ UNCHANGED <<form, load, stored, kept, home, picked, edits>>
  BY DEF Save, Draft
<1>2. PICK f \in Form : f = form[d]
  BY <1>1, OpenForm DEF Inv
<1>3. /\ f.address \in Addresses /\ f.latitude \in Places /\ f.longitude \in Places \cup {Zero}
      /\ f.numbers \in Numbers /\ f.choice \in Choices /\ f.from \in 0..MaxSaves
  <2>1. /\ f.latitude \in Places /\ f.longitude \in Places \cup {Zero}
        /\ f.numbers \in Numbers /\ f.choice \in Choices /\ f.from \in 0..MaxSaves
    BY <1>1, <1>2, FormFields
  <2>2. [address |-> f.address, place |-> f.latitude] \in Pick
    BY <1>1, <1>2 DEF Inv, TypeOK, FormsAgree, Fit, FromPick
  <2>3. f.address \in Addresses
    BY <2>2 DEF Pick
  <2> QED
    BY <2>1, <2>3
<1>4. saves + 1 \in 1..MaxSaves
  BY <1>1, BoundsAssumption DEF Inv, TypeOK
<1>5. /\ Draft(d) \in Doc /\ Draft(d).save = saves + 1
      /\ Draft(d).from = f.from /\ SameFields(Draft(d), f)
  BY <1>2, <1>3, <1>4 DEF Draft, Doc, SameFields
<1> QED
  BY <1>1, <1>2, <1>5

\* A page after a step other than a save: as it was, new, edited, or showing
\* the document that its load has set.
LEMMA StepForms ==
  ASSUME Inv, NEW d \in Devices, PageStep(d) \/ HomeStep(d), NEW e \in Devices,
         form'[e].open
  PROVE  \/ form'[e] = form[e]
         \/ form'[e].from = 0
         \/ \E doc \in Doc : /\ Holds(doc) /\ form'[e].from = doc.save
                             /\ SameFields(form'[e], doc)
<1> USE DEF store, page
<1>1. CASE OpenPage(d)
  <2>1. form' = [form EXCEPT ![d] = NewForm] /\ NewForm.from = 0
    BY <1>1 DEF OpenPage, NewForm
  <2> QED
    BY <2>1 DEF Inv, TypeOK
<1>2. CASE ClosePage(d) \/ Restart(d)
  BY <1>2 DEF ClosePage, Restart, Closed, Inv, TypeOK
<1>3. CASE LoadDone(d)
  <2>1. CASE load[d].doc = NoDoc
    BY <1>3, <2>1 DEF LoadDone
  <2>2. CASE load[d].doc # NoDoc
    <3>1. form[d] \in Form /\ load[d].at = "answered"
      BY <1>3, OpenForm DEF Inv, LoadsOpen, LoadDone, NoLoad
    <3>2. PICK doc \in Doc : doc = load[d].doc /\ Holds(doc)
      BY <2>2, <3>1, AnsweredLoad DEF Inv, Holds
    <3>3. PICK f \in Form : f = form[d]
      BY <3>1
    <3> DEFINE g == Loaded(f, doc)
    <3>4. form' = [form EXCEPT ![d] = g]
      BY <1>3, <2>2, <3>2, <3>3 DEF LoadDone
    <3>5. g.from = doc.save /\ SameFields(g, doc)
      BY DEF Loaded, Form, SameFields
    <3> HIDE DEF g
    <3>6. form'[e] = form[e] \/ form'[e] = g
      BY <3>4 DEF Inv, TypeOK
    <3> QED
      BY <3>2, <3>5, <3>6
  <2> QED
    BY <2>1, <2>2
<1>4. ASSUME NEW new, Edit(d, new), form[d].open => new \in Form
      PROVE  form'[e] = form[e] \/ form'[e].from = 0
  <2> DEFINE g == [new EXCEPT !.from = 0]
  <2>1. form' = [form EXCEPT ![d] = g] /\ g.from = 0
    BY <1>4 DEF Edit, Form
  <2> HIDE DEF g
  <2> QED
    BY <2>1 DEF Inv, TypeOK
<1>5. form[d].open => form[d] \in Form
  BY OpenForm DEF Inv
<1>6. ASSUME NEW r \in Pick, PickPlace(d, r)
      PROVE  form'[e] = form[e] \/ form'[e].from = 0
  <2>1. form[d].open =>
          [form[d] EXCEPT !.address = r.address, !.latitude = r.place,
                          !.longitude = r.place] \in Form
    BY <1>5 DEF Form, Pick
  <2> QED
    BY <1>4, <1>6, <2>1 DEF PickPlace
<1>7. ASSUME NEW n \in Numbers \cup {Malformed}, Type(d, n)
      PROVE  form'[e] = form[e] \/ form'[e].from = 0
  <2>1. form[d].open => [form[d] EXCEPT !.numbers = n] \in Form
    BY <1>5 DEF Form
  <2> QED
    BY <1>4, <1>7, <2>1 DEF Type
<1>8. ASSUME NEW c \in Choices, Choose(d, c)
      PROVE  form'[e] = form[e] \/ form'[e].from = 0
  <2>1. form[d].open => [form[d] EXCEPT !.choice = c] \in Form
    BY <1>5 DEF Form
  <2> QED
    BY <1>4, <1>8, <2>1 DEF Choose
<1>9. CASE LoadAnswered(d) \/ LoadFails(d) \/ Save(d) \/ Commit(d)
  BY <1>9 DEF LoadAnswered, LoadFails, Save, Commit
<1>10. CASE HomeStep(d)
  BY <1>10 DEF HomeStep, BuildHome, HomeFails, RoomsRead, PreferencesRead
<1> QED
  BY <1>1, <1>2, <1>3, <1>6, <1>7, <1>8, <1>9, <1>10 DEF PageStep

LEMMA HoldsAfterSave ==
  ASSUME Inv, NEW d \in Devices, Save(d), NEW w \in Doc, Holds(w)'
  PROVE  Holds(w) \/ w = Draft(d)
<1>1. /\ queue' = [queue EXCEPT ![d] = @ \cup {Draft(d)}]
      /\ UNCHANGED <<load, stored, kept, home>>
  BY SaveEffect
<1>2. \A e \in Devices : queue'[e] \subseteq queue[e] \cup {Draft(d)}
  BY <1>1 DEF Inv, TypeOK
<1>3. /\ w # NoDoc
      /\ \/ w = stored
         \/ \E e \in Devices : \/ w = kept[e] \/ w \in queue'[e] \/ w = home[e].doc
                               \/ load[e].at = "answered" /\ w = load[e].doc
  BY <1>1 DEF Holds
<1> QED
  BY <1>2, <1>3 DEF Holds

\* A save gives a name that no document has yet.
LEMMA SaveTraced ==
  ASSUME Traced, NEW d \in Devices, Save(d)
  PROVE  Named' /\ LoadedAs'
<1> DEFINE n == Draft(d)
<1>1. /\ n \in Doc /\ n.save = saves + 1 /\ saves' = saves + 1 /\ saves \in Nat
      /\ UNCHANGED form
  BY SaveEffect, BoundsAssumption DEF Traced, Inv, TypeOK
<1>2. \A w \in Doc : Holds(w)' => Holds(w) \/ w = n
  BY HoldsAfterSave DEF Traced
<1>3. \A w \in Doc : Holds(w) => w.save \in Nat /\ w.save <= saves
  BY DocFields, BoundsAssumption DEF Traced, Named
<1>4. \A v, w \in Doc : Holds(v) /\ Holds(w) /\ v.save = w.save => v = w
  BY DEF Traced, Named
<1> HIDE DEF n
<1>5. Named'
  <2> SUFFICES ASSUME NEW w \in Doc, Holds(w)'
               PROVE  /\ w.save <= saves'
                      /\ \A v \in Doc : Holds(v)' /\ v.save = w.save => v = w
    BY DEF Named
  <2>1. w.save <= saves'
    BY <1>1, <1>2, <1>3
  <2>2. ASSUME NEW v \in Doc, Holds(v)', v.save = w.save PROVE v = w
    <3>1. (Holds(v) \/ v = n) /\ (Holds(w) \/ w = n)
      BY <1>2, <2>2
    <3>2. ~(Holds(v) /\ w = n) /\ ~(v = n /\ Holds(w))
      BY <1>1, <1>3, <2>2
    <3> QED
      BY <1>4, <2>2, <3>1, <3>2
  <2> QED
    BY <2>1, <2>2
<1>6. LoadedAs'
  <2> SUFFICES ASSUME NEW e \in Devices, form[e].open
               PROVE  LoadedFrom(form[e])'
    BY <1>1 DEF LoadedAs
  <2>1. PICK f \in Form : f = form[e]
    BY OpenForm DEF Traced, Inv
  <2>2. /\ f.from <= saves /\ f.from \in Nat
        /\ f.from # 0 => \A v \in Doc : Holds(v) /\ v.save = f.from => SameFields(f, v)
    <3>1. LoadedFrom(f)
      BY <2>1 DEF Traced, LoadedAs
    <3>2. f.from \in 0..MaxSaves
      BY DEF Form
    <3>3. f.from \in Nat
      BY <3>2, BoundsAssumption
    <3> QED
      BY <3>1, <3>3 DEF LoadedFrom
  <2>3. f.from <= saves'
    BY <1>1, <2>2
  <2>4. ASSUME f.from # 0, NEW v \in Doc, Holds(v)', v.save = f.from
        PROVE  SameFields(f, v)
    <3>1. v # n
      BY <1>1, <2>2, <2>4
    <3> QED
      BY <1>2, <2>2, <2>4, <3>1
  <2>5. form'[e] = f
    BY <1>1, <2>1
  <2> QED
    BY <2>3, <2>4, <2>5 DEF LoadedFrom
<1> QED
  BY <1>5, <1>6

\* Any other step leaves the names of the documents as they are, and a page
\* that it loads shows a document that is held.
LEMMA StepTraced ==
  ASSUME Traced, NEW d \in Devices, PageStep(d) \/ HomeStep(d), ~Save(d)
  PROVE  Named' /\ LoadedAs'
<1>1. NothingNew /\ saves' = saves
  BY StepHolds, StepQueues DEF Traced
<1>2. \A w \in Doc : Holds(w)' => Holds(w)
  BY <1>1 DEF NothingNew
<1>3. \A w \in Doc : Holds(w) =>
        w.save <= saves /\ \A v \in Doc : Holds(v) /\ v.save = w.save => v = w
  BY DEF Traced, Named
<1>4. Named'
  BY <1>1, <1>2, <1>3 DEF Named
<1>5. ASSUME NEW e \in Devices, form'[e].open PROVE LoadedFrom(form[e])'
  <2>1. PICK f : f = form'[e]
    OBVIOUS
  <2>2. \/ f = form[e] \/ f.from = 0
        \/ \E doc \in Doc : Holds(doc) /\ f.from = doc.save /\ SameFields(f, doc)
    BY <1>5, <2>1, StepForms DEF Traced
  <2>3. LoadedFrom(f)
    <3>1. CASE f = form[e]
      BY <1>5, <2>1, <3>1 DEF Traced, LoadedAs
    <3>2. CASE f.from = 0
      BY <3>2 DEF LoadedFrom, Traced, Inv, TypeOK
    <3>3. ASSUME NEW doc \in Doc, Holds(doc), f.from = doc.save, SameFields(f, doc)
          PROVE  LoadedFrom(f)
      BY <1>3, <3>3 DEF LoadedFrom
    <3> QED
      BY <2>2, <3>1, <3>2, <3>3
  <2>4. /\ f.from <= saves'
        /\ f.from # 0 => \A v \in Doc : Holds(v)' /\ v.save = f.from => SameFields(f, v)
    BY <1>1, <1>2, <2>3 DEF LoadedFrom
  <2> QED
    BY <2>1, <2>4 DEF LoadedFrom
<1> QED
  BY <1>4, <1>5 DEF LoadedAs

LEMMA InitTraced == Init => Traced
<1> SUFFICES ASSUME Init PROVE Named /\ LoadedAs
  BY InitInv DEF Traced
<1>1. \A w \in Doc : ~Holds(w)
  BY DEF Init, Holds, NoHome, NoLoad
<1> QED
  BY <1>1 DEF Init, Named, LoadedAs, Closed

LEMMA NextTraced == Traced /\ [Next]_vars => Traced'
<1> SUFFICES ASSUME Traced, [Next]_vars PROVE Named' /\ LoadedAs'
  BY NextInv DEF Traced
<1>1. CASE UNCHANGED vars
  BY <1>1 DEF vars, Traced, Named, LoadedAs, LoadedFrom, Holds
<1>2. CASE Next
  <2>1. PICK d \in Devices : PageStep(d) \/ HomeStep(d)
    BY <1>2 DEF Next
  <2> QED
    BY <2>1, SaveTraced, StepTraced
<1> QED
  BY <1>1, <1>2

\* The documents that UneditedSaveChangesNothing speaks of are held.
LEMMA DocsHeld ==
  ASSUME Inv, NEW v \in Docs
  PROVE  v \in Doc /\ Holds(v)
<1>1. v # NoDoc
  BY DEF Docs
<1>2. \/ v = stored
      \/ \E e \in Devices : v = kept[e] \/ v \in queue[e] \/ v = home[e].doc
  <2>1. \/ v \in {stored} \/ v \in {kept[e] : e \in Devices}
        \/ v \in UNION {queue[e] : e \in Devices}
        \/ v \in {home[e].doc : e \in Devices}
    BY DEF Docs
  <2>2. v \in UNION {queue[e] : e \in Devices} => \E e \in Devices : v \in queue[e]
    OBVIOUS
  <2> QED
    BY <2>1, <2>2
<1> QED
  BY <1>1, <1>2 DEF Holds, Inv, TypeOK

\* A page that was loaded and not edited saves the document it was loaded
\* from, all but the longitude, however long ago that was and whatever other
\* phones have saved meanwhile: load and save agree on every field.
THEOREM UneditedSave == Spec => UneditedSaveChangesNothing
<1> DEFINE Kept ==
      \A d \in Devices : \A w \in queue'[d] \ queue[d] :
        w.from # 0 =>
          \A v \in Docs : v.save = w.from =>
            /\ w.address = v.address /\ w.latitude = v.latitude
            /\ w.numbers = v.numbers /\ w.choice = v.choice
<1>1. Traced /\ [Next]_vars => [Kept]_vars
  <2> SUFFICES ASSUME Traced, Next, NEW d \in Devices, NEW w \in queue'[d] \ queue[d],
                      w.from # 0, NEW v \in Docs, v.save = w.from
               PROVE  SameFields(w, v)
    BY DEF SameFields
  <2>1. PICK e \in Devices : PageStep(e) \/ HomeStep(e)
    BY DEF Next
  <2>2. Save(e)
    BY <2>1, StepQueues DEF Traced
  <2>3. /\ w = Draft(e) /\ w.from = form[e].from /\ SameFields(w, form[e]) /\ form[e].open
    <3>1. queue' = [queue EXCEPT ![e] = @ \cup {Draft(e)}]
      BY <2>2, SaveEffect DEF Traced
    <3>2. w \in {Draft(e)}
      BY <3>1 DEF Traced, Inv, TypeOK
    <3> QED
      BY <2>2, <3>2, SaveEffect DEF Traced
  <2>4. v \in Doc /\ Holds(v)
    BY DocsHeld DEF Traced
  <2>5. SameFields(form[e], v)
    BY <2>3, <2>4 DEF Traced, LoadedAs, LoadedFrom
  <2> QED
    BY <2>3, <2>5 DEF SameFields
<1> QED
  BY <1>1, InitTraced, NextTraced, PTL DEF Spec, UneditedSaveChangesNothing

-----------------------------------------------------------------------------
(* Recommendations.  A feature that suits better scores no less, and the    *)
(* scores compare as the features do.                                       *)

LEMMA TimesMore ==
  ASSUME NEW a \in Nat, NEW b \in Nat, NEW c \in Nat
  PROVE  /\ a <= b => a * c <= b * c
         /\ a < b /\ c # 0 => a * c < b * c
         /\ a * c < b * c => a < b
OBVIOUS

\* Of two sums of weighted scores over the denominators m * w and m * v, the
\* one with more in every part is the greater.
LEMMA Outweighs ==
  ASSUME NEW m \in Nat \ {0}, NEW v \in Nat \ {0}, NEW w \in Nat \ {0},
         NEW b \in Nat, NEW c \in Nat, NEW x \in Nat, NEW y \in Nat,
         c <= b, y <= x, w <= v,
         NEW s \in Nat, NEW t \in Nat,
         s = b * w + 15 * (x * m), t = c * v + 15 * (y * m)
  PROVE  /\ t * (m * w) <= s * (m * v)
         /\ c < b => t * (m * w) < s * (m * v)
         /\ 30 * (m * v) < t => 30 * (m * w) < s
<1>1. y * w <= x * v
  <2>1. y * w <= x * w
    BY TimesMore
  <2>2. w * x <= v * x
    BY TimesMore
  <2> QED
    BY <2>1, <2>2
<1>2. PICK k \in Nat : k = v * w /\ k # 0
  <2>1. v * w \in Nat
    OBVIOUS
  <2>2. v * w # 0
    BY TimesMore
  <2> QED
    BY <2>1, <2>2
<1>3. PICK g \in Nat, h \in Nat : g = (y * w) * m /\ h = (x * v) * m /\ g <= h
  <2>1. (y * w) \in Nat /\ (x * v) \in Nat
    OBVIOUS
  <2>2. (y * w) * m \in Nat /\ (x * v) * m \in Nat
    BY <2>1
  <2>3. (y * w) * m <= (x * v) * m
    BY <1>1, <2>1, TimesMore
  <2> QED
    BY <2>2, <2>3
<1>4. s * v = b * k + 15 * h /\ t * w = c * k + 15 * g
  BY <1>2, <1>3
<1>5. c * k <= b * k /\ (c < b => c * k < b * k) /\ c * k \in Nat /\ b * k \in Nat
  BY <1>2, TimesMore
<1>6. t * w <= s * v /\ (c < b => t * w < s * v)
  BY <1>3, <1>4, <1>5
<1>7. s * v \in Nat /\ t * w \in Nat
  OBVIOUS
<1>8. t * (m * w) = (t * w) * m /\ s * (m * v) = (s * v) * m
  BY <1>7
<1>9. (t * w) * m <= (s * v) * m /\ (c < b => (t * w) * m < (s * v) * m)
  BY <1>6, <1>7, TimesMore
<1>10. ASSUME 30 * (m * v) < t PROVE 30 * (m * w) < s
  <2>1. 30 * (m * v) \in Nat /\ 30 * (m * w) \in Nat
    OBVIOUS
  <2>2. (30 * (m * v)) * w < t * w
    BY <1>7, <1>10, <2>1, TimesMore
  <2>3. (30 * (m * v)) * w = (30 * (m * w)) * v
    OBVIOUS
  <2>4. (30 * (m * w)) * v < s * v
    BY <1>6, <1>7, <2>1, <2>2, <2>3
  <2> QED
    BY <1>7, <2>1, <2>4, TimesMore
<1> QED
  BY <1>8, <1>9, <1>10

LEMMA NearnessOf ==
  ASSUME NEW x \in Nat, NEW y \in Nat, NEW bound \in Nat, x <= y
  PROVE  /\ Nearness(x, bound).d \in Nat \ {0} /\ Nearness(y, bound).d = Nearness(x, bound).d
         /\ Nearness(x, bound).n \in Nat /\ Nearness(y, bound).n \in Nat
         /\ Nearness(y, bound).n <= Nearness(x, bound).n
<1>1. CASE bound = 0
  BY <1>1 DEF Nearness
<1>2. CASE bound # 0
  <2>1. /\ Lesser(x, bound) \in Nat /\ Lesser(y, bound) \in Nat
        /\ Lesser(x, bound) <= bound /\ Lesser(y, bound) <= bound
        /\ Lesser(x, bound) <= Lesser(y, bound)
    BY DEF Lesser
  <2> QED
    BY <1>2, <2>1 DEF Nearness
<1> QED
  BY <1>1, <1>2

LEMMA JaccardOf ==
  ASSUME NEW A, NEW B, IsFiniteSet(A), IsFiniteSet(B), A \cup B # {}
  PROVE  /\ Jaccard(A, B).n \in Nat /\ Jaccard(A, B).d \in Nat \ {0}
         /\ Jaccard(A, B).n = Cardinality(A \cap B)
         /\ Jaccard(A, B).d = Cardinality(A \cup B)
<1>1. IsFiniteSet(A \cup B) /\ IsFiniteSet(A \cap B)
  BY FS_Union, FS_Intersection
<1>2. Cardinality(A \cap B) \in Nat /\ Cardinality(A \cup B) \in Nat
  BY <1>1, FS_CardinalityType
<1>3. Cardinality(A \cup B) # 0
  BY <1>1, FS_EmptySet
<1> QED
  BY <1>2, <1>3 DEF Jaccard

LEMMA JaccardMore ==
  ASSUME NEW A, NEW B, NEW C, IsFiniteSet(A), IsFiniteSet(B), IsFiniteSet(C),
         A \cup B # {}, A \cup C # {},
         C \cap A \subseteq B \cap A, B \ A \subseteq C \ A
  PROVE  /\ Jaccard(A, C).n <= Jaccard(A, B).n
         /\ Jaccard(A, B).d <= Jaccard(A, C).d
<1>1. IsFiniteSet(A \cap B) /\ IsFiniteSet(A \cup C)
  BY FS_Union, FS_Intersection
<1>2. A \cap C \subseteq A \cap B /\ A \cup B \subseteq A \cup C
  OBVIOUS
<1>3. Cardinality(A \cap C) <= Cardinality(A \cap B)
  BY <1>1, <1>2, FS_Subset
<1>4. Cardinality(A \cup B) <= Cardinality(A \cup C)
  BY <1>1, <1>2, FS_Subset
<1> QED
  BY <1>3, <1>4, JaccardOf

\* What recommendations are asked for with.
Wish(pref) ==
  /\ pref.latitude \in Places /\ pref.longitude \in Places \cup {Zero}
  /\ pref.distance \in Nat /\ pref.price \in Nat /\ IsFiniteSet(pref.amenities)

\* The parts of a score.
Near(pref, x) ==
  Nearness(Km[<<pref.latitude, pref.longitude, x.place>>], pref.distance)
Cheap(pref, x) == PriceScore(pref.price, x.price)
Typed(pref, x) == IF pref.type = x.type THEN 1 ELSE 0
Rich(pref, x) == Jaccard(pref.amenities, x.amenities)
Base(pref, x) ==
  (40 * Near(pref, x).n) * Cheap(pref, x).d + (30 * Cheap(pref, x).n) * Near(pref, x).d
  + (15 * Typed(pref, x)) * (Near(pref, x).d * Cheap(pref, x).d)

LEMMA NearMore ==
  ASSUME NEW pref, Wish(pref), NEW q \in Rooms, NEW r \in Rooms, Suits(pref, r, q)
  PROVE  /\ Near(pref, r).d \in Nat \ {0} /\ Near(pref, q).d = Near(pref, r).d
         /\ Near(pref, r).n \in Nat /\ Near(pref, q).n \in Nat
         /\ Near(pref, q).n <= Near(pref, r).n
<1>1. r.place \in Places /\ q.place \in Places
  BY RoomsAssumption
<1>2. /\ <<pref.latitude, pref.longitude, r.place>> \in Places \X (Places \cup {Zero}) \X Places
      /\ <<pref.latitude, pref.longitude, q.place>> \in Places \X (Places \cup {Zero}) \X Places
  BY <1>1 DEF Wish
<1>3. /\ Km[<<pref.latitude, pref.longitude, r.place>>] \in Nat
      /\ Km[<<pref.latitude, pref.longitude, q.place>>] \in Nat
  BY <1>2, KmAssumption
<1>4. Km[<<pref.latitude, pref.longitude, r.place>>]
        <= Km[<<pref.latitude, pref.longitude, q.place>>]
  BY DEF Suits
<1>5. pref.distance \in Nat
  BY DEF Wish
<1> QED
  BY <1>3, <1>4, <1>5, NearnessOf DEF Near

LEMMA CheapMore ==
  ASSUME NEW pref, Wish(pref), NEW q \in Rooms, NEW r \in Rooms, Suits(pref, r, q)
  PROVE  /\ Cheap(pref, r).d \in Nat \ {0} /\ Cheap(pref, q).d = Cheap(pref, r).d
         /\ Cheap(pref, r).n \in Nat /\ Cheap(pref, q).n \in Nat
         /\ Cheap(pref, q).n <= Cheap(pref, r).n
<1>1. r.price \in Int /\ q.price \in Int /\ pref.price \in Nat
  BY RoomsAssumption DEF Wish
<1>2. Deviation(pref.price, r.price) \in Nat /\ Deviation(pref.price, q.price) \in Nat
  BY <1>1 DEF Deviation
<1>3. Deviation(pref.price, r.price) <= Deviation(pref.price, q.price)
  BY DEF Suits
<1> QED
  BY <1>1, <1>2, <1>3, NearnessOf DEF Cheap, PriceScore

LEMMA TypedMore ==
  ASSUME NEW pref, NEW q, NEW r, Suits(pref, r, q)
  PROVE  /\ Typed(pref, r) \in {0, 1} /\ Typed(pref, q) \in {0, 1}
         /\ Typed(pref, q) <= Typed(pref, r)
         /\ r.type = pref.type /\ q.type # pref.type => Typed(pref, q) < Typed(pref, r)
BY DEF Suits, Typed

LEMMA RichMore ==
  ASSUME NEW pref, Wish(pref), NEW q \in Rooms, NEW r \in Rooms, Suits(pref, r, q),
         Comparable(pref, r), Comparable(pref, q)
  PROVE  /\ Rich(pref, r).d \in Nat \ {0} /\ Rich(pref, q).d \in Nat \ {0}
         /\ Rich(pref, r).n \in Nat /\ Rich(pref, q).n \in Nat
         /\ Rich(pref, q).n <= Rich(pref, r).n /\ Rich(pref, r).d <= Rich(pref, q).d
<1>1. IsFiniteSet(pref.amenities) /\ IsFiniteSet(q.amenities) /\ IsFiniteSet(r.amenities)
  BY RoomsAssumption DEF Wish
<1>2. pref.amenities \cup r.amenities # {} /\ pref.amenities \cup q.amenities # {}
  BY DEF Comparable
<1>3. /\ q.amenities \cap pref.amenities \subseteq r.amenities \cap pref.amenities
      /\ r.amenities \ pref.amenities \subseteq q.amenities \ pref.amenities
  BY DEF Suits
<1>4. /\ Rich(pref, r).d \in Nat \ {0} /\ Rich(pref, q).d \in Nat \ {0}
      /\ Rich(pref, r).n \in Nat /\ Rich(pref, q).n \in Nat
  BY <1>1, <1>2, JaccardOf DEF Rich
<1>5. Rich(pref, q).n <= Rich(pref, r).n /\ Rich(pref, r).d <= Rich(pref, q).d
  BY <1>1, <1>2, <1>3, JaccardMore DEF Rich
<1> QED
  BY <1>4, <1>5

\* The base of a score, everything but the amenities.
LEMMA BaseMore ==
  ASSUME NEW pref, Wish(pref), NEW q \in Rooms, NEW r \in Rooms, Suits(pref, r, q)
  PROVE  /\ Base(pref, r) \in Nat /\ Base(pref, q) \in Nat
         /\ Base(pref, q) <= Base(pref, r)
         /\ r.type = pref.type /\ q.type # pref.type => Base(pref, q) < Base(pref, r)
<1>1. PICK L \in Nat, P \in Nat, m \in Nat :
        /\ Near(pref, r).d = L /\ Near(pref, q).d = L
        /\ Cheap(pref, r).d = P /\ Cheap(pref, q).d = P
        /\ m = L * P /\ m # 0
  <2>1. PICK L \in Nat, P \in Nat :
          /\ Near(pref, r).d = L /\ Near(pref, q).d = L /\ L # 0
          /\ Cheap(pref, r).d = P /\ Cheap(pref, q).d = P /\ P # 0
    BY NearMore, CheapMore
  <2>2. L * P \in Nat /\ L * P # 0
    BY <2>1, TimesMore
  <2> QED
    BY <2>1, <2>2
<1>2. PICK a \in Nat, b \in Nat :
        a = 40 * Near(pref, q).n /\ b = 40 * Near(pref, r).n /\ a <= b
  BY NearMore
<1>3. PICK c \in Nat, e \in Nat :
        c = 30 * Cheap(pref, q).n /\ e = 30 * Cheap(pref, r).n /\ c <= e
  BY CheapMore
<1>4. PICK f \in Nat, g \in Nat :
        /\ f = 15 * Typed(pref, q) /\ g = 15 * Typed(pref, r) /\ f <= g
        /\ r.type = pref.type /\ q.type # pref.type => f < g
  BY TypedMore
<1>5. /\ Base(pref, q) = a * P + c * L + f * m
      /\ Base(pref, r) = b * P + e * L + g * m
  BY <1>1, <1>2, <1>3, <1>4 DEF Base
<1>6. PICK a1 \in Nat, b1 \in Nat : a1 = a * P /\ b1 = b * P /\ a1 <= b1
  BY <1>2, TimesMore
<1>7. PICK c1 \in Nat, e1 \in Nat : c1 = c * L /\ e1 = e * L /\ c1 <= e1
  BY <1>3, TimesMore
<1>8. PICK f1 \in Nat, g1 \in Nat :
        /\ f1 = f * m /\ g1 = g * m /\ f1 <= g1
        /\ r.type = pref.type /\ q.type # pref.type => f1 < g1
  <2>1. f * m \in Nat /\ g * m \in Nat /\ f * m <= g * m
    BY <1>4, TimesMore
  <2>2. f < g => f * m < g * m
    BY <1>1, TimesMore
  <2> QED
    BY <1>4, <2>1, <2>2
<1>9. Base(pref, q) = a1 + c1 + f1 /\ Base(pref, r) = b1 + e1 + g1
  BY <1>5, <1>6, <1>7, <1>8
<1> QED
  BY <1>6, <1>7, <1>8, <1>9

LEMMA ScoreParts ==
  ASSUME NEW pref, NEW x,
         Near(pref, x).n \in Nat, Near(pref, x).d \in Nat, Cheap(pref, x).n \in Nat,
         Cheap(pref, x).d \in Nat, Typed(pref, x) \in Nat, Rich(pref, x).n \in Nat,
         Rich(pref, x).d \in Nat
  PROVE  /\ Score(pref, x).n = Base(pref, x) * Rich(pref, x).d
              + 15 * (Rich(pref, x).n * (Near(pref, x).d * Cheap(pref, x).d))
         /\ Score(pref, x).d = (Near(pref, x).d * Cheap(pref, x).d) * Rich(pref, x).d
<1>1. PICK l \in Nat, k \in Nat, L \in Nat, P \in Nat, t \in Nat, a \in Nat, w \in Nat :
        /\ Near(pref, x).n = l /\ Near(pref, x).d = L /\ Cheap(pref, x).n = k
        /\ Cheap(pref, x).d = P /\ Typed(pref, x) = t /\ Rich(pref, x).n = a
        /\ Rich(pref, x).d = w
  OBVIOUS
<1>2. /\ Score(pref, x).n = 40 * l * P * w + 30 * k * L * w + 15 * t * L * P * w
                              + 15 * a * L * P
      /\ Score(pref, x).d = L * P * w
  BY <1>1 DEF Score, Near, Cheap, Typed, Rich
<1>3. Base(pref, x) = (40 * l) * P + (30 * k) * L + (15 * t) * (L * P)
  BY <1>1 DEF Base
<1> QED
  BY <1>1, <1>2, <1>3

\* A room that suits no less than another with amenities to compare scores no
\* less; more, if only it has the property type; and passes if the other does.
LEMMA BetterScore ==
  ASSUME NEW pref, Wish(pref), NEW q \in Rooms, NEW r \in Rooms, Suits(pref, r, q),
         Comparable(pref, r), Comparable(pref, q)
  PROVE  /\ r.type = pref.type /\ q.type # pref.type => ~Ahead(pref, q, r)
         /\ Passes(pref, q) => Passes(pref, r)
<1>1. PICK L \in Nat, P \in Nat, m \in Nat \ {0} :
        /\ Near(pref, r).d = L /\ Near(pref, q).d = L
        /\ Cheap(pref, r).d = P /\ Cheap(pref, q).d = P /\ m = L * P
  <2>1. PICK L \in Nat, P \in Nat :
          /\ Near(pref, r).d = L /\ Near(pref, q).d = L /\ L # 0
          /\ Cheap(pref, r).d = P /\ Cheap(pref, q).d = P /\ P # 0
    BY NearMore, CheapMore
  <2>2. L * P \in Nat /\ L * P # 0
    BY <2>1, TimesMore
  <2> QED
    BY <2>1, <2>2
<1>2. PICK b \in Nat, c \in Nat :
        /\ b = Base(pref, r) /\ c = Base(pref, q) /\ c <= b
        /\ r.type = pref.type /\ q.type # pref.type => c < b
  BY BaseMore
<1>3. PICK x \in Nat, y \in Nat, w \in Nat \ {0}, v \in Nat \ {0} :
        /\ Rich(pref, r).n = x /\ Rich(pref, r).d = w
        /\ Rich(pref, q).n = y /\ Rich(pref, q).d = v /\ y <= x /\ w <= v
  BY RichMore
<1>4. PICK s \in Nat : /\ s = b * w + 15 * (x * m)
                       /\ s = Score(pref, r).n /\ Score(pref, r).d = m * w
  <2>1. Near(pref, r).n \in Nat /\ Cheap(pref, r).n \in Nat /\ Typed(pref, r) \in Nat
    BY NearMore, CheapMore, TypedMore
  <2>2. Score(pref, r).n = Base(pref, r) * w + 15 * (x * (L * P))
        /\ Score(pref, r).d = (L * P) * w
    BY <1>1, <1>3, <2>1, ScoreParts
  <2>3. b * w + 15 * (x * m) \in Nat
    OBVIOUS
  <2> QED
    BY <1>1, <1>2, <2>2, <2>3
<1>5. PICK t \in Nat : /\ t = c * v + 15 * (y * m)
                       /\ t = Score(pref, q).n /\ Score(pref, q).d = m * v
  <2>1. Near(pref, q).n \in Nat /\ Cheap(pref, q).n \in Nat /\ Typed(pref, q) \in Nat
    BY NearMore, CheapMore, TypedMore
  <2>2. Score(pref, q).n = Base(pref, q) * v + 15 * (y * (L * P))
        /\ Score(pref, q).d = (L * P) * v
    BY <1>1, <1>3, <2>1, ScoreParts
  <2>3. c * v + 15 * (y * m) \in Nat
    OBVIOUS
  <2> QED
    BY <1>1, <1>2, <2>2, <2>3
<1>6. /\ c < b => t * (m * w) < s * (m * v)
      /\ 30 * (m * v) < t => 30 * (m * w) < s
  <2>1. c <= b /\ y <= x /\ w <= v
    BY <1>2, <1>3
  <2>2. s = b * w + 15 * (x * m) /\ t = c * v + 15 * (y * m)
    BY <1>4, <1>5
  <2> QED
    BY <2>1, <2>2, Outweighs
<1>7. m * w \in Nat /\ m * v \in Nat
  OBVIOUS
<1>8. Passes(pref, q) => Passes(pref, r)
  BY <1>4, <1>5, <1>6, <1>7 DEF Passes
<1>9. ASSUME r.type = pref.type, q.type # pref.type PROVE ~Ahead(pref, q, r)
  <2>1. t * (m * w) < s * (m * v)
    BY <1>2, <1>6, <1>9
  <2>2. t * (m * w) \in Nat /\ s * (m * v) \in Nat
    BY <1>7
  <2>3. ~(t * (m * w) >= s * (m * v))
    BY <2>1, <2>2
  <2>4. Ahead(pref, q, r) <=> t * (m * w) >= s * (m * v)
    BY <1>4, <1>5 DEF Ahead
  <2> QED
    BY <2>3, <2>4
<1> QED
  BY <1>8, <1>9

\* A room without amenities to compare does not pass: its score is 0/0.
LEMMA PassesComparable ==
  ASSUME NEW pref, Wish(pref), NEW q \in Rooms, Passes(pref, q)
  PROVE  Comparable(pref, q)
<1> SUFFICES ASSUME ~Comparable(pref, q) PROVE FALSE
  OBVIOUS
<1>1. Rich(pref, q).n = 0 /\ Rich(pref, q).d = 0
  BY DEF Rich, Jaccard, NaN, Comparable
<1>2. Suits(pref, q, q)
  <2>1. Km[<<pref.latitude, pref.longitude, q.place>>] \in Nat
    <3>1. q.place \in Places
      BY RoomsAssumption
    <3>2. <<pref.latitude, pref.longitude, q.place>>
            \in Places \X (Places \cup {Zero}) \X Places
      BY <3>1 DEF Wish
    <3> QED
      BY <3>2, KmAssumption
  <2>2. Deviation(pref.price, q.price) \in Int
    BY RoomsAssumption DEF Deviation, Wish
  <2> QED
    BY <2>1, <2>2 DEF Suits
<1>3. PICK b \in Nat : b = Base(pref, q)
  BY <1>2, BaseMore
<1>4. PICK L \in Nat, P \in Nat : Near(pref, q).d = L /\ Cheap(pref, q).d = P
  BY <1>2, NearMore, CheapMore
<1>5. Score(pref, q).n = b * 0 + 15 * (0 * (L * P)) /\ Score(pref, q).d = (L * P) * 0
  <2>1. Near(pref, q).n \in Nat /\ Cheap(pref, q).n \in Nat /\ Typed(pref, q) \in Nat
    BY <1>2, NearMore, CheapMore, TypedMore
  <2>2. Score(pref, q).n = Base(pref, q) * 0 + 15 * (0 * (L * P))
        /\ Score(pref, q).d = (L * P) * 0
    BY <1>1, <1>4, <2>1, ScoreParts
  <2> QED
    BY <1>3, <2>2
<1>6. Score(pref, q).n = 0 /\ Score(pref, q).d = 0
  BY <1>5
<1> QED
  BY <1>6 DEF Passes

\* The list is the head of the sequence s of all rooms that pass, best first.
RankingOf(pref, seen, list, size, s) ==
  /\ s \in [1..size -> {r \in seen : Passes(pref, r)}]
  /\ \A r \in seen : Passes(pref, r) => \E k \in 1..size : s[k] = r
  /\ \A i, j \in 1..size : i # j => s[i] # s[j]
  /\ \A i, j \in 1..size : i < j => Ahead(pref, s[i], s[j])
  /\ Len(list) = Lesser(size, Limit)
  /\ \A i \in DOMAIN list : i \in 1..size /\ list[i] = s[i]
  /\ DOMAIN list = 1..Lesser(size, Limit)

\* A list of recommendations is the head of a ranking of all that pass.
LEMMA RankedList ==
  ASSUME NEW pref, NEW seen \in SUBSET Rooms, NEW list \in Recommendations(pref, seen)
  PROVE  \E size \in Nat : \E s : RankingOf(pref, seen, list, size, s)
<1> DEFINE passing == {r \in seen : Passes(pref, r)}
           size == Cardinality(passing)
<1>1. IsFiniteSet(passing)
  <2>1. IsFiniteSet(Rooms) /\ passing \in SUBSET Rooms
    BY RoomsAssumption
  <2> QED
    BY <2>1, FS_Subset
<1>2. size \in Nat
  BY <1>1, FS_CardinalityType
<1>3. PICK s \in [1..size -> passing] :
        /\ \A i, j \in 1..size : i # j => s[i] # s[j]
        /\ \A i, j \in 1..size : i < j => Ahead(pref, s[i], s[j])
        /\ list = SubSeq(s, 1, Lesser(size, Limit))
  BY DEF Recommendations
<1>4. \A r \in passing : \E k \in 1..size : s[k] = r
  <2>1. s \in Injection(1..size, passing)
    BY <1>3 DEF Injection, IsInjective
  <2>2. Cardinality(1..size) = size
    BY <1>2, FS_Interval
  <2>3. s \in Surjection(1..size, passing)
    BY <1>1, <2>1, <2>2, FS_Injection
  <2> QED
    BY <2>3 DEF Surjection
<1> HIDE DEF size, passing
<1>5. PICK n \in Nat : n = Lesser(size, Limit) /\ n <= size
  BY <1>2, RoomsAssumption DEF Lesser
<1>6. s \in Seq(passing) /\ Len(s) = size
  BY <1>2, <1>3
<1>7. list = [i \in 1..n |-> s[i]]
  BY <1>3, <1>5, <1>6
<1>8. /\ Len(list) = n /\ DOMAIN list = 1..n
      /\ \A i \in 1..n : i \in 1..size /\ list[i] = s[i]
  BY <1>2, <1>5, <1>7
<1>9. RankingOf(pref, seen, list, size, s)
  BY <1>3, <1>4, <1>5, <1>8 DEF RankingOf, passing
<1> QED
  BY <1>2, <1>9

\* The same, as BetterRoomComesFirst says it of one list.
LEMMA BetterInList ==
  ASSUME NEW pref, Wish(pref), NEW seen \in SUBSET Rooms,
         NEW list \in Recommendations(pref, seen), NEW q \in seen, NEW r \in seen,
         Comparable(pref, r), Suits(pref, r, q), NEW p \in DOMAIN list, list[p] = q
  PROVE  /\ (\E i \in DOMAIN list : list[i] = r) \/ Len(list) = Limit
         /\ r.type = pref.type /\ q.type # pref.type =>
              \E i \in DOMAIN list :
                list[i] = r /\ \A j \in DOMAIN list : list[j] = q => i < j
<1>1. PICK size \in Nat : \E s : RankingOf(pref, seen, list, size, s)
  BY RankedList
<1>2. PICK s \in [1..size -> {x \in seen : Passes(pref, x)}] :
           /\ \A x \in seen : Passes(pref, x) => \E k \in 1..size : s[k] = x
           /\ \A i, j \in 1..size : i # j => s[i] # s[j]
           /\ \A i, j \in 1..size : i < j => Ahead(pref, s[i], s[j])
           /\ Len(list) = Lesser(size, Limit)
           /\ \A i \in DOMAIN list : i \in 1..size /\ list[i] = s[i]
           /\ DOMAIN list = 1..Lesser(size, Limit)
  BY <1>1 DEF RankingOf
<1>3. Passes(pref, q)
  BY <1>2
<1>4. Comparable(pref, q)
  BY <1>3, PassesComparable
<1>5. Passes(pref, r)
  BY <1>3, <1>4, BetterScore
<1>6. PICK k \in 1..size : s[k] = r
  BY <1>2, <1>5
<1>7. PICK n \in Nat : n = Lesser(size, Limit) /\ n <= size /\ (n = size \/ n = Limit)
  BY RoomsAssumption DEF Lesser
<1>8. DOMAIN list = 1..n /\ Len(list) = n
  BY <1>2, <1>7
<1>9. (\E i \in DOMAIN list : list[i] = r) \/ Len(list) = Limit
  <2>1. CASE n = size
    BY <1>2, <1>6, <1>8, <2>1
  <2>2. CASE n = Limit
    BY <1>8, <2>2
  <2> QED
    BY <1>7, <2>1, <2>2
<1>10. ASSUME r.type = pref.type, q.type # pref.type
       PROVE  \E i \in DOMAIN list :
                list[i] = r /\ \A j \in DOMAIN list : list[j] = q => i < j
  <2>1. ~Ahead(pref, q, r)
    BY <1>4, <1>10, BetterScore
  <2>2. r # q
    BY <1>10
  <2>3. ASSUME NEW j \in DOMAIN list, list[j] = q PROVE k < j
    <3>1. j \in 1..size /\ s[j] = q
      BY <1>2, <2>3
    <3>2. ~(j < k)
      BY <1>2, <1>6, <2>1, <3>1
    <3>3. j # k
      BY <1>6, <2>2, <3>1
    <3> QED
      BY <3>1, <3>2, <3>3
  <2>4. k < p /\ p \in 1..n
    BY <1>8, <2>3
  <2>5. k \in DOMAIN list
    BY <1>8, <2>4
  <2>6. list[k] = r
    BY <1>2, <1>6, <2>5
  <2> QED
    BY <2>3, <2>5, <2>6
<1> QED
  BY <1>9, <1>10

\* A home page that reads rooms has preferences, and the list it shows are the
\* recommendations by its preferences among its rooms.
RankedHome(h) ==
  /\ h.at \in {"rooms", "shown"} => h.doc \in Doc
  /\ h.at = "shown" => h.list \in Recommendations(Prefs(h.doc), h.rooms)
Ranked == \A d \in Devices : RankedHome(home[d])

LEMMA DocWishes ==
  ASSUME NEW w \in Doc
  PROVE  Wish(Prefs(w))
<1>1. /\ w.latitude \in Places /\ w.longitude \in Places \cup {Zero}
      /\ w.numbers \in Numbers /\ w.choice \in Choices
  BY DocFields
<1>2. w.numbers.distance \in Nat /\ w.numbers.price \in Nat
  BY <1>1, NumbersAssumption
<1>3. IsFiniteSet(w.choice.amenities)
  BY <1>1, ChoicesAssumption
<1> QED
  BY <1>1, <1>2, <1>3 DEF Wish, Prefs

LEMMA RankedBetter == Inv /\ Ranked => BetterRoomComesFirst
<1> SUFFICES ASSUME Inv, Ranked, NEW d \in Devices, home[d].at = "shown",
                    NEW q \in home[d].rooms, NEW r \in home[d].rooms,
                    NEW p \in DOMAIN home[d].list, home[d].list[p] = q,
                    Comparable(Prefs(home[d].doc), r), Suits(Prefs(home[d].doc), r, q)
             PROVE  LET pref == Prefs(home[d].doc)
                        list == home[d].list
                        At(x) == {i \in DOMAIN list : list[i] = x}
                    IN /\ At(r) # {} \/ Len(list) = Limit
                       /\ (r.type = pref.type /\ q.type # pref.type) =>
                            \E i \in At(r) : \A j \in At(q) : i < j
  BY DEF BetterRoomComesFirst
<1> DEFINE pref == Prefs(home[d].doc)
           list == home[d].list
           seen == home[d].rooms
<1>1. seen \in SUBSET Rooms
  BY DEF Inv, TypeOK
<1>2. Wish(pref) /\ list \in Recommendations(pref, seen)
  BY DocWishes DEF Ranked, RankedHome
<1>3. /\ (\E i \in DOMAIN list : list[i] = r) \/ Len(list) = Limit
      /\ r.type = pref.type /\ q.type # pref.type =>
           \E i \in DOMAIN list :
             list[i] = r /\ \A j \in DOMAIN list : list[j] = q => i < j
  <2> HIDE DEF pref, list, seen
  <2>1. /\ q \in seen /\ r \in seen /\ p \in DOMAIN list /\ list[p] = q
        /\ Comparable(pref, r) /\ Suits(pref, r, q)
    BY DEF pref, list, seen
  <2> QED
    BY <1>1, <1>2, <2>1, BetterInList
<1> QED
  BY <1>3

LEMMA InitRanked == Init => Ranked
BY DEF Init, Ranked, RankedHome, NoHome

LEMMA StepRanked ==
  ASSUME Inv, Ranked, NEW d \in Devices, PageStep(d) \/ HomeStep(d)
  PROVE  Ranked'
<1>1. ASSUME NEW h, RankedHome(h), home' = [home EXCEPT ![d] = h]
      PROVE  Ranked'
  BY <1>1 DEF Ranked, Inv, TypeOK
<1>2. RankedHome(NoHome) /\ RankedHome([NoHome EXCEPT !.at = "preferences"])
  BY DEF RankedHome, NoHome
<1>3. CASE BuildHome(d) \/ HomeFails(d) \/ Restart(d)
  BY <1>1, <1>2, <1>3 DEF BuildHome, HomeFails, Restart
<1>4. CASE PreferencesRead(d)
  <2>1. PICK doc \in Found(d) :
          home' = [home EXCEPT ![d].doc = doc,
                               ![d].at = IF doc = NoDoc THEN "idle" ELSE "rooms"]
    BY <1>4 DEF PreferencesRead
  <2> DEFINE h == [home[d] EXCEPT !.doc = doc,
                                  !.at = IF doc = NoDoc THEN "idle" ELSE "rooms"]
  <2>2. home' = [home EXCEPT ![d] = h]
    BY <2>1
  <2>3. home[d] \in HomeState
    BY DEF Inv, TypeOK, HomeState
  <2>4. h.doc = doc /\ h.at = IF doc = NoDoc THEN "idle" ELSE "rooms"
    BY <2>3 DEF HomeState
  <2> HIDE DEF h
  <2>5. RankedHome(h)
    BY <2>4, FoundDoc DEF RankedHome, Inv
  <2> QED
    BY <1>1, <2>2, <2>5
<1>5. CASE RoomsRead(d)
  <2>1. PICK seen \in SUBSET Rooms :
          \E list \in Recommendations(Prefs(home[d].doc), seen) :
            home' = [home EXCEPT ![d].at = "shown", ![d].rooms = seen, ![d].list = list]
    BY <1>5, RoomsAssumption DEF RoomsRead
  <2>2. PICK list \in Recommendations(Prefs(home[d].doc), seen) :
          home' = [home EXCEPT ![d].at = "shown", ![d].rooms = seen, ![d].list = list]
    BY <2>1
  <2> DEFINE h == [home[d] EXCEPT !.at = "shown", !.rooms = seen, !.list = list]
  <2>3. home' = [home EXCEPT ![d] = h]
    BY <2>2
  <2>4. home[d] \in HomeState
    BY DEF Inv, TypeOK, HomeState
  <2>5. h.doc = home[d].doc /\ h.at = "shown" /\ h.rooms = seen /\ h.list = list
    BY <2>4 DEF HomeState
  <2>6. home[d].doc \in Doc
    BY <1>5 DEF RoomsRead, Ranked, RankedHome
  <2> HIDE DEF h
  <2>7. RankedHome(h)
    BY <2>2, <2>5, <2>6 DEF RankedHome
  <2> QED
    BY <1>1, <2>3, <2>7
<1>6. CASE UNCHANGED home
  BY <1>6 DEF Ranked
<1>7. CASE PageStep(d) /\ ~Restart(d)
  <2>1. UNCHANGED home
    BY <1>7 DEF PageStep, OpenPage, ClosePage, LoadAnswered, LoadFails, LoadDone,
                PickPlace, Type, Choose, Edit, Save, Commit
  <2> QED
    BY <1>6, <2>1
<1> QED
  BY <1>3, <1>4, <1>5, <1>7 DEF HomeStep

LEMMA NextRanked == Inv /\ Ranked /\ [Next]_vars => Ranked'
<1> SUFFICES ASSUME Inv, Ranked, [Next]_vars PROVE Ranked'
  OBVIOUS
<1>1. CASE UNCHANGED vars
  BY <1>1 DEF vars, Ranked
<1>2. CASE Next
  BY <1>2, StepRanked DEF Next
<1> QED
  BY <1>1, <1>2

\* Of two rooms that were read, the one that suits the tenant no less than a
\* recommended one is recommended too while there is room in the list, and
\* comes first if only it has the property type, whatever the preferences, the
\* rooms and the distances: scores, their threshold and the sort agree.
THEOREM BetterFirst == Spec => []BetterRoomComesFirst
BY InitInv, NextInv, InitRanked, NextRanked, RankedBetter, PTL DEF Spec

-----------------------------------------------------------------------------
(* Scores as percentages, the order they make, and the best of the rooms.   *)

LEMMA NearnessShare ==
  ASSUME NEW x \in Nat, NEW bound \in Nat
  PROVE  /\ Nearness(x, bound).n \in Nat /\ Nearness(x, bound).d \in Nat \ {0}
         /\ Nearness(x, bound).n <= Nearness(x, bound).d
<1>1. CASE bound = 0
  BY <1>1 DEF Nearness
<1>2. CASE bound # 0
  <2>1. Lesser(x, bound) \in Nat /\ Lesser(x, bound) <= bound
    BY DEF Lesser
  <2> QED
    BY <1>2, <2>1 DEF Nearness
<1> QED
  BY <1>1, <1>2

\* Every part of a room's score is a share of its own weight.
LEMMA PartShares ==
  ASSUME NEW pref, Wish(pref), NEW r \in Rooms, Comparable(pref, r)
  PROVE  /\ Near(pref, r).n \in Nat /\ Near(pref, r).d \in Nat \ {0}
         /\ Near(pref, r).n <= Near(pref, r).d
         /\ Cheap(pref, r).n \in Nat /\ Cheap(pref, r).d \in Nat \ {0}
         /\ Cheap(pref, r).n <= Cheap(pref, r).d
         /\ Typed(pref, r) \in {0, 1}
         /\ Rich(pref, r).n \in Nat /\ Rich(pref, r).d \in Nat \ {0}
         /\ Rich(pref, r).n <= Rich(pref, r).d
<1>1. /\ Near(pref, r).n \in Nat /\ Near(pref, r).d \in Nat \ {0}
      /\ Near(pref, r).n <= Near(pref, r).d
  <2>1. <<pref.latitude, pref.longitude, r.place>> \in Places \X (Places \cup {Zero}) \X Places
    BY RoomsAssumption DEF Wish
  <2>2. Km[<<pref.latitude, pref.longitude, r.place>>] \in Nat /\ pref.distance \in Nat
    BY <2>1, KmAssumption DEF Wish
  <2> QED
    BY <2>2, NearnessShare DEF Near
<1>2. /\ Cheap(pref, r).n \in Nat /\ Cheap(pref, r).d \in Nat \ {0}
      /\ Cheap(pref, r).n <= Cheap(pref, r).d
  <2>1. r.price \in Int /\ pref.price \in Nat
    BY RoomsAssumption DEF Wish
  <2>2. Deviation(pref.price, r.price) \in Nat
    BY <2>1 DEF Deviation
  <2> QED
    BY <2>1, <2>2, NearnessShare DEF Cheap, PriceScore
<1>3. /\ Rich(pref, r).n \in Nat /\ Rich(pref, r).d \in Nat \ {0}
      /\ Rich(pref, r).n <= Rich(pref, r).d
  <2>1. IsFiniteSet(pref.amenities) /\ IsFiniteSet(r.amenities)
    BY RoomsAssumption DEF Wish
  <2>2. IsFiniteSet(pref.amenities \cup r.amenities)
    BY <2>1, FS_Union
  <2>3. pref.amenities \cap r.amenities \subseteq pref.amenities \cup r.amenities
    OBVIOUS
  <2>4. Cardinality(pref.amenities \cap r.amenities) <= Cardinality(pref.amenities \cup r.amenities)
    BY <2>2, <2>3, FS_Subset
  <2>5. pref.amenities \cup r.amenities # {}
    BY DEF Comparable
  <2> QED
    BY <2>1, <2>4, <2>5, JaccardOf DEF Rich
<1>4. Typed(pref, r) \in {0, 1}
  BY DEF Typed
<1> QED
  BY <1>1, <1>2, <1>3, <1>4

\* A score is a number of hundredths between 0 and 100 for every room with
\* amenities to compare, whatever the preferences, even a distance or a price
\* of 0, by which the code divides: the threshold of 30 is one in this range.
THEOREM ScoreRange ==
  ASSUME NEW pref, Wish(pref), NEW r \in Rooms, Comparable(pref, r)
  PROVE  /\ Score(pref, r).n \in Nat /\ Score(pref, r).d \in Nat \ {0}
         /\ Score(pref, r).n <= 100 * Score(pref, r).d
<1>1. PICK l \in Nat, L \in Nat, k \in Nat, P \in Nat, t \in Nat, a \in Nat, w \in Nat :
        /\ Near(pref, r).n = l /\ Near(pref, r).d = L /\ l <= L /\ L # 0
        /\ Cheap(pref, r).n = k /\ Cheap(pref, r).d = P /\ k <= P /\ P # 0
        /\ Typed(pref, r) = t /\ t <= 1
        /\ Rich(pref, r).n = a /\ Rich(pref, r).d = w /\ a <= w /\ w # 0
  <2>1. PICK l \in Nat, L \in Nat : Near(pref, r).n = l /\ Near(pref, r).d = L /\ l <= L /\ L # 0
    BY PartShares
  <2>2. PICK k \in Nat, P \in Nat : Cheap(pref, r).n = k /\ Cheap(pref, r).d = P /\ k <= P /\ P # 0
    BY PartShares
  <2>3. PICK t \in Nat : Typed(pref, r) = t /\ t <= 1
    BY PartShares
  <2>4. PICK a \in Nat, w \in Nat : Rich(pref, r).n = a /\ Rich(pref, r).d = w /\ a <= w /\ w # 0
    BY PartShares
  <2> QED
    BY <2>1, <2>2, <2>3, <2>4
<1>2. PICK m \in Nat : m = L * P /\ m # 0
  <2>1. L * P \in Nat /\ L * P # 0
    BY <1>1, TimesMore
  <2> QED
    BY <2>1
<1>3. PICK g \in Nat : g = m * w /\ g # 0
  <2>1. m * w \in Nat /\ m * w # 0
    BY <1>1, <1>2, TimesMore
  <2> QED
    BY <2>1
<1>4. PICK b \in Nat : b = Base(pref, r) /\ b <= 85 * m
  <2>1. PICK x \in Nat : x = l * P /\ x <= m
    <3>1. l * P \in Nat /\ l * P <= L * P
      BY <1>1, TimesMore
    <3> QED
      BY <1>2, <3>1
  <2>2. PICK y \in Nat : y = k * L /\ y <= m
    <3>1. k * L \in Nat /\ k * L <= P * L /\ P * L = L * P
      BY <1>1, TimesMore
    <3> QED
      BY <1>2, <3>1
  <2>3. PICK z \in Nat : z = t * m /\ z <= m
    <3>1. t = 0 \/ t = 1
      BY <1>1
    <3> QED
      BY <3>1
  <2>4. Base(pref, r) = (40 * l) * P + (30 * k) * L + (15 * t) * (L * P)
    BY <1>1 DEF Base
  <2>5. /\ (40 * l) * P = 40 * (l * P) /\ (30 * k) * L = 30 * (k * L)
        /\ (15 * t) * (L * P) = 15 * (t * (L * P))
    OBVIOUS
  <2>6. Base(pref, r) = 40 * x + 30 * y + 15 * z
    BY <1>2, <2>1, <2>2, <2>3, <2>4, <2>5
  <2> QED
    BY <2>1, <2>2, <2>3, <2>6
<1>5. PICK s \in Nat : s = b * w /\ s <= 85 * g
  <2>1. 85 * m \in Nat /\ b * w \in Nat
    OBVIOUS
  <2>2. b * w <= (85 * m) * w
    BY <1>4, <2>1, TimesMore
  <2>3. (85 * m) * w = 85 * (m * w)
    OBVIOUS
  <2> QED
    BY <1>3, <2>1, <2>2, <2>3
<1>6. PICK u \in Nat : u = a * m /\ u <= g
  <2>1. a * m \in Nat /\ a * m <= w * m /\ w * m = m * w
    BY <1>1, TimesMore
  <2> QED
    BY <1>3, <2>1
<1>7. Score(pref, r).n = b * w + 15 * (a * (L * P)) /\ Score(pref, r).d = (L * P) * w
  BY <1>1, <1>4, ScoreParts
<1>8. Score(pref, r).n = s + 15 * u /\ Score(pref, r).d = g
  BY <1>2, <1>3, <1>5, <1>6, <1>7
<1> QED
  BY <1>3, <1>5, <1>6, <1>8

\* Of fractions a/b, c/e and x/y.
LEMMA FractionsCompare ==
  ASSUME NEW a \in Nat, NEW b \in Nat \ {0}, NEW c \in Nat, NEW e \in Nat \ {0},
         NEW x \in Nat, NEW y \in Nat \ {0}
  PROVE  /\ a * e >= c * b \/ c * b >= a * e
         /\ a * e >= c * b /\ c * y >= x * e => a * y >= x * b
<1>1. PICK ae \in Nat, cb \in Nat, cy \in Nat, xe \in Nat, ay \in Nat, xb \in Nat :
        ae = a * e /\ cb = c * b /\ cy = c * y /\ xe = x * e /\ ay = a * y /\ xb = x * b
  OBVIOUS
<1>2. ASSUME cb <= ae, xe <= cy PROVE xb <= ay
  <2>1. cb * y <= ae * y
    BY <1>2, TimesMore
  <2>2. xe * b <= cy * b
    BY <1>2, TimesMore
  <2>3. cb * y = cy * b
    BY <1>1
  <2>4. ae * y = ay * e /\ xe * b = xb * e
    BY <1>1
  <2>5. /\ cb * y \in Nat /\ ae * y \in Nat /\ xe * b \in Nat
        /\ ay * e \in Nat /\ xb * e \in Nat
    OBVIOUS
  <2>6. xb * e <= ay * e
    BY <2>1, <2>2, <2>3, <2>4, <2>5
  <2>7. ASSUME ay < xb PROVE FALSE
    <3>1. ay * e < xb * e
      BY <2>7, TimesMore
    <3> QED
      BY <2>5, <2>6, <3>1
  <2> QED
    BY <2>7
<1> QED
  BY <1>1, <1>2

\* The comparison that getRecommendations sorts by orders the rooms that pass:
\* of two one is ahead, and who is ahead of a room is ahead of those behind it.
THEOREM SortOrders ==
  ASSUME NEW pref, Wish(pref), NEW p \in Rooms, NEW q \in Rooms, NEW r \in Rooms,
         Passes(pref, p), Passes(pref, q), Passes(pref, r)
  PROVE  /\ Ahead(pref, p, q) \/ Ahead(pref, q, p)
         /\ Ahead(pref, p, q) /\ Ahead(pref, q, r) => Ahead(pref, p, r)
<1>1. Comparable(pref, p) /\ Comparable(pref, q) /\ Comparable(pref, r)
  BY PassesComparable
<1>2. PICK a \in Nat, b \in Nat \ {0} : Score(pref, p).n = a /\ Score(pref, p).d = b
  BY <1>1, ScoreRange
<1>3. PICK c \in Nat, e \in Nat \ {0} : Score(pref, q).n = c /\ Score(pref, q).d = e
  BY <1>1, ScoreRange
<1>4. PICK x \in Nat, y \in Nat \ {0} : Score(pref, r).n = x /\ Score(pref, r).d = y
  BY <1>1, ScoreRange
<1>5. /\ Ahead(pref, p, q) <=> a * e >= c * b
      /\ Ahead(pref, q, p) <=> c * b >= a * e
      /\ Ahead(pref, q, r) <=> c * y >= x * e
      /\ Ahead(pref, p, r) <=> a * y >= x * b
  BY <1>2, <1>3, <1>4 DEF Ahead
<1> QED
  BY <1>5, FractionsCompare

\* The home page lists rooms it has read whose score passes, each once and the
\* better ones first, no more than fit, and leaves a passing room out only if
\* the list is full of rooms that score no less.
BestListed ==
  \A d \in Devices : home[d].at = "shown" =>
    LET pref == Prefs(home[d].doc)
        list == home[d].list
    IN /\ Len(list) <= Limit
       /\ \A i \in DOMAIN list : list[i] \in home[d].rooms /\ Passes(pref, list[i])
       /\ \A i, j \in DOMAIN list : i < j =>
            list[i] # list[j] /\ Ahead(pref, list[i], list[j])
       /\ \A r \in home[d].rooms : Passes(pref, r) =>
            \/ \E i \in DOMAIN list : list[i] = r
            \/ Len(list) = Limit /\ \A i \in DOMAIN list : Ahead(pref, list[i], r)

LEMMA BestOfRanking ==
  ASSUME NEW pref, NEW seen \in SUBSET Rooms, NEW list \in Recommendations(pref, seen)
  PROVE  /\ Len(list) <= Limit
         /\ \A i \in DOMAIN list : list[i] \in seen /\ Passes(pref, list[i])
         /\ \A i, j \in DOMAIN list : i < j =>
              list[i] # list[j] /\ Ahead(pref, list[i], list[j])
         /\ \A r \in seen : Passes(pref, r) =>
              \/ \E i \in DOMAIN list : list[i] = r
              \/ Len(list) = Limit /\ \A i \in DOMAIN list : Ahead(pref, list[i], r)
<1>1. PICK size \in Nat : \E s : RankingOf(pref, seen, list, size, s)
  BY RankedList
<1>2. PICK s \in [1..size -> {x \in seen : Passes(pref, x)}] :
           /\ \A x \in seen : Passes(pref, x) => \E k \in 1..size : s[k] = x
           /\ \A i, j \in 1..size : i # j => s[i] # s[j]
           /\ \A i, j \in 1..size : i < j => Ahead(pref, s[i], s[j])
           /\ Len(list) = Lesser(size, Limit)
           /\ \A i \in DOMAIN list : i \in 1..size /\ list[i] = s[i]
           /\ DOMAIN list = 1..Lesser(size, Limit)
  BY <1>1 DEF RankingOf
<1>3. PICK n \in Nat : n = Lesser(size, Limit) /\ n <= Limit /\ (n = size \/ n = Limit)
  BY RoomsAssumption DEF Lesser
<1>4. DOMAIN list = 1..n /\ Len(list) = n
  BY <1>2, <1>3
<1>5. \A i \in DOMAIN list : list[i] \in seen /\ Passes(pref, list[i])
  BY <1>2
<1>6. ASSUME NEW i \in DOMAIN list, NEW j \in DOMAIN list, i < j
      PROVE  list[i] # list[j] /\ Ahead(pref, list[i], list[j])
  <2>1. i \in 1..size /\ j \in 1..size /\ list[i] = s[i] /\ list[j] = s[j] /\ i # j
    BY <1>2, <1>6
  <2> QED
    BY <1>2, <1>6, <2>1
<1>7. ASSUME NEW r \in seen, Passes(pref, r)
      PROVE  \/ \E i \in DOMAIN list : list[i] = r
             \/ Len(list) = Limit /\ \A i \in DOMAIN list : Ahead(pref, list[i], r)
  <2>1. PICK k \in 1..size : s[k] = r
    BY <1>2, <1>7
  <2>2. CASE k <= n
    <3>1. k \in DOMAIN list
      BY <1>4, <2>2
    <3> QED
      BY <1>2, <2>1, <3>1
  <2>3. CASE ~(k <= n)
    <3>1. n = Limit
      BY <1>3, <2>3
    <3>2. ASSUME NEW i \in DOMAIN list PROVE Ahead(pref, list[i], r)
      <4>1. i \in 1..size /\ list[i] = s[i] /\ i < k
        BY <1>2, <1>4, <2>3
      <4> QED
        BY <1>2, <2>1, <4>1
    <3> QED
      BY <1>4, <3>1, <3>2
  <2> QED
    BY <2>2, <2>3
<1> QED
  BY <1>3, <1>4, <1>5, <1>6, <1>7

\* What the home page shows is the best of what it has read, by the preferences
\* it has read, however these change meanwhile.
THEOREM ShowsBest == Spec => []BestListed
<1>1. Inv /\ Ranked => BestListed
  <2> SUFFICES ASSUME Inv, Ranked, NEW d \in Devices, home[d].at = "shown"
               PROVE  LET pref == Prefs(home[d].doc)
                          list == home[d].list
                      IN /\ Len(list) <= Limit
                         /\ \A i \in DOMAIN list :
                              list[i] \in home[d].rooms /\ Passes(pref, list[i])
                         /\ \A i, j \in DOMAIN list : i < j =>
                              list[i] # list[j] /\ Ahead(pref, list[i], list[j])
                         /\ \A r \in home[d].rooms : Passes(pref, r) =>
                              \/ \E i \in DOMAIN list : list[i] = r
                              \/ /\ Len(list) = Limit
                                 /\ \A i \in DOMAIN list : Ahead(pref, list[i], r)
    BY DEF BestListed
  <2>1. home[d].rooms \in SUBSET Rooms
    BY DEF Inv, TypeOK
  <2>2. home[d].list \in Recommendations(Prefs(home[d].doc), home[d].rooms)
    BY DEF Ranked, RankedHome
  <2> QED
    BY <2>1, <2>2, BestOfRanking
<1> QED
  BY <1>1, InitInv, NextInv, InitRanked, NextRanked, PTL DEF Spec
=============================================================================
