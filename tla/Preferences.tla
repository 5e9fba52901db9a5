----------------------------- MODULE Preferences -----------------------------
(***************************************************************************)
(* A tenant's preferences: the page that loads, edits and saves them, the  *)
(* document behind it, and the recommendations on the home page.  The page *)
(* can be edited and saved before its load is answered.  Firestore is      *)
(* external: a set() is queued on the phone, visible there at once, sent   *)
(* in order and kept across restarts; a get() sees the server's document,  *)
(* offline the one the phone has kept, and the queued ones first.          *)
(***************************************************************************)
EXTENDS Recommendation

CONSTANTS Devices,      \* phones of one tenant
          Homes,        \* those of them whose home page is opened, too
          Places, NotSet,
          NoAddress,    \* "Address not found", "Error getting address"
          Zero,         \* the longitude 0.0
          Numbers,      \* what two well-formed number fields can say
          Malformed,    \* what double.parse throws at, as the empty fields
          Choices,      \* property types with amenities
          DefaultChoice,
          Rooms,        \* rooms landlords can post
          Collections,  \* the sets of them that can be there to be read
          MaxEdits,     \* bound on edits of the page
          MaxSaves      \* bound on saves

ASSUME PlacesAssumption ==
  /\ NotSet \notin Places \cup {NoAddress} /\ NoAddress \notin Places
  /\ Zero \notin Places \cup {NotSet}
ASSUME NumbersAssumption ==
  Numbers \subseteq [distance : Nat, price : Nat] /\ Malformed \notin Numbers
ASSUME ChoicesAssumption ==
  DefaultChoice \in Choices /\ \A c \in Choices : IsFiniteSet(c.amenities)
ASSUME BoundsAssumption == MaxEdits \in Nat /\ MaxSaves \in Nat
ASSUME RoomsAssumption ==
  /\ IsFiniteSet(Rooms) /\ Limit \in Nat /\ Collections \subseteq SUBSET Rooms
  /\ \A r \in Rooms : r.place \in Places /\ r.price \in Int /\ IsFiniteSet(r.amenities)
ASSUME KmAssumption == Km \in [Places \X (Places \cup {Zero}) \X Places -> Nat]

\* A place stands for its coordinates and for its address.
Addresses == Places \cup {NoAddress}
Pick == [address : Addresses, place : Places]

\* The State of the page.  latitude and longitude are late: NotSet until a
\* place is picked or the load has set them.  from is history: the save whose
\* document was loaded, 0 if the page was edited since or nothing was loaded.
Closed == [open |-> FALSE]
Form == [open      : {TRUE},
         address   : Addresses \cup {NotSet},
         latitude  : Places \cup {NotSet},
         longitude : Places \cup {NotSet, Zero},
         numbers   : Numbers \cup {Malformed},
         choice    : Choices,
         from      : 0..MaxSaves]

\* A userPreference document; save numbers the tap it comes from.
NoDoc == [save |-> 0]
Doc == [save      : 1..MaxSaves,
        from      : 0..MaxSaves,
        address   : Addresses,
        latitude  : Places,
        longitude : Places \cup {Zero},
        numbers   : Numbers,
        choice    : Choices]

\* loadPreferences: not running, waiting for its get(), or with its answer.
NoLoad == [at |-> "idle"]
Load == {NoLoad, [at |-> "asked"]} \cup [at : {"answered"}, doc : Doc \cup {NoDoc}]

VARIABLES
  form,     \* per phone, the preference page
  load,     \* per phone, its loadPreferences
  stored,   \* the document on the server
  kept,     \* per phone, the document in its cache
  queue,    \* per phone, documents not yet acknowledged
  home,     \* per phone, getRecommendations on the home page: its step, the
            \* preferences it has read, the rooms it has read, the list shown
  picked,   \* history: what map pages have returned
  edits, saves

vars == <<form, load, stored, kept, queue, home, picked, edits, saves>>
page == <<form, load, picked, edits, saves>>
store == <<stored, kept, queue>>

NewForm ==
  [open |-> TRUE, address |-> NotSet, latitude |-> NotSet, longitude |-> NotSet,
   numbers |-> Malformed, choice |-> DefaultChoice, from |-> 0]

NoHome == [at |-> "idle", doc |-> NoDoc, rooms |-> {}, list |-> <<>>]

\* What a get() on phone d can find: the phone's last queued document, else
\* the server's or, offline, the cached one.
Found(d) ==
  IF queue[d] # {} THEN {w \in queue[d] : \A v \in queue[d] : v.save <= w.save}
  ELSE {stored} \cup ({kept[d]} \ {NoDoc})

Init ==
  /\ form = [d \in Devices |-> Closed]
  /\ load = [d \in Devices |-> NoLoad]
  /\ stored = NoDoc
  /\ kept = [d \in Devices |-> NoDoc]
  /\ queue = [d \in Devices |-> {}]
  /\ home = [d \in Devices |-> NoHome]
  /\ picked = {} /\ edits = 0 /\ saves = 0

-----------------------------------------------------------------------------
(* The page                                                                 *)

\* initState: default values, then loadPreferences.
OpenPage(d) ==
  /\ ~form[d].open
  /\ form' = [form EXCEPT ![d] = NewForm]
  /\ load' = [load EXCEPT ![d] = [at |-> "asked"]]
  /\ UNCHANGED <<store, home, picked, edits, saves>>

\* The page is left: its setState would throw, and the load catches that.
ClosePage(d) ==
  /\ form[d].open
  /\ form' = [form EXCEPT ![d] = Closed]
  /\ load' = [load EXCEPT ![d] = NoLoad]
  /\ UNCHANGED <<store, home, picked, edits, saves>>

LoadAnswered(d) ==
  /\ load[d].at = "asked"
  /\ \E doc \in Found(d) :
       /\ load' = [load EXCEPT ![d] = [at |-> "answered", doc |-> doc]]
       /\ kept' = [kept EXCEPT ![d] = IF queue[d] = {} THEN doc ELSE @]
  /\ UNCHANGED <<form, stored, queue, home, picked, edits, saves>>

\* get() throws, as offline with nothing cached, and getPreferences is null.
LoadFails(d) ==
  /\ load[d].at = "asked"
  /\ load' = [load EXCEPT ![d] = NoLoad]
  /\ UNCHANGED <<form, store, home, picked, edits, saves>>

\* Wrong variant: an address picked meanwhile is kept.
Loaded_keepsAddress(f, doc) ==
  [f EXCEPT !.address = IF @ = NotSet THEN doc.address ELSE @,
            !.latitude = doc.latitude, !.longitude = Zero,
            !.numbers = doc.numbers, !.choice = doc.choice, !.from = doc.save]

\* Wrong variant: the default values are set after the load.
Loaded_thenDefaults(f, doc) ==
  [f EXCEPT !.address = doc.address, !.latitude = doc.latitude,
            !.longitude = Zero, !.numbers = doc.numbers,
            !.choice = DefaultChoice, !.from = doc.save]

\* The fields the load sets.  getPreferences reads the longitude from the key
\* 'location', which does not exist, and the load replaces null by 0.0.
Loaded(f, doc) ==
  [f EXCEPT !.address = doc.address, !.latitude = doc.latitude,
            !.longitude = Zero, !.numbers = doc.numbers,
            !.choice = doc.choice, !.from = doc.save]

\* The answer arrives, whatever has been edited meanwhile; null sets nothing.
LoadDone(d) ==
  /\ load[d].at = "answered"
  /\ form' = IF load[d].doc = NoDoc THEN form
             ELSE [form EXCEPT ![d] = Loaded(@, load[d].doc)]
  /\ load' = [load EXCEPT ![d] = NoLoad]
  /\ UNCHANGED <<store, home, picked, edits, saves>>

Edit(d, new) ==
  /\ form[d].open /\ edits < MaxEdits
  /\ edits' = edits + 1
  /\ form' = [form EXCEPT ![d] = [new EXCEPT !.from = 0]]
  /\ UNCHANGED <<load, store, home, saves>>

\* The map page returns the address it has looked up, or an error text, and the
\* coordinates its pin has by then, which may be another place's (Results of
\* MapPage): two coordinates of one place, with any address.
PickPlace(d, r) ==
  /\ Edit(d, [form[d] EXCEPT !.address = r.address, !.latitude = r.place,
                             !.longitude = r.place])
  /\ picked' = picked \cup {r}

Type(d, n) == Edit(d, [form[d] EXCEPT !.numbers = n]) /\ UNCHANGED picked

Choose(d, c) == Edit(d, [form[d] EXCEPT !.choice = c]) /\ UNCHANGED picked

\* Wrong variant: number fields are not parsed.
Save_unparsed(d) ==
  LET f == form[d]
  IN
  /\ f.open /\ saves < MaxSaves /\ f.latitude # NotSet /\ f.longitude # NotSet
  /\ saves' = saves + 1
  /\ queue' = [queue EXCEPT ![d] = @ \cup
       {[save |-> saves + 1, from |-> f.from, address |-> f.address,
         latitude |-> f.latitude, longitude |-> f.longitude,
         numbers |-> f.numbers, choice |-> f.choice]}]
  /\ UNCHANGED <<form, load, stored, kept, home, picked, edits>>

\* "Save Preferences": a late variable not set or a malformed number throws;
\* otherwise the whole document is set.  Success is reported either way.
Save(d) ==
  LET f == form[d]
      w == [save |-> saves + 1, from |-> f.from, address |-> f.address,
            latitude |-> f.latitude, longitude |-> f.longitude,
            numbers |-> f.numbers, choice |-> f.choice]
  IN
  /\ f.open /\ saves < MaxSaves
  /\ f.latitude # NotSet /\ f.longitude # NotSet /\ f.numbers \in Numbers
  /\ saves' = saves + 1
  /\ queue' = [queue EXCEPT ![d] = @ \cup {w}]
  /\ UNCHANGED <<form, load, stored, kept, home, picked, edits>>

\* The server takes a phone's oldest document, or rejects it.
Commit(d) ==
  \E w \in queue[d] :
    /\ \A v \in queue[d] : w.save <= v.save
    /\ queue' = [queue EXCEPT ![d] = @ \ {w}]
    /\ \/ stored' = w /\ kept' = [kept EXCEPT ![d] = w]
       \/ UNCHANGED <<stored, kept>>
    /\ UNCHANGED <<page, home>>

-----------------------------------------------------------------------------
(* The home page and its recommendations                                    *)

\* A build of the home page starts getRecommendations anew; the FutureBuilder
\* drops an earlier one.
BuildHome(d) ==
  /\ home' = [home EXCEPT ![d] = [NoHome EXCEPT !.at = "preferences"]]
  /\ UNCHANGED <<page, store>>

\* getUserPreferences; without a document the list is empty.
PreferencesRead(d) ==
  /\ home[d].at = "preferences"
  /\ \E doc \in Found(d) :
       /\ home' = [home EXCEPT ![d].doc = doc,
                               ![d].at = IF doc = NoDoc THEN "idle" ELSE "rooms"]
       /\ kept' = [kept EXCEPT ![d] = IF queue[d] = {} THEN doc ELSE @]
  /\ UNCHANGED <<page, stored, queue>>

Prefs(doc) ==
  [latitude |-> doc.latitude, longitude |-> doc.longitude,
   distance |-> doc.numbers.distance, price |-> doc.numbers.price,
   type |-> doc.choice.type, amenities |-> doc.choice.amenities]

\* The collection differs from read to read: landlords post and delete, and
\* offline the phone has those it has seen.
RoomsRead(d) ==
  /\ home[d].at = "rooms"
  /\ \E seen \in Collections :
       \E list \in Recommendations(Prefs(home[d].doc), seen) :
         home' = [home EXCEPT ![d].at = "shown", ![d].rooms = seen, ![d].list = list]
  /\ UNCHANGED <<page, store>>

\* A read fails: the list is empty, or an error is shown in its place.
HomeFails(d) ==
  /\ home[d].at \in {"preferences", "rooms"}
  /\ home' = [home EXCEPT ![d] = NoHome]
  /\ UNCHANGED <<page, store>>

\* The app dies; queued documents stay on the phone.
Restart(d) ==
  /\ form' = [form EXCEPT ![d] = Closed]
  /\ load' = [load EXCEPT ![d] = NoLoad]
  /\ home' = [home EXCEPT ![d] = NoHome]
  /\ UNCHANGED <<store, picked, edits, saves>>

PageStep(d) ==
  \/ OpenPage(d) \/ ClosePage(d)
  \/ LoadAnswered(d) \/ LoadFails(d) \/ LoadDone(d)
  \/ \E r \in Pick : PickPlace(d, r)
  \/ \E n \in Numbers \cup {Malformed} : Type(d, n)
  \/ \E c \in Choices : Choose(d, c)
  \/ Save(d) \/ Commit(d) \/ Restart(d)

HomeStep(d) ==
  BuildHome(d) \/ PreferencesRead(d) \/ RoomsRead(d) \/ HomeFails(d)

Next == \E d \in Devices : PageStep(d) \/ (d \in Homes /\ HomeStep(d))

Spec == Init /\ [][Next]_vars

-----------------------------------------------------------------------------
Docs == ({stored} \cup {kept[d] : d \in Devices} \cup (UNION {queue[d] : d \in Devices})
           \cup {home[d].doc : d \in Devices}) \ {NoDoc}

TypeOK ==
  /\ form \in [Devices -> {Closed} \cup Form]
  /\ load \in [Devices -> Load]
  /\ stored \in Doc \cup {NoDoc}
  /\ kept \in [Devices -> Doc \cup {NoDoc}]
  /\ queue \in [Devices -> SUBSET Doc]
  /\ home \in [Devices -> [at : {"idle", "preferences", "rooms", "shown"},
                           doc : Doc \cup {NoDoc}, rooms : SUBSET Rooms,
                           list : Seq(Rooms)]]
  /\ picked \subseteq Pick
  /\ edits \in 0..MaxEdits /\ saves \in 0..MaxSaves

\* Address and coordinates are fields of their own, set by picks and by loads
\* that overtake them, and saved and read back one by one, on several phones;
\* still those of a page or a document are those that one map page returned
\* together, the longitude a load has replaced apart: no mixture of two picks
\* arises, however the map page came to its result.
OnePick(x) ==
  /\ [address |-> x.address, place |-> x.latitude] \in picked
  /\ x.longitude \in {x.latitude, Zero}

LocationIsOnePick ==
  /\ \A d \in Devices : form[d].open =>
       \/ {form[d].address, form[d].latitude, form[d].longitude} = {NotSet}
       \/ OnePick(form[d])
  /\ \A w \in Docs : OnePick(w)

\* A page that was loaded and not edited saves what it loaded (all but the
\* longitude), although load and save are translated field by field.
UneditedSaveChangesNothing ==
  [][\A d \in Devices : \A w \in queue'[d] \ queue[d] :
       w.from # 0 =>
         \A v \in Docs : v.save = w.from =>
           /\ w.address = v.address /\ w.latitude = v.latitude
           /\ w.numbers = v.numbers /\ w.choice = v.choice]_vars

\* A room that suits the tenant at least as well in every feature as a
\* recommended one is recommended too, unless the list is full, and a room
\* that suits strictly better by its property type comes first.
BetterRoomComesFirst ==
  \A d \in Devices : home[d].at = "shown" =>
    LET pref == Prefs(home[d].doc)
        list == home[d].list
        At(r) == {i \in DOMAIN list : list[i] = r}
    IN \A q \in home[d].rooms, r \in home[d].rooms :
         (/\ Comparable(pref, r) /\ At(q) # {} /\ Suits(pref, r, q)) =>
           /\ At(r) # {} \/ Len(list) = Limit
           /\ (r.type = pref.type /\ q.type # pref.type) =>
                \E i \in At(r) : \A j \in At(q) : i < j

\* "Send user and property coordinates to calculateDistance": the coordinates
\* rooms are scored by are those of the place the tenant picked.
ScoredByTenantsPlace ==
  \A d \in Devices : home[d].at = "rooms" =>
    home[d].doc.longitude = home[d].doc.latitude
=============================================================================
