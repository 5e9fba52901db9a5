------------------------------ MODULE RoomPost ------------------------------
(***************************************************************************)
(* Posting a room from the landlord's form.  addRooms uploads the selected *)
(* photos one by one, reads the text fields and the location afterwards,   *)
(* adds the room's document, waits for the server and then resets the      *)
(* form.  The form stays editable and the button enabled all the while, so *)
(* the landlord's edits and other calls' resets fall between its awaits.   *)
(* Firebase Storage and Firestore are external.                            *)
(***************************************************************************)
EXTENDS Naturals, Sequences

CONSTANTS Texts,        \* what complete, well-formed text fields can say
          Places,       \* locations the landlord can pick
          NotSet,       \* no location
          NoAddress,    \* "Address not found", "Error getting address"
          Amenities, Photos,
          Slots,        \* calls of addRooms one form can have in flight
          MaxPosts,     \* bound on taps of "Post for Rent"
          MaxEdits,     \* bound on edits of the form
          MaxPhotos     \* bound on selected photos

ASSUME NotSetAssumption ==
  NotSet \notin Places \cup {NoAddress} /\ NoAddress \notin Places
ASSUME TextsAssumption == Texts \cap {"untitled", "unpriced", "badPrice"} = {}
ASSUME BoundsAssumption == MaxPosts \in Nat /\ MaxEdits \in Nat /\ MaxPhotos \in Nat

\* The text fields as the validators and double.parse tell them apart: a title
\* or description is empty; the price is empty; the price is not a number.
AllTexts == Texts \cup {"untitled", "unpriced", "badPrice"}
Validated == Texts \cup {"badPrice"}
Parsed == Texts \cup {"untitled"}

\* A place stands for its coordinates and for its address.  What the map page
\* returns: the address it has looked up, or an error text, and the coordinates
\* its pin has by then, which may be another place's (Results of MapPage).
Addresses == Places \cup {NoAddress}
Pick == [address : Addresses, place : Places]

\* The State of the page.  address and the late variables latitude, longitude
\* (coords; NotSet: not initialized) are set together but reset apart.
Form == [text    : AllTexts,
         chips   : SUBSET Amenities,
         address : Addresses \cup {NotSet},
         coords  : Places \cup {NotSet},
         images  : Seq(Photos)]

NewForm == [text |-> "unpriced", chips |-> {}, address |-> NotSet,
            coords |-> NotSet, images |-> <<>>]

\* A room's document; id numbers the tap it comes from.  An uploaded photo
\* keeps its place in the list it was selected in.
Room == [id      : 1..MaxPosts,
         text    : Texts \cup {"untitled"},
         chips   : SUBSET Amenities,
         address : Addresses \cup {NotSet},
         coords  : Places,
         images  : SUBSET (Nat \X Photos)]

\* One call of addRooms: the list iterator (its index, the length it was
\* created with), the photo being uploaded, the urls so far, the chips
\* collected first, and whether its page still exists; a page that is gone
\* keeps its last contents for the calls that hold it.
Idle == [at |-> "idle"]
CallState == [at      : {"uploading", "adding"},
              id      : 1..MaxPosts,
              index   : Nat,
              length  : Nat,
              photo   : Seq(Photos),
              urls    : SUBSET (Nat \X Photos),
              chips   : SUBSET Amenities,
              mounted : BOOLEAN,
              frozen  : Form]

VARIABLES
  form,      \* the page's State
  calls,     \* per slot, the calls of addRooms in flight
  queue,     \* added documents not yet acknowledged
  rooms,     \* the rooms collection
  edits,     \* edits so far
  picked,    \* history: what map pages have returned
  log,       \* history: per tap, the form then, whether the landlord edited
             \* it before the document was made, whether anything else came
             \* in between
  told,      \* history: taps answered "Room added successfully"
  refused    \* history: taps whose document the server rejected

vars == <<form, calls, queue, rooms, edits, picked, log, told, refused>>

Posts == [draft : Form, edited : BOOLEAN, disturbed : BOOLEAN]

Init ==
  /\ form = NewForm
  /\ calls = [s \in Slots |-> Idle]
  /\ queue = {} /\ rooms = {}
  /\ edits = 0 /\ picked = {}
  /\ log = <<>>
  /\ told = {} /\ refused = {}

-----------------------------------------------------------------------------
(* The landlord and the form                                                *)

\* The taps whose calls hold this page, and those of them that have not yet
\* read it.
Open == {calls[s].id : s \in {t \in Slots : calls[t] # Idle /\ calls[t].mounted}}
Reading == {calls[s].id : s \in {t \in Slots : calls[t].at = "uploading" /\ calls[t].mounted}}

Edit(new) ==
  /\ edits < MaxEdits
  /\ edits' = edits + 1
  /\ form' = new
  /\ log' = [i \in DOMAIN log |->
       IF i \in Reading THEN [log[i] EXCEPT !.edited = TRUE, !.disturbed = TRUE] ELSE log[i]]
  /\ UNCHANGED <<calls, queue, rooms, told, refused>>

Type(t) == Edit([form EXCEPT !.text = t]) /\ UNCHANGED picked

ToggleChip(a) ==
  /\ Edit([form EXCEPT !.chips = IF a \in @ THEN @ \ {a} ELSE @ \cup {a}])
  /\ UNCHANGED picked

PickLocation(r) ==
  /\ Edit([form EXCEPT !.address = r.address, !.coords = r.place])
  /\ picked' = picked \cup {r}

\* openMedia
AddPhoto(p) ==
  /\ Len(form.images) < MaxPhotos
  /\ Edit([form EXCEPT !.images = Append(@, p)])
  /\ UNCHANGED picked

RemovePhoto(i) ==
  /\ Edit([form EXCEPT !.images = SubSeq(@, 1, i - 1) \o SubSeq(@, i + 1, Len(@))])
  /\ UNCHANGED picked

\* Another tab of the navbar, and back: a new State; calls in flight keep the
\* old one.
Reopen ==
  /\ form' = NewForm
  /\ calls' = [s \in Slots |->
       IF calls[s] # Idle /\ calls[s].mounted
       THEN [calls[s] EXCEPT !.mounted = FALSE, !.frozen = form] ELSE calls[s]]
  /\ UNCHANGED <<queue, rooms, edits, picked, log, told, refused>>

-----------------------------------------------------------------------------
(* addRooms                                                                 *)

FormOf(c) == IF c.mounted THEN form ELSE c.frozen

End(s) == /\ calls' = [calls EXCEPT ![s] = Idle]
          /\ UNCHANGED queue

\* Wrong variant: latitude and longitude are nullable instead of late.
Create_nullable(s, c) ==
  LET f == FormOf(c) IN
  IF f.text \notin Parsed THEN End(s)
  ELSE /\ queue' = queue \cup {[id |-> c.id, text |-> f.text, chips |-> c.chips,
                                address |-> f.address, coords |-> f.coords,
                                images |-> c.urls]}
       /\ calls' = [calls EXCEPT ![s] = [c EXCEPT !.at = "adding"]]

\* The room is built from what the form says now.  Reading latitude before a
\* location was picked, or parsing the price, may throw, with no message.
Create(s, c) ==
  LET f == FormOf(c) IN
  IF f.coords = NotSet \/ f.text \notin Parsed THEN End(s)
  ELSE /\ queue' = queue \cup {[id |-> c.id, text |-> f.text, chips |-> c.chips,
                                address |-> f.address, coords |-> f.coords,
                                images |-> c.urls]}
       /\ calls' = [calls EXCEPT ![s] = [c EXCEPT !.at = "adding"]]

\* Wrong variant: the loop runs over a copy of _selectedImages.
Loop_overCopy(s, c) ==
  LET list == log[c.id].draft.images IN
  IF c.index = c.length THEN Create(s, c)
  ELSE /\ calls' = [calls EXCEPT ![s] =
            [c EXCEPT !.index = @ + 1, !.photo = <<list[c.index + 1]>>]]
       /\ UNCHANGED queue

\* The head of the loop over _selectedImages: a length other than the
\* iterator's throws a ConcurrentModificationError.
Loop(s, c) ==
  LET list == FormOf(c).images IN
  IF Len(list) # c.length THEN End(s)
  ELSE IF c.index = c.length THEN Create(s, c)
  ELSE /\ calls' = [calls EXCEPT ![s] =
            [c EXCEPT !.index = @ + 1, !.photo = <<list[c.index + 1]>>]]
       /\ UNCHANGED queue

\* "Post for Rent" with a valid form: addRooms up to its first await, which
\* is in createRoom if no photo is selected.
Post(s) ==
  LET id == Len(log) + 1
      c == [at |-> "uploading", id |-> id, index |-> 0, length |-> Len(form.images),
            photo |-> <<>>, urls |-> {}, chips |-> form.chips, mounted |-> TRUE,
            frozen |-> NewForm]
  IN
  /\ calls[s] = Idle /\ Len(log) < MaxPosts
  /\ form.text \in Validated
  /\ log' = Append([i \in DOMAIN log |-> [log[i] EXCEPT !.disturbed = @ \/ i \in Open]],
                   [draft |-> form, edited |-> FALSE, disturbed |-> Open # {}])
  /\ \/ c.length > 0 /\ calls' = [calls EXCEPT ![s] =
                          [c EXCEPT !.index = 1, !.photo = <<form.images[1]>>]]
                     /\ UNCHANGED queue
     \/ c.length = 0 /\ Create(s, c)
  /\ UNCHANGED <<form, rooms, edits, picked, told, refused>>

\* Wrong variant: a photo that cannot be uploaded ends the call.
Uploaded_aborts(s) ==
  LET c == calls[s] IN
  /\ c.at = "uploading"
  /\ \/ Loop(s, [c EXCEPT !.urls = @ \cup {<<c.index, c.photo[1]>>}])
     \/ End(s)
  /\ UNCHANGED <<form, rooms, edits, picked, log, told, refused>>

\* uploadImage returns the photo's url, or null after an error; the loop goes
\* on either way.
Uploaded(s) ==
  LET c == calls[s] IN
  /\ c.at = "uploading"
  /\ \E urls \in {c.urls, c.urls \cup {<<c.index, c.photo[1]>>}} :
       Loop(s, [c EXCEPT !.urls = urls])
  /\ UNCHANGED <<form, rooms, edits, picked, log, told, refused>>

\* The server takes a queued document, or rejects it.
Commit ==
  \E r \in queue :
    /\ queue' = queue \ {r}
    /\ \/ rooms' = rooms \cup {r} /\ UNCHANGED refused
       \/ refused' = refused \cup {r.id} /\ UNCHANGED rooms
    /\ UNCHANGED <<form, calls, edits, picked, log, told>>

\* createRoom has returned, it swallows a rejection: success is reported and
\* the form reset, except latitude and longitude.  On a page that is gone the
\* message throws, and so does the one of catchError.
Added(s) ==
  LET c == calls[s] IN
  /\ c.at = "adding"
  /\ \A r \in queue : r.id # c.id
  /\ IF c.mounted
     THEN /\ told' = told \cup {c.id}
          /\ form' = [NewForm EXCEPT !.text = "untitled", !.coords = form.coords]
     ELSE UNCHANGED <<told, form>>
  /\ calls' = [calls EXCEPT ![s] = Idle]
  /\ UNCHANGED <<queue, rooms, edits, picked, log, refused>>

\* The app dies: the calls are gone, queued documents stay.
Restart ==
  /\ form' = NewForm
  /\ calls' = [s \in Slots |-> Idle]
  /\ log' = [i \in DOMAIN log |->
       [log[i] EXCEPT !.disturbed = @ \/ \E s \in Slots : calls[s] # Idle /\ calls[s].id = i]]
  /\ UNCHANGED <<queue, rooms, edits, picked, told, refused>>

EditStep ==
  \/ \E t \in AllTexts : Type(t)
  \/ \E a \in Amenities : ToggleChip(a)
  \/ \E r \in Pick : PickLocation(r)
  \/ \E p \in Photos : AddPhoto(p)
  \/ \E i \in 1..Len(form.images) : RemovePhoto(i)

Next ==
  \/ EditStep \/ Reopen \/ Commit \/ Restart
  \/ \E s \in Slots : Post(s) \/ Uploaded(s) \/ Added(s)

\* Uploads end one way or the other, and queued documents reach the server.
Fairness == WF_vars(Commit) /\ \A s \in Slots : WF_vars(Uploaded(s))

Spec == Init /\ [][Next]_vars /\ Fairness

-----------------------------------------------------------------------------
TypeOK ==
  /\ form \in Form
  /\ calls \in [Slots -> {Idle} \cup CallState]
  /\ queue \subseteq Room
  /\ rooms \subseteq Room
  /\ edits \in 0..MaxEdits /\ picked \subseteq Pick
  /\ log \in Seq(Posts)
  /\ told \subseteq 1..MaxPosts /\ refused \subseteq 1..MaxPosts

\* A room is the form the landlord posted, though its parts are read at
\* different times: unless the landlord edits the form meanwhile, the document
\* has the text, amenities, location and photos of the moment of the tap, in
\* place, with only photos that failed to upload missing.  Other calls on the
\* same form may reset it in between.
PostIsDraft ==
  \A r \in queue \cup rooms :
    LET draft == log[r.id].draft IN
    ~log[r.id].edited =>
      /\ r.text = draft.text /\ r.chips = draft.chips
      /\ r.address = draft.address /\ r.coords = draft.coords
      /\ \A u \in r.images : u[1] \in DOMAIN draft.images /\ draft.images[u[1]] = u[2]

\* The form's "Location: Not Set" means that the room has no location: a room
\* has the address and the coordinates that one map page returned.
AddressIsLocation ==
  \A r \in rooms : [address |-> r.address, place |-> r.coords] \in picked

\* A complete form posted alone and left alone ends up as a room, or is
\* rejected, whichever photos fail and even if the landlord leaves the page.
PostArrives ==
  \A i \in 1..MaxPosts :
    (/\ i \in DOMAIN log
     /\ log[i].draft.text \in Texts /\ log[i].draft.coords # NotSet)
      ~> (\/ i \in refused \/ \E r \in rooms : r.id = i
          \/ i \in DOMAIN log /\ log[i].disturbed)
=============================================================================
