------------------------------- MODULE Profile -------------------------------
(***************************************************************************)
(* The page on which a user edits name, phone number and picture, on one   *)
(* phone.  "Update" shows a progress dialog, uploads a new picture, reads  *)
(* the fields, updates the user's document, and pops the route on top,     *)
(* which is the dialog unless the back button closed it.  The page's load  *)
(* may be answered after any of that.  The map page updates another field  *)
(* of the same document.  Firebase Storage and Firestore are external:     *)
(* writes are queued on the phone, visible there at once, sent and         *)
(* answered in order, kept across restarts.                                *)
(***************************************************************************)
EXTENDS Naturals, Sequences

CONSTANTS Texts,        \* what names and phone number can say
          Blank,        \* the empty fields of a new page
          Pictures,     \* photos a user can pick, and their urls
          NoPicture,    \* null
          Placeholder,  \* the url of the picture of a user without one
          Places, NoPlace,
          Registered,   \* the text of the registration
          Slots,        \* updates one page can have in flight
          NoSlot,
          MaxTaps,      \* bound on taps of "Update"
          MaxMoves      \* bound on changes of the user's location

ASSUME TextsAssumption == Registered \in Texts /\ Blank \notin Texts
ASSUME PicturesAssumption == NoPicture # Placeholder /\ {NoPicture, Placeholder} \cap Pictures = {}
ASSUME PlacesAssumption == NoPlace \notin Places
ASSUME SlotsAssumption == NoSlot \notin Slots
ASSUME BoundsAssumption == MaxTaps \in Nat /\ MaxMoves \in Nat

\* The State of the page: the text fields and profileImageUrl.
Urls == Pictures \cup {NoPicture, Placeholder}
Form == [text : Texts \cup {Blank}, url : Urls]
NewForm == [text |-> Blank, url |-> NoPicture]

\* The fields of the user's document.
User == [text : Texts \cup {Blank}, picture : Urls, place : Places \cup {NoPlace}]

\* _updateFunction, waiting for an upload or for the server.  A page that is
\* gone keeps its last contents for the uploads that hold it.  draft is
\* history: the form at the tap, in a set of its own, empty once the user could
\* get at the page again; so is unloaded: the page had not been filled.
Idle == [at |-> "idle"]
Saving == [at |-> "saving"]
Upload == [at : {"uploading"}, image : Pictures, mounted : BOOLEAN, frozen : Form,
           draft : {{}} \cup {{f} : f \in Form}, unloaded : BOOLEAN]

\* Writes on their way to the server.  uploaded and slot are what the handler
\* that waits, if its page exists, goes on with; unloaded is history.
Update == [kind : {"profile"}, text : Texts \cup {Blank}, picture : Urls,
           uploaded : Pictures \cup {NoPicture}, slot : Slots \cup {NoSlot},
           unloaded : BOOLEAN]
Move == [kind : {"location"}, place : Places]

VARIABLES
  below,     \* the page this one was opened from is among the routes
  page,      \* "open", "closing" (popped, context alive), "gone"
  progress,  \* a progress dialog is above it
  media,     \* choosing a picture: "none", "dialog", "picker" (another app)
  form,      \* what the page shows
  image,     \* _image, the picture chosen for the next upload
  loading,   \* its _loadUserProfile: "asked", "done", "failed"
  calls,     \* per slot, updates in flight
  queue,     \* writes of this phone the server has not answered
  user,      \* the document on the server
  taps,      \* taps of "Update" so far
  moves,     \* changes of the location so far
  raced      \* history: the back button was used during an update

vars == <<below, page, progress, media, form, image, loading, calls, queue, user, taps,
          moves, raced>>
routes == <<below, page, progress, media>>
counts == <<taps, moves>>

Init ==
  /\ below = TRUE /\ page = "gone" /\ progress = FALSE /\ media = "none"
  /\ form = NewForm /\ image = NoPicture /\ loading = "done"
  /\ calls = [s \in Slots |-> Idle]
  /\ queue = <<>>
  /\ user = [text |-> Registered, picture |-> Placeholder, place |-> NoPlace]
  /\ taps = 0 /\ moves = 0 /\ raced = FALSE

-----------------------------------------------------------------------------
(* The page                                                                 *)

OpenPage ==
  /\ below /\ page = "gone"
  /\ page' = "open" /\ loading' = "asked" /\ raced' = FALSE
  /\ UNCHANGED <<below, progress, media, form, image, calls, queue, user, counts>>

\* What a get() finds: the server's document under the phone's own updates.
LastUpdate == {i \in 1..Len(queue) :
                 /\ queue[i].kind = "profile"
                 /\ \A j \in (i + 1)..Len(queue) : queue[j].kind # "profile"}
Found == IF LastUpdate = {} THEN {user} ELSE {queue[i] : i \in LastUpdate}

Shown(url) == IF url = NoPicture THEN Placeholder ELSE url

\* _loadUserProfile sets all fields, whatever they say by then.
Loaded ==
  /\ loading = "asked"
  /\ loading' = "done"
  /\ \E doc \in Found : form' = [text |-> doc.text, url |-> Shown(doc.picture)]
  /\ UNCHANGED <<routes, image, calls, queue, user, counts, raced>>

\* get() throws, and the page is left as it is.
LoadFails ==
  /\ loading = "asked"
  /\ loading' = "failed"
  /\ UNCHANGED <<routes, form, image, calls, queue, user, counts, raced>>

OnTop == page = "open" /\ ~progress /\ media = "none"

\* Wrong variant: the spinner is shown in the page, not in a dialog above it.
Type_anyTime(t) ==
  /\ page = "open" /\ media = "none"
  /\ form' = [form EXCEPT !.text = t]
  /\ UNCHANGED <<routes, image, loading, calls, queue, user, counts, raced>>

Type(t) ==
  /\ OnTop
  /\ form' = [form EXCEPT !.text = t]
  /\ UNCHANGED <<routes, image, loading, calls, queue, user, counts, raced>>

\* _openMedia: a dialog with two sources, then the camera or the gallery, and a
\* picture or none.
OpenMedia ==
  /\ OnTop /\ media' = "dialog"
  /\ UNCHANGED <<below, page, progress, form, image, loading, calls, queue, user, counts, raced>>

ChooseSource ==
  /\ media = "dialog" /\ media' = "picker"
  /\ UNCHANGED <<below, page, progress, form, image, loading, calls, queue, user, counts, raced>>

PickerReturns ==
  /\ media = "picker" /\ media' = "none"
  /\ image' \in Pictures \cup {image}
  /\ UNCHANGED <<below, page, progress, form, loading, calls, queue, user, counts, raced>>

-----------------------------------------------------------------------------
(* Routes                                                                   *)

\* An update whose page exists.
InFlight(c) == c = Saving \/ (c.at = "uploading" /\ c.mounted)
Busy == \E s \in Slots : InFlight(calls[s])

\* Navigator.pop(context): the route on top goes.  (The picker is no route.)
PopTop ==
  \/ media = "dialog" /\ media' = "none" /\ UNCHANGED <<below, page, progress>>
  \/ progress /\ progress' = FALSE /\ UNCHANGED <<below, page, media>>
  \/ /\ media # "dialog" /\ ~progress /\ page = "open"
     /\ page' = "closing" /\ UNCHANGED <<below, progress, media>>
  \/ /\ media # "dialog" /\ ~progress /\ page # "open"
     /\ below' = FALSE /\ UNCHANGED <<page, progress, media>>

\* History: without the dialog the page can be typed in again.
Undrafted(c) == IF c.at = "uploading" THEN [c EXCEPT !.draft = {}] ELSE c

\* The back button, which also closes the progress dialog.
Back ==
  /\ page = "open" /\ media # "picker"
  /\ PopTop
  /\ raced' = (raced \/ Busy)
  /\ calls' = [s \in Slots |-> IF progress THEN Undrafted(calls[s]) ELSE calls[s]]
  /\ UNCHANGED <<form, image, loading, queue, user, counts>>

\* No handler waits for what was sent before.
Unattended == [i \in DOMAIN queue |->
  IF queue[i].kind = "profile" THEN [queue[i] EXCEPT !.slot = NoSlot] ELSE queue[i]]

\* Wrong variant: the Navigator is kept in a variable before the first await.
Closed_keepsNavigator ==
  /\ page = "closing"
  /\ page' = "gone" /\ media' = "none"
  /\ form' = NewForm /\ image' = NoPicture /\ loading' = "done"
  /\ raced' = (raced /\ ~below)
  /\ calls' = [s \in Slots |->
       IF calls[s] = Saving THEN Idle
       ELSE IF InFlight(calls[s]) THEN [calls[s] EXCEPT !.mounted = FALSE, !.frozen = form]
       ELSE calls[s]]
  /\ UNCHANGED <<below, progress, queue, user, counts>>

\* The end of the closing animation: the page's context is dead, and an update
\* that has sent its write can only throw.  Left out is a load answered later: in
\* a release build it still fills the fields, which an update tapped before it
\* may read, one that is unloaded and has no draft.
Closed ==
  /\ page = "closing"
  /\ page' = "gone" /\ media' = "none"
  /\ form' = NewForm /\ image' = NoPicture /\ loading' = "done"
  /\ raced' = (raced /\ ~below)
  /\ calls' = [s \in Slots |->
       IF calls[s] = Saving THEN Idle
       ELSE IF InFlight(calls[s]) THEN [calls[s] EXCEPT !.mounted = FALSE, !.frozen = form]
       ELSE calls[s]]
  /\ queue' = Unattended
  /\ UNCHANGED <<below, progress, user, counts>>

-----------------------------------------------------------------------------
(* _updateFunction                                                          *)

HasFree == \E s \in Slots : calls[s] = Idle
Free == CHOOSE s \in Slots : calls[s] = Idle

\* The fields as they are when the write is made.
Written(f, uploaded, slot, unloaded) ==
  [kind |-> "profile", text |-> f.text, uploaded |-> uploaded, slot |-> slot,
   unloaded |-> unloaded, picture |-> IF uploaded # NoPicture THEN uploaded ELSE f.url]

\* Wrong variant: uploads _image without asking whether there is one.
TapUpdate_unchecked ==
  /\ OnTop /\ HasFree /\ taps < MaxTaps
  /\ progress' = TRUE /\ taps' = taps + 1
  /\ calls' = [calls EXCEPT ![Free] = [at |-> "uploading", image |-> image,
        mounted |-> TRUE, frozen |-> NewForm, unloaded |-> loading # "done",
        draft |-> IF loading = "asked" THEN {} ELSE {form}]]
  /\ UNCHANGED <<below, page, media, form, image, queue, loading, user, moves, raced>>

\* "Update": a progress dialog, and the upload of _image if there is one.  The
\* picture stays selected afterwards and is uploaded again by the next update.
TapUpdate ==
  LET unloaded == loading # "done" IN
  /\ OnTop /\ HasFree /\ taps < MaxTaps
  /\ progress' = TRUE /\ taps' = taps + 1
  /\ \/ /\ image # NoPicture
        /\ calls' = [calls EXCEPT ![Free] = [at |-> "uploading", image |-> image,
              mounted |-> TRUE, frozen |-> NewForm, unloaded |-> unloaded,
              draft |-> IF loading = "asked" THEN {} ELSE {form}]]
        /\ UNCHANGED queue
     \/ /\ image = NoPicture
        /\ calls' = [calls EXCEPT ![Free] = Saving]
        /\ queue' = Append(queue, Written(form, NoPicture, Free, unloaded))
  /\ UNCHANGED <<below, page, media, form, image, loading, user, moves, raced>>

\* Wrong variant: to have a picture to keep, it waits for the page's load.
Uploaded_afterLoad(s) ==
  LET c == calls[s] IN
  /\ c.at = "uploading" /\ loading # "asked"
  /\ \E got \in {c.image, NoPicture} :
       IF c.mounted
       THEN /\ queue' = Append(queue, Written(form, got, s, c.unloaded))
            /\ calls' = [calls EXCEPT ![s] = Saving]
       ELSE /\ queue' = Append(queue, Written(c.frozen, got, NoSlot, c.unloaded))
            /\ calls' = [calls EXCEPT ![s] = Idle]
  /\ UNCHANGED <<routes, form, image, loading, user, counts, raced>>

\* uploadProfile returns the url, or null after an error; the update goes on
\* either way, also without its page.
Uploaded(s) ==
  LET c == calls[s] IN
  /\ c.at = "uploading"
  /\ \E got \in {c.image, NoPicture} :
       IF c.mounted
       THEN /\ queue' = Append(queue, Written(form, got, s, c.unloaded))
            /\ calls' = [calls EXCEPT ![s] = Saving]
       ELSE /\ queue' = Append(queue, Written(c.frozen, got, NoSlot, c.unloaded))
            /\ calls' = [calls EXCEPT ![s] = Idle]
  /\ UNCHANGED <<routes, form, image, loading, user, counts, raced>>

\* The map page, of which nothing else is shown here, updates the location and
\* does not wait.
SetLocation(p) ==
  /\ moves < MaxMoves /\ moves' = moves + 1
  /\ queue' = Append(queue, [kind |-> "location", place |-> p])
  /\ UNCHANGED <<routes, form, image, loading, calls, user, taps, raced>>

\* Wrong variant: the document is set, not updated.
Applied_set(w) ==
  IF w.kind = "location" THEN [user EXCEPT !.place = w.place]
  ELSE [text |-> w.text, picture |-> w.picture, place |-> NoPlace]

\* An update() changes the fields it names.
Applied(w) ==
  IF w.kind = "location" THEN [user EXCEPT !.place = w.place]
  ELSE [user EXCEPT !.text = w.text, !.picture = w.picture]

\* The end of the update in slot s, on its page.
Settle(s) ==
  calls' = [t \in Slots |-> IF t = s THEN Idle
                            ELSE IF progress THEN Undrafted(calls[t]) ELSE calls[t]]

\* Wrong variant: only a success takes the dialog down.
Answered_keepsDialog(w, ok) ==
  IF w.kind = "location" \/ w.slot = NoSlot THEN UNCHANGED <<routes, form, calls>>
  ELSE /\ Settle(w.slot)
       /\ form' = IF ok /\ w.uploaded # NoPicture THEN [form EXCEPT !.url = w.uploaded]
                  ELSE form
       /\ IF ok THEN PopTop ELSE UNCHANGED routes

\* The handler that waits, on its page: the new url after a success, the pop
\* and a message in any case.
Answered(w, ok) ==
  IF w.kind = "location" \/ w.slot = NoSlot THEN UNCHANGED <<routes, form, calls>>
  ELSE /\ Settle(w.slot)
       /\ form' = IF ok /\ w.uploaded # NoPicture THEN [form EXCEPT !.url = w.uploaded]
                  ELSE form
       /\ PopTop

\* The server takes the phone's oldest write, or rejects it.
Commit ==
  /\ queue # <<>>
  /\ queue' = Tail(queue)
  /\ \E ok \in BOOLEAN :
       /\ user' = IF ok THEN Applied(Head(queue)) ELSE user
       /\ Answered(Head(queue), ok)
  /\ UNCHANGED <<image, loading, counts, raced>>

\* The app dies and is opened again: what is queued stays.
Restart ==
  /\ below' = TRUE /\ page' = "gone" /\ progress' = FALSE /\ media' = "none"
  /\ form' = NewForm /\ image' = NoPicture /\ loading' = "done" /\ raced' = FALSE
  /\ calls' = [s \in Slots |-> Idle]
  /\ queue' = Unattended
  /\ UNCHANGED <<user, counts>>

Next ==
  \/ OpenPage \/ Loaded \/ LoadFails \/ OpenMedia \/ ChooseSource \/ PickerReturns
  \/ Back \/ Closed \/ TapUpdate \/ Commit \/ Restart
  \/ \E t \in Texts \cup {Blank} : Type(t)
  \/ \E s \in Slots : Uploaded(s)
  \/ \E p \in Places : SetLocation(p)

\* Uploads end one way or the other, and what is queued reaches the server.
Fairness == WF_vars(Commit) /\ \A s \in Slots : WF_vars(Uploaded(s))

Spec == Init /\ [][Next]_vars /\ Fairness

-----------------------------------------------------------------------------
TypeOK ==
  /\ below \in BOOLEAN /\ page \in {"open", "closing", "gone"}
  /\ progress \in BOOLEAN /\ media \in {"none", "dialog", "picker"}
  /\ form \in Form /\ image \in Pictures \cup {NoPicture}
  /\ loading \in {"asked", "done", "failed"}
  /\ calls \in [Slots -> {Idle, Saving} \cup Upload]
  /\ queue \in Seq(Update \cup Move)
  /\ user \in User /\ taps \in 0..MaxTaps /\ moves \in 0..MaxMoves
  /\ raced \in BOOLEAN

\* What an update writes after its upload is what the page said when "Update"
\* was tapped, though the fields are read only then: the progress dialog keeps
\* the user from the page.  Exempt are taps before the load was answered, and
\* those whose dialog the back button or another update's pop closed.
UpdateIsForm ==
  [][\A s \in Slots : \A tap \in IF calls[s].at = "uploading" THEN calls[s].draft ELSE {} :
       (calls'[s] # calls[s] /\ Len(queue') > Len(queue)) =>
         /\ queue'[Len(queue')].text = tap.text
         /\ queue'[Len(queue')].picture \in {calls[s].image, tap.url}]_vars

\* Two pages write one document: no update takes the user's location away, and
\* only one that was tapped on a page no load had filled takes the picture
\* away ("uploadedImage ?? profileImageUrl" is null then), failed uploads,
\* rejections, restarts and other updates in between included.
NothingErased ==
  [][/\ user.place # NoPlace => user'.place # NoPlace
     /\ (user.picture # NoPicture /\ user'.picture = NoPicture) => Head(queue).unloaded]_vars

\* The progress dialog is above the page while, and only while, an update is
\* under way; once the back button was used during one, it may be missing, but
\* it never stays without one.
ProgressIsUpdate ==
  /\ progress => Busy
  /\ Busy => progress \/ raced

\* The profile is updated and left without closing the page it was opened from,
\* whatever is answered late, unless the back button was used during an update.
BelowStays == below \/ raced

\* "Remove progress indicator": a progress dialog goes away, whichever way the
\* upload and the update end.
ProgressEnds == progress ~> ~progress
=============================================================================
