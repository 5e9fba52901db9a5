# GharSathi in TLA+

GharSathi is a Flutter application for renting rooms. Landlords post rooms with photos, a price, amenities and a place
on the map; tenants search, filter, save and book them, get recommendations that match their preferences, and chat with
the owner. All of its own logic is the Dart code under `src/lib`; Firebase Authentication, Cloud Firestore and Firebase
Storage are its backend.

This directory is a model of that code in TLA+, checked with TLC and, where a property should hold for every instance,
proved with TLAPS. It is written from the source; `PROJECT.json` names the lines each definition stands for ("map"),
the places where the code is hard to test ("hazards") and the disagreements found ("findings").

Run `tlc -config <run>.cfg <module>.tla` for a run and `tlapm <module>.tla` for a module of proofs.

## The system

### Parts

| part | code | state | operations |
| --- | --- | --- | --- |
| session | `authentication`, `SplashScreen`, `LoginScreen`, `RegisterScreen`, `TenantProfileScreen`, `main` | `currentUser`, accounts, `users/<uid>`, the Navigator's pages, `_isCheckingSession` | `signUp`, `signIn`, `signOut`, `_checkUserSession`, back |
| booking | `RoomDetails`, `BookRoomService`, `LandlordRoomDetails` | `bookingList`, the arguments of the details page, `Book()` calls | `Book`, `Booking`, the owner's query, `deleteRoom` |
| owner's page | `LandlordPostsScreen`, `LandlordRoomDetails`, `RoomServices` | the routes, the address on the page, `rooms` | `updateRoomLocation`, `deleteRoom`, opening from the posts, back |
| saved rooms | `RoomCard`, `SavedRoomService`, `TenantSavedScreen` | `users/<uid>/savedRooms`, each card's `isSaved` | `_checkIfSaved`, `_toggleSave`, `getUserType`, rebinding of a card |
| posting | `LandlordHomeScreen`, `RoomServices`, `Rooms`, `LandlordNavbar` | the form, `_selectedImages`, `rooms`, Storage | the form's edits, `addRooms`, `uploadImage`, `createRoom`, the reset |
| chat | `ChatScreen`, `TenantChatScreen`, `LandlordChatScreen`, `ChatService` | the text field, `chat_rooms/<ids>/messages` and its streams | `sendMessage`, `getMessages`, opening and closing a chat |
| preferences | `TenantPreferenceScreen`, `PreferenceServices` | the page's fields, `userPreference/<uid>` | `loadPreferences`, `_savePreferencesToFirestore`, edits |
| recommendations | `recommendation_sys`, `TenantHomeScreen` | none: computed from preferences and `rooms` | `getRecommendations` and its scores |
| filter | `property_filter_dialog`, `property_filtering`, `TenantHomeScreen` | the dialog's route, fields, position; `filteredRooms` | `getUserLatLong`, "Filter", `filterProperties`, "Cancel" |
| profile | `EditProfileScreen`, `authentication` | `users/<uid>`, the fields, `_image`, `profileImageUrl`, the progress dialog | `_loadUserProfile`, `_openMedia`, `_updateFunction`, `uploadProfile`, `updateUserLocation` |
| passwords | `ChangePasswordScreen`, `PasswordResetScreen` | Auth's | a comparison and calls of Auth |
| map pages | `tenantLocationSelectScreen`, `landlordLocationSelectScreen`, `location_services` | `currentLocation`, `isLoading` | `_getCurrentLocation`, a tap on the map, "Confirm and Save" |
| lists | `TenantHomeScreen`, `TenantProfileScreen`, `LandlordProfileScreen`, `RecommendationCard`, navbars, tiles | rooms read once, or streamed | none that changes state |

Unused: `SharedPref`, `auth_provider` and `OtpVerificationScreen` (an OTP login that was not finished),
`updateUserPrefsLocation`, `updateUser`. `ios/ExternalLibraries` holds a copy of boringssl; `android`, `ios`, `linux`,
`macos`, `web`, `windows` are Flutter's runners; `test/widget_test.dart` and the repository's README are those of an
empty Flutter project.

### How they interact

Pages call services, and services call Firestore or Auth. Pages share no memory: they meet in documents (a booking in
`bookingList` that the owner's page queries, a preference document that the home page scores rooms by), in the arguments
of a route (a card hands the details page title and `roomId`) or its result (the map page hands back an address and coordinates), and in the Navigator, whose top page any answered call
may change. Every handler is an `async` method: it runs until an `await`, lets everything else run, and goes on with the
fields as they are then. No button is disabled while its handler waits.

### What is hard, and what makes it correct

* Handlers that overlap themselves: two taps of "Book Room", of "Post for Rent", of a bookmark, of "Filter", of "Login".
  Correct: an effect belongs to one tap, and what a tap reads is what it was made on (`PostIsDraft`, `ListedAsAsked`,
  `IconIsTrue`, `NoRepeatedBooking`, `UpdateIsForm`, `AddressNamesPlace`).
* Answers that overtake the user: loads that overwrite edits, cards that show another room by then, dialogs and pages
  that are gone. Correct: related fields stay related (`LocationIsOnePick`), what is shown is what is stored (`ShownIsStored`),
  fields of others are not erased (`NothingErased`), routes of others stay (`HomeStays`, `HomeMatchesUser`, `PostsStay`,
  `BelowStays`), and what waits goes away (`ProgressEnds`, `SpinnerOnlyIfRefused`).
* Phones that are offline: reads come from a cache, writes are queued and survive a kill, other phones do not see them.
  Correct: what was reported happens (`SuccessIsKept`, `RegistrationIsDurable`, `MessageArrives`,
  `UpdateArrives`) and stays (`DeletedIsGone`).
* Operations in several steps of which one fails: account, name, profile document and home page of `signUp`; photos and
  room of `addRooms`. Correct: it ends in a state the program can go on from (`SplashResolves`, `PostArrives`).
* Arithmetic with boundaries: scores, thresholds, 0/0 (`BetterRoomComesFirst`).

## Modules

`X.tla` models a component, `MCX.tla` gives it an instance, `X_proofs.tla` holds its theorems (`Routes_proofs.tla` those of
`Profile` and `RoomFilter`). A variable of a module is
a collection, a field of a page's State, or a table of calls in flight; per-call records carry the local variables an
`async` method keeps across its awaits. One action is the code between two awaits. `history` variables are marked as
such and no guard reads them. A definition called `X_something`, marked as a wrong variant, is how a plausible error
would read in that place; it is not part of any specification.

| module | how it corresponds to the code |
| --- | --- |
| `Session` | `signUp` is `StartSignUp`, `SignUpCreate`, `SignUpCreateFails`, `SignUpName`, `SignUpStore`, `Commit` and `SignUpDone`, one for each await of authentication.dart 28-60; `signIn` and `signOut` likewise. `SplashFound`, `SplashSignsOut`, `SplashNavigate` are `_checkUserSession` with its delayed navigation. `stack` is the Navigator: a call pops and pushes whatever is on top when it resumes. |
| `Booking` | `Tap`, `Answer`, `AnswerFails`, `Refuse`, `Book` are `Book()` (RoomDetails.dart 52-92) with the add that is not awaited; `Commit` sends what a phone has queued, and the server takes or rejects it; `OwnerLooks` is the query of the owner's page, `DeleteRoom` its bin. `OpenDetails` passes the id or `''`, by the list the card is in. |
| `SavedRoom` | `ShowCard`, `Rebind`, `HideCard` are the life of a keyless `RoomCard`; `CheckAnswered`/`CheckDone` are `_checkIfSaved`; `Toggle`/`ToggleDone` are `_toggleSave` before and after its await. |
| `RoomPost` | `Post` reads amenities and starts the loop over `_selectedImages`; each `Uploaded` is one turn (an upload may fail), `Loop` ends or throws when the list has changed, `Create` reads the rest of the form, `Added` resets it. `PickLocation` takes what the map page may return: any address or an error text, with any coordinates; `picked` remembers each result. |
| `Conversation` | No code: what a chat promises. What is said stays said, is heard by its two parties only, and is not unheard. |
| `Chat` | Phones with queues, streams and the two ways in which `ChatService` builds the name of a chat room; implements `Conversation` (`KeepsPromise`). |
| `Recommendation` | `calculateSimilarityScore` and `getRecommendations` as operators, on fractions of integers: 40, 30, 15 and 15 hundredths. 0/0 is NaN and passes no threshold, as in the code. |
| `Preferences` | Page, load and save of preferences, field by field with the wrong key for the longitude; the home page's two reads and the list. `PickPlace` takes any result of the map page, as in `RoomPost`. |
| `RoomFilter` | The dialog over the home page, the message over the dialog, closing animations and queries that outlive them. `PopRoute` is `Navigator.pop` with whatever is on top. Its names differ from those of `Profile`, so that one module can extend both. |
| `MapPage` | `_getCurrentLocation` is `Permitted` and `Positioned`; a tap on the map moves the pin; `Confirm` and `Results` are "Confirm and Save" before and after the address was looked up, the coordinates being read after it. Once the page is popped its confirmations are only late: their answers can do no more than pop. It is no specification of its own. |
| `OwnerRoom` | EXTENDS `MapPage`. `OpenDetails` takes the address from the snapshot of the posts; `Named` pops the map page and starts `updateRoomLocation` (its get is `GetAnswered` or `GetFails`, its update `UpdateCommitted`) without waiting for it; `TapDelete` and `DeletionCommitted` are the bin before and after `deleteRoom`. `MovedElsewhere` and `DeletedElsewhere` are the same two writes of another phone, as the server sees them. |
| `Profile` | `Loaded` is `_loadUserProfile`, `OpenMedia`, `ChooseSource`, `PickerReturns` are `_openMedia`, `TapUpdate`, `Uploaded` and `Commit` with `Answered` are `_updateFunction` between its awaits; `SetLocation` is `updateUserLocation` of the map page, which updates another field of the same document. |

The parts share documents, not state: `RoomPost` ends with a room, `Booking` and `RoomFilter` take any rooms,
`Preferences` any set of them.

## Runs

| run | what it asks, and shows | distinct states |
| --- | --- | --- |
| `session` | One phone, two e-mails, two calls at once, restarts: home pages are of a user who was authenticated and, without overlap, of the current one; what `signUp` reported stays; roles are final; the splash ends. | 416,000 |
| `booking` | Two phones of a tenant, offline or not, overlapping taps, three rooms with two titles: no booking next to one the phone knows of, nothing reported is lost but by a rejection, no refusal without a booking, the owner's page shows the room's own booking and loses none. | 1,600,000 |
| `booking_lost` (violated) | A booking from a recommended, filtered or saved card has no room, and the owner sees "No Booking Data". | |
| `saved` | Two phones with a card each, two titles: an icon touched only by its own separate taps is true. | 2,950,000 |
| `post` | Two overlapping calls on one form, photos that fail, the page left, the app killed: a room is the form that was posted, and arrives. | 442,000 |
| `post_location` (violated) | The reset leaves the coordinates: the next room is stored as "Not Set" at the previous room's place. | |
| `chat` | A landlord and a tenant with two phones: `Chat` implements `Conversation`, and messages reach server and open chats. | 47,000 |
| `preferences` | Two phones, two places, three rooms, three edits, two saves: a location is the result of one visit to the map page on some phone, an unedited save changes nothing but the longitude, the better room is listed. | 1,460,000 |
| `preferences_zero` (violated) | Loaded and saved again, preferences have longitude 0.0, and rooms are scored by it. | |
| `filter` | Three fillings (reversed, malformed, narrow), three rooms, two calls in flight, dialogs opened again and again: only the dialog closes, and the list is what one tap asked for. | 80,000 |
| `owner` | Two changes of a location on this phone or another, two handlers and two confirmations at once, deletions on either, rejections, restarts: when all is quiet the page shows what is stored, unless another phone has changed it since; a deleted room stays deleted, an address is the one of its coordinates unless the pin was moved, only these pages are popped, an announced change arrives. | 688,000 |
| `profile` | Two updates with or without a picture, a late or failed load, the back button, a change of the location, rejections, restarts: what is written is what was shown at the tap, nothing is erased, and the progress dialog is there exactly during an update. | 862,000 |

### Bounds

The bounds are constants (`MaxTaps`, `MaxEdits`, `MaxSaves`, `MaxPosts`, `MaxPhotos`, `MaxTyped`, `MaxSends`, `MaxUpdates`, `MaxMoves`,
`Slots`, `PickSlots`),
in the guards of the actions that count. Two of each actor is what an overlap takes: two calls in flight, two phones of
one user (a third for the other end of a chat), two titles and, for a shared title, two rooms of one of them. The two
taps of `booking` may be on one phone or on two, before or after a commit, a rejection or a restart. `post` needs four edits because
a complete form takes text, place and photo, and one more comes during the upload. `preferences` has two
phones, so that a save is queued on one while the other loads, edits and saves, and the home page is opened
on one of them (`Homes`); it reads three rooms, or two when the third is not there (`Collections`); two saves
are one to load and one of what was loaded, or one from each phone.
`filter` fills the fields in three ways (and leaves them empty) instead of all; the theorems cover all.
`owner` and `profile` need two updates, so that one is overtaken by the other, by its own page opened again, or by a
deletion or another field's update; in `owner` the two may be of this phone and another, in either order, and the other
one picks one place (`Elsewhere`), not the one the room was posted at; `OwnerRoom_proofs` covers any number of both and
any results. Two places, or two texts and an empty one, are enough to tell old from new. Which
free slot a handler takes makes no difference, and `Free` takes one; a page is opened again when the former one's closing
animation has ended.
`filter` alone is run without a check for deadlock: the home page may be popped by overlapping calls, and the code
then shows an empty Navigator in which nothing can be done.

### Fairness

* `Session`: weak fairness of the splash page's own steps. Nothing is assumed of users, network or server;
  `SplashResolves` allows for an app that is killed again and again.
* `RoomPost`: weak fairness of `Uploaded` (an upload ends or throws) and `Commit` (Firestore sends its queue when it
  can): `PostArrives` is about a landlord who is online at some time.
* `Chat`: weak fairness of `Commit` and of a stream's `Hear`, for the same reason.
* `RoomFilter`: weak fairness of `QueryAnswered` (a query is answered, from the cache or with an error if need be) and of the
  end of the closing animation. Not of anything the tenant does.
* `OwnerRoom`: weak fairness of the answer to a get() (offline it comes from the cache, or is an exception) and of the
  queue. `UpdateArrives` counts a rejection, a deleted room and a killed app as ends.
* `Profile`: weak fairness of an upload (it ends with a url or with null) and of the queue. The load and the camera need
  not end.
* `Booking`, `SavedRoom`, `Preferences` claim safety only.

### Assumptions about Firebase and Flutter

They are external and modelled from how the code uses them. Auth refuses an e-mail that is taken, sets `currentUser` and
keeps it across restarts. A Firestore write is visible on its phone at once, queued there, kept when the app is killed,
and sent later (in order, where two writes can meet in one document); its Future completes when the server has answered, so an offline write hangs and does not fail. A
read sees the server, or offline the cache, and the phone's own queue in either case. The security rules are not in the
repository: `Booking`, `RoomPost`, `Preferences`, `OwnerRoom` and `Profile` let the server reject a write, the other modules do not.
Writes of one phone are answered in the order in which they were made. A user id contains no
`_`. A page that was removed has a dead context, and what is done through it throws; a route that is being animated away
takes no taps and still has a live context.

## What is proved

All nine components have theorems, for every value of their constants under the named assumptions of their modules (names
of "nothing" are not names of something; functions have their types; bounds are natural numbers; a room has finitely many
amenities and an integer price). `Routes_proofs` is about the two parts that pop whatever route is on top: it EXTENDS
both, whose names are disjoint, and each theorem rests on the assumptions of the module it is about. Every safety property that a passing run checks
is a theorem.

| theorem | says | argument |
| --- | --- | --- |
| `TypeCorrect` of each `_proofs` module, `Routes_proofs!FilterTypeCorrect` | variables keep their types | a lemma for each action, or for what the actions write |
| `Session_proofs!RegistrationDurable` | what `signUp` reported stays | A registration is reported after its write was acknowledged. For that to mean the server has *this* role, at most one call or queued write may exist for an account without document (`OneBusy`, `OneQueued`, `Awaited`), and documents belong to accounts (`StoredHasAccount`) |
| `Session_proofs!RoleFinal` | roles never change | the same invariant: no second writer can exist |
| `Session_proofs!HomeEarned` | a home page in the stack is of a user who was authenticated | `EarnedOn`: whatever can still open a home page (one in the stack, a splash page that looks or has found, a mounted call past `auth`) already has a user among those proved since the stack was reset |
| `Session_proofs!HomeMatches` | without overlap the home page is the current user's | `AloneOn`, wherever `~raced`: one call in flight, none beside a splash page, and a call past `auth` is of `currentUser`; roles do not change under it because of `OneBusy` and `OneQueued` |
| `Booking_proofs!NoRepeat` | no booking by a tap that knew of one, unless that one was rejected | a booking's tap found nothing, though its phone's own documents were among what it was answered from (`TasksLogged`, `DocsLogged`); what it knew of and did not find is an `Older` booking of that phone that the server has rejected |
| `Booking_proofs!KnowsItsOwn` | a tap finds what its phone has booked | `OwnKept`: a stored booking is in the cache of the phone that made it |
| `Booking_proofs!SuccessKept`, `RefusalJustified` | reports are true until a rejection | `DocsLogged`, `NoticesLogged`: every document and notice belongs to one logged tap |
| `Booking_proofs!OwnerSees` | the owner's page shows the room's own booking, and does not lose it | `OwnInv`: every document, stored, queued or about to be added, names its tap's room or none (`DocsTell`, `PagesTell`), and what is shown is stored under its room (`ShownStored`) |
| `Booking_proofs!OnlyListsLose` | a booking the owner cannot find was made from a list that passes no id | the same invariant: it bounds what the run `booking_lost` finds |
| `SavedRoom_proofs!IconTrue` | a bookmark left to its own taps is true | `TapsNumberWrites`: the last queued write of a title decides; `SteadyCardsTrue` strengthens the property by checks and toggles that have an answer not yet drawn |
| `RoomPost_proofs!PostedAsDrafted` | a room is the form at the tap | `CallsTrue`: at every step of a call, what is still to be read of its form agrees with the draft, or the call will notice: a reset empties the photo list, and the loop compares its length |
| `RoomPost_proofs!AddressTrueOrReset` | a room's address and coordinates are one result of the map page, or the address is "Not Set" and another room was announced | `LocInv`: a form's address and coordinates are of one result until a reset, which only an announced room makes, and a tap whose call is in flight is not announced (`OneCallEach`). It bounds what `post_location` finds |
| `Chat_proofs!PromiseKept` | `Spec => KeepsPromise` | every step maps to a step of `Conversation` or a stutter, under types, names of queued and stored messages (`Queues`, `Stores`) and streams that deliver what is stored |
| `Chat_proofs!ListTrue` | a chat lists what its two parties said, no other message | the invariant above: both ways of building the name of a chat room name the same two users |
| `Chat_proofs!SentAgain`, `SendEndsStored` | a text is sent twice only during its first send; a send that ends has its message stored | `SentInv`: each send in flight is of one queued or stored message (`Awaited`), and a text in a field that was sent already is one whose send has not ended (`FieldAwaited`) |
| `Preferences_proofs!LocationOfOnePick` | address, latitude and a longitude that is not 0.0 are one result of the map page, none beside another's | they are on forms, in loads under way, in queues, caches, on the server and in what the home page has read |
| `Preferences_proofs!UneditedSave` | preferences saved as they were loaded are the former ones, but for the longitude | `Traced`: a save's number names one document wherever it is held (`Named`), and an open form that was not edited holds the fields of the save it names (`LoadedAs`) |
| `Preferences_proofs!BetterFirst` | a room that suits at least as well as a listed one is listed too, unless the list is full, and one of the wanted type comes before one that is not | `Ranked`: what the home page lists is the sorted list of its own reads; the lemmas compare the four parts of the score as fractions (`NearnessOf`, `JaccardMore`, `BaseMore`, `BetterScore`) and the places of a sorted list (`RankedList`, `BetterInList`) |
| `Preferences_proofs!ScoredTrueOrZero` | rooms are scored by coordinates the map page returned together, unless the longitude is 0.0 | a longitude is its latitude's or `Zero` wherever one is held; what the home page scores by is a whole document (`HomesHaveDocs`). It bounds what `preferences_zero` finds |
| `Preferences_proofs!ScoreRange`, `SortOrders` | scores lie between 0 and 1, and order the rooms that pass | the four parts are fractions of at most 40, 30, 15 and 15 hundredths; fractions with positive denominators compare totally and transitively |
| `Preferences_proofs!ShowsBest` | the list is the best of what was read | `Ranked` again: the head of a sorted list (`BestOfRanking`) |
| `Routes_proofs!HomeKept` | a dialog used once at a time leaves the home page (`HomeStays`) | `OneAtATime`, `GoneUnmounted`, `AlertOverDialog`: one live call at most, none when the dialog closes, and a message only above an open dialog |
| `Routes_proofs!AsAsked` | the list is what one tap asked for (`ListedAsAsked`) | a result obeys its own call's fields when it is popped, and only a result or null is assigned |
| `Routes_proofs!DialogIsUpdate`, `BelowKept` | the progress dialog is there while an update is, and its pop takes nothing else | `RoutesInv`: every queued write that a handler waits for has a saving call of its own (`Waiting`), so an answer finds its update in flight; a dialog is above an open page without a picker, and without a race one update at most is in flight (`Above`), so the pop that follows takes the dialog |
| `Routes_proofs!ErasesNothing` | no update takes the location away, nor the picture from a page that was filled | `Pics`: such a page, an upload it started (through the page, or through the contents it left) and a write on its way all have a picture |
| `Routes_proofs!WritesForm` | an update writes what was shown at its tap | `Drafts`: an upload that remembers its form is on a live page below a progress dialog, with its load answered, and the page still shows that form; only an upload's end makes the queue grow by an update (`GrowsByUpload`) |
| `OwnerRoom_proofs!AddressTrue` | an address stored by the post or by this phone is the one of its coordinates, unless the pin was moved during the lookup | `PinsTrue`: there is no pin while the spinner is up and no confirmation without a pin, so only a tap on the map comes between; `PlacesTrue` follows the place to the server |
| `OwnerRoom_proofs!DeletionFinal`, `PostsKept` | a deleted room stays deleted, only own pages are popped | `SlotsNamed` ties each queued write to the one handler that waits for it; `PopsOwn`: unless `raced`, one pop at most is due, and its own page is on top; `DeletionKnown`: the cache knows of the deletion, so the page is not opened again |
| `OwnerRoom_proofs!ShownStored` | a quiet page shows what is stored, unless another phone has changed it and this one has not since | `ShowsLast`: the writes nobody waits for come first in the queue, and the page shows the last of them, or else, if not `overtaken`, what is stored; it needs `LeftAlone` for a page that is opened |
| `OwnerRoom_proofs!SpinnerJustified` | the map's spinner stays only after a refusal | inductive as it stands: each way out of `_getCurrentLocation` but the refusal takes the spinner away |

Only model-checked: everything about fairness (`SplashResolves`, `PostArrives`, `MessageArrives`, `FilterCloses`,
`UpdateArrives`, `ProgressEnds`), which is out of the prover's reach, as is ENABLED.

## What the model found

The violated runs above are disagreements of code and its own messages or comments, listed with their lines under
"findings". Other behaviour a reader should know of is reachable in the models and excluded by the properties' premises:

* "Registration failed" is also said after the account was created (authentication.dart 71): the e-mail is taken for
  good and has no profile;
* two taps of "Book Room" whose queries are both answered before either add book twice (`NoRepeatedBooking` is about what
  the phone knew);
* a booking that the server rejects was reported as made, nobody is told, and the room can be booked again
  (BookRoomService.dart 10);
* two overlapping logins leave a home page of the other user's role (`raced` in `HomeMatchesUser`);
* a tenant is refused a room because of a booking of another room with the same title;
* two overlapping taps leave a bookmark wrong, and a card that shows another room keeps the old icon and unsaves the new
  room by it;
* two taps of "Post for Rent" post twice; the first one's reset wipes what was typed since; a rejected room is announced
  as added;
* a message is sent twice by a second tap before the acknowledgement, and the clear after it takes what was typed
  meanwhile, though the comment says it clears what was sent (ChatScreen.dart 33); a room without `posterUid` opens a
  chat with nobody;
* a room without amenities is never recommended to a tenant without amenities (NaN);
* a reversed price range gives its message and an empty result, whose pop closes the message or the dialog; "Filter"
  tapped twice can pop the home page (`overlapped` in `HomeStays`); a distance given before the position is known is ignored;
* a pin that is moved while its address is being looked up, or after a confirmation, is stored with an address that is not
  its own (`moved` in `AddressNamesPlace`); `RoomPost` and `Preferences` take such results, too, and claim only that address
  and coordinates stay those of one result;
* the page of a room reads its location once: a change made on another phone, or made before the list it was opened from
  was refreshed, leaves it with the former address (`overtaken` in `ShownIsStored`);
* "Confirm and Save" tapped twice, or the back button while a deletion is under way, pops the owner's page or the posts
  below (`raced` in `PostsStay`); a change announced on a page that was left leaves the page opened in between with the
  former address (`behind` in `ShownIsStored`);
* the spinner of the map page never ends after a refused permission or with location services off;
* "Update" on a profile before its load was answered writes empty names and no picture (`unloaded` in `NothingErased`); a
  picture stays selected and is uploaded again by every later update; the back button on the progress dialog makes the
  pop that follows close the profile page, or the page below it (`raced` in `BelowStays`).

## What is not modelled

* Passwords: calls of Auth in a row, whose only effect is Auth's.
* The tenant's map page as a module of its own: it is the same code as the landlord's; what it returns and writes is in
  `Preferences` and `Profile`.
* Lists without state (search, users, the profile as drawn), drawing, wording, validation messages.
* The haversine formula: distances are a constant function of two places.
* Sign-out inside every module but `Session`: a phone keeps its user there. (An update of a profile after a sign-out would
  find no `currentUser` and report a failure.)
* The form's property type in `RoomPost`, timestamps and their order in `Chat` (client clocks).
* Unused code, generated runners and boringssl.

## Plan

Done, in this order: `Session` (everything is behind it), `Booking` (the purpose of the program), `SavedRoom`,
`RoomPost`, `Conversation` and `Chat`, `Recommendation` and `Preferences`, `RoomFilter`, `MapPage` and `OwnerRoom`,
`Profile`; for all of them, types and every safety property that a run checks proved.

Next:

1. rejected messages in `Chat`, and sign-out with calls in flight in `Booking` and `Chat`;
2. a composition of `RoomPost`, `Booking` and the recommender's reads over one `rooms` collection;
3. an abstract specification of a queue whose handlers wait for its writes, which `OwnerRoom` and `Profile` both implement
   (`SlotsNamed` and `Waiting` are the same argument).
