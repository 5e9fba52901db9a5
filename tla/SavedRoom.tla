----------------------------- MODULE SavedRoom -----------------------------
(***************************************************************************)
(* The bookmark of a room card.  A card asks Firestore once, when it is    *)
(* created, whether its room is saved; a tap writes the opposite of the    *)
(* icon and flips the icon when the server has acknowledged the write.     *)
(* The saved rooms of a tenant are documents named by the room's title,    *)
(* shared by all of the tenant's phones.  Firestore is external: a write   *)
(* is queued on the phone, visible there at once, sent in order and kept   *)
(* across restarts.                                                        *)
(***************************************************************************)
EXTENDS Naturals

CONSTANTS Devices,      \* phones of one tenant
          Cards,        \* places for a room card on the phones' screens
          DeviceOf,     \* the phone of a place
          Titles,       \* room titles; a card passes its title as the roomId
          MaxTaps       \* bound on taps

ASSUME DeviceOfAssumption == DeviceOf \in [Cards -> Devices]
ASSUME BoundsAssumption == MaxTaps \in Nat

\* _RoomcardState: the call of isRoomSaved (the title it asks for, its answer),
\* the room the widget shows now, whether the bookmark is there (userType is
\* known), the icon, and the calls of _toggleSave in flight.
Absent == [check |-> "absent"]
CardState == [check   : {"asked", "answered", "done", "failed"},
              title   : Titles,
              asks    : Titles,
              button  : BOOLEAN,
              found   : BOOLEAN,
              isSaved : BOOLEAN,
              waiting : SUBSET (1..MaxTaps)]

\* A queued set (saved) or delete (not saved), with the tap it comes from.
Write == [tap : 1..MaxTaps, title : Titles, saved : BOOLEAN]

VARIABLES
  stored,    \* titles with a savedRooms document on the server
  kept,      \* per phone, what its cache knows of each title's document
  queue,     \* per phone, writes not yet acknowledged
  card,      \* per place, the card
  taps,      \* taps so far: they number the writes
  steady     \* history: nothing but this card's own, separate taps has
             \* touched its room's bookmark since the card was created

vars == <<stored, kept, queue, card, taps, steady>>

Shown(c) == card[c].check # "absent"

Queued(d, t) == {w \in queue[d] : w.title = t}

\* A document as Firestore reports it on a phone: the last queued write if
\* there is one, else the value it has from the server or the cache.
Overlay(d, t, base) ==
  IF Queued(d, t) = {} THEN base
  ELSE \E w \in Queued(d, t) :
         w.saved /\ \A v \in Queued(d, t) : v.tap <= w.tap

\* Whether the tenant has the room saved, seen from phone d.
IsSavedOn(d, t) == Overlay(d, t, t \in stored)

Init ==
  /\ stored \in SUBSET Titles
  /\ kept = [d \in Devices |-> [t \in Titles |-> "unknown"]]
  /\ queue = [d \in Devices |-> {}]
  /\ card = [c \in Cards |-> Absent]
  /\ taps = 0
  /\ steady = [c \in Cards |-> FALSE]

-----------------------------------------------------------------------------
\* initState: a list builds a card, which starts isRoomSaved and getUserType.
ShowCard(c, t) ==
  /\ ~Shown(c)
  /\ card' = [card EXCEPT ![c] =
       [check |-> "asked", title |-> t, asks |-> t, button |-> FALSE,
        found |-> FALSE, isSaved |-> FALSE, waiting |-> {}]]
  /\ steady' = [steady EXCEPT ![c] =
       \A d \in Devices : d # DeviceOf[c] => Queued(d, t) = {}]
  /\ UNCHANGED <<stored, kept, queue, taps>>

\* dispose: the pending calls find _disposed and set nothing.
HideCard(c) ==
  /\ Shown(c)
  /\ card' = [card EXCEPT ![c] = Absent]
  /\ UNCHANGED <<stored, kept, queue, taps, steady>>

\* Wrong variant: a room without a name reaches the card.
Rebind_untitled(c, t) ==
  /\ Shown(c)
  /\ card' = [card EXCEPT ![c].title = "null"]
  /\ steady' = [steady EXCEPT ![c] = FALSE]
  /\ UNCHANGED <<stored, kept, queue, taps>>

\* The list changes under the card: the items have no keys, so the State stays
\* and shows another room; nothing asks isRoomSaved again.
Rebind(c, t) ==
  /\ Shown(c) /\ card[c].title # t
  /\ card' = [card EXCEPT ![c].title = t]
  /\ steady' = [steady EXCEPT ![c] = FALSE]
  /\ UNCHANGED <<stored, kept, queue, taps>>

\* getUserType has the tenant's profile: the bookmark button appears.
RoleKnown(c) ==
  /\ Shown(c)
  /\ card' = [card EXCEPT ![c].button = TRUE]
  /\ UNCHANGED <<stored, kept, queue, taps, steady>>

\* Wrong variant: isRoomSaved asks the server past the phone's own writes.
CheckAnswered_withoutQueue(c) ==
  /\ Shown(c) /\ card[c].check = "asked"
  /\ card' = [card EXCEPT ![c].check = "answered",
                          ![c].found = card[c].asks \in stored]
  /\ UNCHANGED <<stored, kept, queue, taps, steady>>

\* isRoomSaved is answered, by the server or offline from the cache.
CheckAnswered(c) ==
  LET d == DeviceOf[c]
      t == card[c].asks
      Answer(base) == card' = [card EXCEPT ![c].check = "answered",
                                           ![c].found = Overlay(d, t, base)]
  IN
  /\ Shown(c) /\ card[c].check = "asked"
  /\ \/ /\ Answer(t \in stored)
        /\ kept' = [kept EXCEPT ![d][t] = IF t \in stored THEN "saved" ELSE "unsaved"]
        /\ UNCHANGED steady
     \/ /\ kept[d][t] # "unknown" \/ Queued(d, t) # {}
        /\ Answer(kept[d][t] = "saved")
        /\ steady' = [steady EXCEPT ![c] = @ /\ (t \in stored <=> kept[d][t] = "saved")]
        /\ UNCHANGED kept
  /\ UNCHANGED <<stored, queue, taps>>

\* Offline, and the document was never fetched: get() throws.
CheckFails(c) ==
  /\ Shown(c) /\ card[c].check = "asked"
  /\ card' = [card EXCEPT ![c].check = "failed"]
  /\ UNCHANGED <<stored, kept, queue, taps, steady>>

\* _checkIfSaved sets the icon.
CheckDone(c) ==
  /\ Shown(c) /\ card[c].check = "answered"
  /\ card' = [card EXCEPT ![c].check = "done", ![c].isSaved = card[c].found]
  /\ UNCHANGED <<stored, kept, queue, taps, steady>>

\* The tap's effect on the histories: the card stays steady if its icon was
\* settled; another card of the same room, on any phone, is out of date.
Disturb(c) ==
  steady' = [x \in Cards |->
    /\ steady[x]
    /\ IF x = c THEN card[c].check = "done" /\ card[c].waiting = {}
       ELSE ~(Shown(x) /\ card[x].title = card[c].title)]

\* _toggleSave: the write is queued before the first await, whatever other
\* taps are in flight.
Toggle(c) ==
  LET d == DeviceOf[c]
      w == [tap |-> taps + 1, title |-> card[c].title, saved |-> ~card[c].isSaved]
  IN
  /\ Shown(c) /\ card[c].button
  /\ taps < MaxTaps
  /\ taps' = taps + 1
  /\ queue' = [queue EXCEPT ![d] = @ \cup {w}]
  /\ card' = [card EXCEPT ![c].waiting = @ \cup {w.tap}]
  /\ Disturb(c)
  /\ UNCHANGED <<stored, kept>>

\* The phone is online and the server takes its oldest write.
Commit(d) ==
  \E w \in queue[d] :
    /\ \A v \in queue[d] : w.tap <= v.tap
    /\ queue' = [queue EXCEPT ![d] = @ \ {w}]
    /\ stored' = IF w.saved THEN stored \cup {w.title} ELSE stored \ {w.title}
    /\ kept' = [kept EXCEPT ![d][w.title] = IF w.saved THEN "saved" ELSE "unsaved"]
    /\ UNCHANGED <<card, taps, steady>>

\* The acknowledgement ends the await in _toggleSave: isSaved = !isSaved.
ToggleDone(c) ==
  /\ Shown(c)
  /\ \E i \in card[c].waiting :
       /\ \A w \in queue[DeviceOf[c]] : w.tap # i
       /\ card' = [card EXCEPT ![c].waiting = @ \ {i},
                               ![c].isSaved = ~@]
  /\ UNCHANGED <<stored, kept, queue, taps, steady>>

\* The app dies and is opened again; what Firestore keeps on the phone stays.
Restart(d) ==
  /\ card' = [c \in Cards |-> IF DeviceOf[c] = d THEN Absent ELSE card[c]]
  /\ UNCHANGED <<stored, kept, queue, taps, steady>>

CardStep(c) ==
  \/ \E t \in Titles : ShowCard(c, t) \/ Rebind(c, t)
  \/ HideCard(c) \/ RoleKnown(c)
  \/ CheckAnswered(c) \/ CheckFails(c) \/ CheckDone(c)
  \/ Toggle(c) \/ ToggleDone(c)

Next == \/ \E c \in Cards : CardStep(c)
        \/ \E d \in Devices : Commit(d) \/ Restart(d)

Spec == Init /\ [][Next]_vars

-----------------------------------------------------------------------------
TypeOK ==
  /\ stored \subseteq Titles
  /\ kept \in [Devices -> [Titles -> {"unknown", "saved", "unsaved"}]]
  /\ queue \in [Devices -> SUBSET Write]
  /\ card \in [Cards -> {Absent} \cup CardState]
  /\ taps \in 0..MaxTaps
  /\ steady \in [Cards -> BOOLEAN]

\* The bookmark of a card tells the truth about its room, with the tenant's
\* other phones, taps still travelling to the server, offline answers and
\* restarts, as long as nothing but this card's own, separate taps has touched
\* that bookmark since the card was created.  In particular a card that is
\* created anew undoes every error of its predecessors.  While a tap waits for
\* its acknowledgement the icon still shows the value before it.
IconIsTrue ==
  \A c \in Cards :
    (Shown(c) /\ steady[c] /\ card[c].check = "done") =>
      (card[c].isSaved <=> (IsSavedOn(DeviceOf[c], card[c].title)
                              <=> card[c].waiting = {}))
=============================================================================
