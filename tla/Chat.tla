-------------------------------- MODULE Chat --------------------------------
(***************************************************************************)
(* The chat between a tenant and a landlord.  A screen sends what its text *)
(* field holds, waits for the server and then clears the field, which      *)
(* stays editable meanwhile; its list is a Firestore stream of the chat    *)
(* room named by the two sorted user ids.  Firestore is external: an added *)
(* message is queued on the phone, in the list at once, sent in order and  *)
(* kept across restarts.                                                   *)
(***************************************************************************)
EXTENDS Naturals

CONSTANTS Devices,      \* phones
          Users,
          UserOf,       \* the user signed in on a phone
          NoUser,       \* the posterUid '' of a room without one
          Closed,       \* no chat screen open
          Words,        \* texts a user can type
          Empty,        \* an empty text field
          MaxTyped,     \* bound on texts typed
          MaxSends      \* bound on messages

ASSUME UserOfAssumption == UserOf \in [Devices -> Users]
ASSUME NamesAssumption == NoUser \notin Users /\ Closed \notin Users \cup {NoUser}
ASSUME BoundsAssumption == MaxTyped \in Nat /\ MaxSends \in Nat

Peers == Users \cup {NoUser}

\* The chat room's document id, ids.sort() then ids.join('_').  User ids have
\* no '_', so it stands for the set of the two.
ChatRoomIDs == {{a, b} : a \in Peers, b \in Peers}

\* A message; id is the number of its send, typed the number of the text.
Message == [id       : 1..MaxSends,
            typed    : 1..MaxTyped,
            sender   : Users,
            receiver : Peers,
            word     : Words,
            room     : ChatRoomIDs]

VARIABLES
  peer,       \* per phone, receiverID of the open chat screen, or Closed
  text,       \* per phone, the text field: a word and when it was typed
  sending,    \* per phone, sends of the open screen not yet answered
  queue,      \* per phone, messages not yet acknowledged
  stored,     \* messages on the server
  seen,       \* per phone, messages of the server its stream has delivered
  typed,      \* texts typed so far
  sends       \* messages sent so far

vars == <<peer, text, sending, queue, stored, seen, typed, sends>>

NoText == [word |-> Empty, typed |-> 0]

\* Wrong variant: ids.last instead of ids.join.
ChatRoomID_last(a, b) == {b}

ChatRoomID(a, b) == {a, b}

\* The list on the screen: getMessages(receiverID, senderID), the stream's
\* messages and the phone's own queued ones.
Listed(d) ==
  IF peer[d] = Closed THEN {}
  ELSE {m \in seen[d] \cup queue[d] : m.room = ChatRoomID(peer[d], UserOf[d])}

Init ==
  /\ peer = [d \in Devices |-> Closed]
  /\ text = [d \in Devices |-> NoText]
  /\ sending = [d \in Devices |-> {}]
  /\ queue = [d \in Devices |-> {}]
  /\ stored = {}
  /\ seen = [d \in Devices |-> {}]
  /\ typed = 0 /\ sends = 0

-----------------------------------------------------------------------------
\* A user's tile in the chat list, or "Contact Owner": a new screen with a new
\* text field.  A room opened from the saved list has no posterUid.
OpenChat(d, p) ==
  /\ peer[d] = Closed /\ p # UserOf[d]
  /\ peer' = [peer EXCEPT ![d] = p]
  /\ text' = [text EXCEPT ![d] = NoText]
  /\ seen' = [seen EXCEPT ![d] = {}]
  /\ UNCHANGED <<sending, queue, stored, typed, sends>>

\* The screen is left; its sends go on but have no field to clear.
CloseChat(d) ==
  /\ peer[d] # Closed
  /\ peer' = [peer EXCEPT ![d] = Closed]
  /\ text' = [text EXCEPT ![d] = NoText]
  /\ sending' = [sending EXCEPT ![d] = {}]
  /\ seen' = [seen EXCEPT ![d] = {}]
  /\ UNCHANGED <<queue, stored, typed, sends>>

Type(d, w) ==
  /\ peer[d] # Closed /\ typed < MaxTyped
  /\ typed' = typed + 1
  /\ text' = [text EXCEPT ![d] = [word |-> w, typed |-> typed + 1]]
  /\ UNCHANGED <<peer, sending, queue, stored, seen, sends>>

\* What sendMessage adds for the text in the field.
NewMessage(d) ==
  [id |-> sends + 1, typed |-> text[d].typed, sender |-> UserOf[d],
   receiver |-> peer[d], word |-> text[d].word,
   room |-> ChatRoomID(UserOf[d], peer[d])]

\* Wrong variant: the field is not tested.
Send_unchecked(d) ==
  /\ peer[d] # Closed /\ sends < MaxSends
  /\ sends' = sends + 1
  /\ queue' = [queue EXCEPT ![d] = @ \cup {NewMessage(d)}]
  /\ sending' = [sending EXCEPT ![d] = @ \cup {sends + 1}]
  /\ UNCHANGED <<peer, text, stored, seen, typed>>

\* The send button: with a text in the field, add() queues the message before
\* the first await.
Send(d) ==
  /\ peer[d] # Closed /\ text[d].word # Empty
  /\ sends < MaxSends
  /\ sends' = sends + 1
  /\ queue' = [queue EXCEPT ![d] = @ \cup {NewMessage(d)}]
  /\ sending' = [sending EXCEPT ![d] = @ \cup {sends + 1}]
  /\ UNCHANGED <<peer, text, stored, seen, typed>>

\* The phone is online and the server takes its oldest message.  The list of
\* the phone goes on showing it.
Commit(d) ==
  \E m \in queue[d] :
    /\ \A n \in queue[d] : m.id <= n.id
    /\ queue' = [queue EXCEPT ![d] = @ \ {m}]
    /\ stored' = stored \cup {m}
    /\ seen' = [seen EXCEPT ![d] = @ \cup {m}]
    /\ UNCHANGED <<peer, text, sending, typed, sends>>

\* Wrong variant: the stream asks for the messages of the signed-in user.
Hear_own(d) ==
  /\ peer[d] # Closed
  /\ seen' = [seen EXCEPT ![d] = @ \cup {m \in stored : m.sender = UserOf[d]}]
  /\ UNCHANGED <<peer, text, sending, queue, stored, typed, sends>>

\* The stream delivers a snapshot of the room.
Hear(d) ==
  /\ peer[d] # Closed
  /\ seen' = [seen EXCEPT ![d] = @ \cup
       {m \in stored : m.room = ChatRoomID(peer[d], UserOf[d])}]
  /\ UNCHANGED <<peer, text, sending, queue, stored, typed, sends>>

\* The acknowledgement ends the await in sendMessage: the field is cleared,
\* whatever it holds by now.
Clear(d) ==
  \E i \in sending[d] :
    /\ \A m \in queue[d] : m.id # i
    /\ sending' = [sending EXCEPT ![d] = @ \ {i}]
    /\ text' = [text EXCEPT ![d] = NoText]
    /\ UNCHANGED <<peer, queue, stored, seen, typed, sends>>

\* The app dies; queued messages stay on the phone.
Restart(d) ==
  /\ peer' = [peer EXCEPT ![d] = Closed]
  /\ text' = [text EXCEPT ![d] = NoText]
  /\ sending' = [sending EXCEPT ![d] = {}]
  /\ seen' = [seen EXCEPT ![d] = {}]
  /\ UNCHANGED <<queue, stored, typed, sends>>

Next ==
  \E d \in Devices :
    \/ \E p \in Peers : OpenChat(d, p)
    \/ \E w \in Words : Type(d, w)
    \/ CloseChat(d) \/ Send(d) \/ Commit(d) \/ Hear(d) \/ Clear(d) \/ Restart(d)

\* A phone with queued messages is online again and again, and so is an open
\* stream; users promise nothing.
Fairness == \A d \in Devices : WF_vars(Commit(d)) /\ WF_vars(Hear(d))

Spec == Init /\ [][Next]_vars /\ Fairness

-----------------------------------------------------------------------------
TypeOK ==
  /\ peer \in [Devices -> Peers \cup {Closed}]
  /\ text \in [Devices -> [word : Words \cup {Empty}, typed : 0..MaxTyped]]
  /\ sending \in [Devices -> SUBSET (1..MaxSends)]
  /\ queue \in [Devices -> SUBSET Message]
  /\ stored \subseteq Message
  /\ seen \in [Devices -> SUBSET Message]
  /\ typed \in 0..MaxTyped /\ sends \in 0..MaxSends

Said == stored \cup (UNION {queue[d] : d \in Devices})

\* The chat keeps the promises of Conversation: said is what is queued or
\* stored, heard is what the list shows.
Promise == INSTANCE Conversation WITH
  Messages <- Message, NoPeer <- Closed,
  said <- Said,
  heard <- [d \in Devices |-> Listed(d)]

KeepsPromise == Promise!Spec

\* A message reaches the server, and an open chat with its sender on any phone
\* of its receiver, although sender and receiver build the name of the room
\* from opposite ends.
MessageArrives ==
  /\ \A i \in 1..MaxSends : i <= sends ~> \E m \in stored : m.id = i
  /\ \A i \in 1..MaxSends, d \in Devices, a \in Users :
       (/\ peer[d] = a
        /\ \E m \in stored : m.id = i /\ m.sender = a /\ m.receiver = UserOf[d])
       ~> (peer[d] # a \/ \E m \in Listed(d) : m.id = i)
=============================================================================
