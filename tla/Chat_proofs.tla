----------------------------- MODULE Chat_proofs -----------------------------
(***************************************************************************)
(* Proofs about Chat, for any users and phones, and all bounds: the chat   *)
(* with its queues, streams and room names implements Conversation.        *)
(***************************************************************************)
EXTENDS Chat, TLAPS

\* What messages know of themselves: they carry the name of the room of their
\* two parties, and number a send.
Named(m) == m.room = {m.sender, m.receiver} /\ m.id <= sends

Queues == \A d \in Devices : \A m \in queue[d] : Named(m) /\ m.sender = UserOf[d]
Stores == \A m \in stored : Named(m)
Streams == \A d \in Devices : seen[d] \subseteq stored

\* A text in the field was typed.
Fields == \A d \in Devices : text[d].word # Empty => text[d].typed >= 1

\* The inductive invariant.
Inv == TypeOK /\ Queues /\ Stores /\ Streams /\ Fields

LEMMA SaidOrStored ==
  ASSUME NEW m
  PROVE  m \in Said <=> (m \in stored \/ \E d \in Devices : m \in queue[d])
BY DEF Said

LEMMA InitInv == Init => Inv
<1> SUFFICES ASSUME Init PROVE Inv
  OBVIOUS
<1>1. TypeOK
  BY BoundsAssumption DEF Init, TypeOK, NoText
<1>2. Queues /\ Stores /\ Streams /\ Fields
  BY DEF Init, Queues, Stores, Streams, Fields, NoText
<1> QED
  BY <1>1, <1>2 DEF Inv

\* The message a send makes.
LEMMA SentMessage ==
  ASSUME Inv, NEW d \in Devices, Send(d)
  PROVE  /\ NewMessage(d) \in Message
         /\ NewMessage(d).room = {NewMessage(d).sender, NewMessage(d).receiver}
         /\ NewMessage(d).id = sends + 1 /\ NewMessage(d).sender = UserOf[d]
         /\ NewMessage(d).receiver = peer[d]
<1>1. peer[d] \in Peers /\ UserOf[d] \in Users
  BY UserOfAssumption DEF Inv, TypeOK, Send
<1>2. sends + 1 \in 1..MaxSends
  BY BoundsAssumption DEF Inv, TypeOK, Send
<1>3. text[d].word \in Words /\ text[d].typed \in 1..MaxTyped
  <2>1. text[d].word \in Words \cup {Empty} /\ text[d].typed \in 0..MaxTyped
    BY DEF Inv, TypeOK
  <2> QED
    BY <2>1, BoundsAssumption DEF Inv, Fields, Send
<1>4. ChatRoomID(UserOf[d], peer[d]) \in ChatRoomIDs
  BY <1>1 DEF ChatRoomID, ChatRoomIDs, Peers
<1> QED
  BY <1>1, <1>2, <1>3, <1>4 DEF NewMessage, Message, ChatRoomID

\* A step that opens, leaves or kills a screen.
LEMMA ScreenStep ==
  ASSUME Inv, NEW d \in Devices,
         (\E p \in Peers : OpenChat(d, p)) \/ CloseChat(d) \/ Restart(d)
  PROVE  Inv'
<1>1. /\ peer' \in [Devices -> Peers \cup {Closed}]
      /\ text' = [text EXCEPT ![d] = NoText]
      /\ sending' \in [Devices -> SUBSET (1..MaxSends)]
      /\ seen' = [seen EXCEPT ![d] = {}]
      /\ UNCHANGED <<queue, stored, typed, sends>>
  BY SMTT(30) DEF Inv, TypeOK, OpenChat, CloseChat, Restart
<1>2. NoText \in [word : Words \cup {Empty}, typed : 0..MaxTyped] /\ NoText.word = Empty
  BY BoundsAssumption DEF NoText
<1>3. TypeOK'
  BY <1>1, <1>2 DEF Inv, TypeOK
<1>4. Queues' /\ Stores' /\ Streams' /\ Fields'
  BY <1>1, <1>2 DEF Inv, TypeOK, Queues, Stores, Streams, Fields, Named
<1> QED
  BY <1>3, <1>4 DEF Inv

LEMMA FieldStep ==
  ASSUME Inv, NEW d \in Devices, (\E w \in Words : Type(d, w)) \/ Clear(d)
  PROVE  Inv'
<1>1. UNCHANGED <<peer, queue, stored, seen, sends>>
  BY DEF Type, Clear
<1>2. sending' \in [Devices -> SUBSET (1..MaxSends)] /\ typed' \in 0..MaxTyped
  BY BoundsAssumption DEF Inv, TypeOK, Type, Clear
<1>3. PICK x \in [word : Words \cup {Empty}, typed : 0..MaxTyped] :
        text' = [text EXCEPT ![d] = x] /\ (x.word # Empty => x.typed >= 1)
  <2>1. CASE \E w \in Words : Type(d, w)
    <3>1. PICK w \in Words : Type(d, w)
      BY <2>1
    <3>2. typed + 1 \in 1..MaxTyped
      BY <3>1, BoundsAssumption DEF Inv, TypeOK, Type
    <3> DEFINE x == [word |-> w, typed |-> typed + 1]
    <3>3. x \in [word : Words \cup {Empty}, typed : 0..MaxTyped] /\ x.typed >= 1
      BY <3>2
    <3>4. text' = [text EXCEPT ![d] = x]
      BY <3>1 DEF Type
    <3> HIDE DEF x
    <3> QED
      BY <3>3, <3>4
  <2>2. CASE Clear(d)
    <3>1. /\ NoText \in [word : Words \cup {Empty}, typed : 0..MaxTyped]
          /\ NoText.word = Empty
      BY BoundsAssumption DEF NoText
    <3>2. text' = [text EXCEPT ![d] = NoText]
      BY <2>2 DEF Clear
    <3> QED
      BY <3>1, <3>2
  <2> QED
    BY <2>1, <2>2
<1>4. TypeOK' /\ Fields'
  BY <1>1, <1>2, <1>3 DEF Inv, TypeOK, Fields
<1> QED
  BY <1>1, <1>4 DEF Inv, Queues, Stores, Streams, Named

LEMMA SendStep ==
  ASSUME Inv, NEW d \in Devices, Send(d)
  PROVE  Inv'
<1>1. PICK m \in Message : m = NewMessage(d)
  BY SentMessage
<1>2. /\ sends' = sends + 1 /\ queue' = [queue EXCEPT ![d] = @ \cup {m}]
      /\ sending' = [sending EXCEPT ![d] = @ \cup {sends + 1}]
      /\ UNCHANGED <<peer, text, stored, seen, typed>>
      /\ m.room = {m.sender, m.receiver} /\ m.id = sends + 1 /\ m.sender = UserOf[d]
  BY <1>1, SentMessage DEF Send
<1>3. sends + 1 \in 1..MaxSends /\ sends \in Nat
  BY BoundsAssumption DEF Inv, TypeOK, Send
<1>4. TypeOK'
  BY <1>2, <1>3 DEF Inv, TypeOK
<1>5. \A n \in Message : Named(n) => Named(n)'
  <2>1. \A n \in Message : n.id \in 1..MaxSends
    BY DEF Message
  <2> QED
    BY <1>2, <1>3, <2>1 DEF Named
<1>6. Named(m)'
  BY <1>2, <1>3 DEF Named
<1>7. Queues'
  BY <1>2, <1>5, <1>6 DEF Inv, TypeOK, Queues
<1>8. Stores' /\ Streams' /\ Fields'
  BY <1>2, <1>5 DEF Inv, TypeOK, Stores, Streams, Fields
<1> QED
  BY <1>4, <1>7, <1>8 DEF Inv

LEMMA ServerStep ==
  ASSUME Inv, NEW d \in Devices, Commit(d) \/ Hear(d)
  PROVE  Inv'
<1>1. CASE Commit(d)
  <2>1. PICK m \in queue[d] :
          /\ queue' = [queue EXCEPT ![d] = @ \ {m}]
          /\ stored' = stored \cup {m} /\ seen' = [seen EXCEPT ![d] = @ \cup {m}]
          /\ UNCHANGED <<peer, text, sending, typed, sends>>
    BY <1>1 DEF Commit
  <2>2. m \in Message /\ Named(m)
    BY DEF Inv, TypeOK, Queues
  <2>3. TypeOK'
    BY <2>1, <2>2 DEF Inv, TypeOK
  <2>4. Queues' /\ Stores' /\ Streams' /\ Fields'
    BY <2>1, <2>2 DEF Inv, TypeOK, Queues, Stores, Streams, Fields, Named
  <2> QED
    BY <2>3, <2>4 DEF Inv
<1>2. CASE Hear(d)
  <2>1. /\ seen' \in [Devices -> SUBSET Message] /\ Streams'
        /\ UNCHANGED <<peer, text, sending, queue, stored, typed, sends>>
    BY <1>2 DEF Hear, Inv, TypeOK, Streams
  <2> QED
    BY <2>1 DEF Inv, TypeOK, Queues, Stores, Fields, Named
<1> QED
  BY <1>1, <1>2

LEMMA NextInv == Inv /\ [Next]_vars => Inv'
<1> SUFFICES ASSUME Inv, [Next]_vars PROVE Inv'
  OBVIOUS
<1>1. CASE UNCHANGED vars
  BY <1>1 DEF vars, Inv, TypeOK, Queues, Stores, Streams, Fields, Named
<1>2. CASE Next
  BY <1>2, ScreenStep, FieldStep, SendStep, ServerStep DEF Next
<1> QED
  BY <1>1, <1>2

\* Messages, fields and queues keep their types: whatever is sent is a text
\* that was typed, in a chat room of two parties.
THEOREM TypeCorrect == Spec => []TypeOK
<1>1. Inv => TypeOK
  BY DEF Inv
<1> QED
  BY <1>1, InitInv, NextInv, PTL DEF Spec

-----------------------------------------------------------------------------
(* The chat implements Conversation                                         *)

Heard == [d \in Devices |-> Listed(d)]

\* What a screen lists has been said between its two parties.
LEMMA ListedSaid ==
  ASSUME Inv, NEW d \in Devices
  PROVE  /\ Listed(d) \subseteq Said
         /\ peer[d] # Closed => Listed(d) \subseteq Promise!Between(d, peer[d])
<1>1. ASSUME NEW m \in Listed(d)
      PROVE  m \in Said /\ (peer[d] # Closed => m \in Promise!Between(d, peer[d]))
  <2>1. /\ peer[d] # Closed /\ m \in seen[d] \cup queue[d]
        /\ m.room = ChatRoomID(peer[d], UserOf[d])
    BY DEF Listed
  <2>2. m \in Message /\ Named(m) /\ m \in Said
    BY <2>1, SaidOrStored DEF Inv, TypeOK, Queues, Stores, Streams
  <2>3. {m.sender, m.receiver} = {UserOf[d], peer[d]}
    BY <2>1, <2>2 DEF Named, ChatRoomID
  <2> QED
    BY <2>1, <2>2, <2>3 DEF Promise!Between
<1> QED
  BY <1>1

\* A screen's list depends on its own phone's state only.
LEMMA SameList ==
  ASSUME NEW d \in Devices,
         peer'[d] = peer[d], seen'[d] = seen[d], queue'[d] = queue[d]
  PROVE  Listed(d)' = Listed(d)
BY DEF Listed

\* What the others' screens show when one phone moves.
LEMMA OthersSame ==
  ASSUME Inv, NEW d \in Devices, Next, NEW e \in Devices,
         \/ \E p \in Peers : OpenChat(d, p)
         \/ CloseChat(d) \/ Send(d) \/ Commit(d) \/ Hear(d) \/ Restart(d),
         e # d
  PROVE  peer'[e] = peer[e] /\ Listed(e)' = Listed(e)
<1>1. peer'[e] = peer[e] /\ seen'[e] = seen[e] /\ queue'[e] = queue[e]
  BY DEF Inv, TypeOK, OpenChat, CloseChat, Send, Commit, Hear, Restart
<1> QED
  BY <1>1, SameList

LEMMA InitPromise == Init => Promise!Init
<1> SUFFICES ASSUME Init PROVE Promise!Init
  OBVIOUS
<1>1. Said = {}
  BY DEF Init, Said
<1>2. \A d \in Devices : Listed(d) = {}
  BY DEF Init, Listed
<1> QED
  BY <1>1, <1>2 DEF Init, Promise!Init

LEMMA OpenIsEnter ==
  ASSUME Inv, Inv', Next, NEW d \in Devices, NEW p \in Peers, OpenChat(d, p)
  PROVE  Promise!Enter(d)
<1>1. peer[d] = Closed /\ peer'[d] = p /\ p # Closed
  BY NamesAssumption, UserOfAssumption DEF OpenChat, Inv, TypeOK, Peers
<1>2. Said' = Said
  BY DEF OpenChat, Said
<1>3. Listed(d)' \subseteq Said /\ Listed(d)' \subseteq Promise!Between(d, peer'[d])
  <2>1. ASSUME NEW m \in Listed(d)'
        PROVE  m \in Said /\ m \in Promise!Between(d, peer'[d])
    <3>1. m \in queue[d] /\ m.room = {peer'[d], UserOf[d]}
      BY <1>1 DEF Listed, OpenChat, ChatRoomID, Inv, TypeOK
    <3>2. m \in Message /\ Named(m) /\ m \in Said
      BY <3>1, SaidOrStored DEF Inv, TypeOK, Queues
    <3> QED
      BY <3>1, <3>2 DEF Named, Promise!Between
  <2> QED
    BY <2>1
<1>4. \A e \in Devices : e # d => peer'[e] = peer[e] /\ Listed(e)' = Listed(e)
  BY OthersSame
<1> QED
  BY <1>1, <1>2, <1>3, <1>4 DEF Promise!Enter

LEMMA CloseIsLeave ==
  ASSUME Inv, Next, NEW d \in Devices, CloseChat(d) \/ Restart(d)
  PROVE  Promise!Leave(d)
<1>1. peer' = [peer EXCEPT ![d] = Closed]
  BY DEF CloseChat, Restart
<1>2. Said' = Said
  BY DEF CloseChat, Restart, Said
<1>3. Listed(d)' = {}
  BY <1>1 DEF Listed, Inv, TypeOK
<1>4. \A e \in Devices : e # d => Listed(e)' = Listed(e)
  BY OthersSame
<1> QED
  BY <1>1, <1>2, <1>3, <1>4 DEF Promise!Leave

LEMMA SendIsSay ==
  ASSUME Inv, Next, NEW d \in Devices, Send(d)
  PROVE  Promise!Say(d)
<1>1. PICK m \in Message : m = NewMessage(d)
  BY SentMessage
<1>2. /\ m.room = {m.sender, m.receiver} /\ m.id = sends + 1
      /\ m.sender = UserOf[d] /\ m.receiver = peer[d] /\ peer[d] # Closed
      /\ queue' = [queue EXCEPT ![d] = @ \cup {m}] /\ UNCHANGED <<peer, stored, seen>>
  BY <1>1, SentMessage DEF Send
<1>3. m \notin Said
  <2>1. ASSUME NEW n \in Said PROVE n.id <= sends
    BY SaidOrStored DEF Inv, Queues, Stores, Named
  <2> QED
    BY <1>2, <2>1 DEF Inv, TypeOK
<1>4. Said' = Said \cup {m}
  <2>1. \A e \in Devices : queue'[e] = IF e = d THEN queue[d] \cup {m} ELSE queue[e]
    BY <1>2 DEF Inv, TypeOK
  <2> QED
    BY <1>2, <2>1 DEF Said
<1>5. Listed(d)' = Listed(d) \cup {m}
  BY <1>2 DEF Listed, ChatRoomID, Inv, TypeOK
<1>6. \A e \in Devices : e # d => Listed(e)' = Listed(e)
  BY OthersSame
<1>7. m \in Promise!Between(d, peer[d])
  BY <1>2 DEF Promise!Between
<1>8. Heard' = [Heard EXCEPT ![d] = @ \cup {m}]
  BY <1>5, <1>6 DEF Heard
<1> QED
  BY <1>2, <1>3, <1>4, <1>7, <1>8 DEF Promise!Say, Heard

LEMMA CommitIsHidden ==
  ASSUME Inv, Next, NEW d \in Devices, Commit(d)
  PROVE  UNCHANGED <<Said, peer, Heard>>
<1>1. PICK m \in queue[d] :
        /\ queue' = [queue EXCEPT ![d] = @ \ {m}]
        /\ stored' = stored \cup {m} /\ seen' = [seen EXCEPT ![d] = @ \cup {m}]
        /\ UNCHANGED <<peer, sends>>
  BY DEF Commit
<1>2. Said' = Said
  <2>1. \A e \in Devices : queue'[e] = IF e = d THEN queue[d] \ {m} ELSE queue[e]
    BY <1>1 DEF Inv, TypeOK
  <2> QED
    BY <1>1, <2>1 DEF Said
<1>3. Listed(d)' = Listed(d)
  BY <1>1 DEF Listed, Inv, TypeOK
<1>4. \A e \in Devices : e # d => Listed(e)' = Listed(e)
  BY OthersSame
<1> QED
  BY <1>1, <1>2, <1>3, <1>4 DEF Heard

LEMMA HearIsHear ==
  ASSUME Inv, Inv', Next, NEW d \in Devices, Hear(d)
  PROVE  Promise!Hear(d)
<1>1. /\ peer[d] # Closed /\ UNCHANGED <<peer, queue, stored>>
      /\ seen[d] \subseteq seen'[d]
  BY DEF Hear, Inv, TypeOK
<1>2. Said' = Said
  BY <1>1 DEF Said
<1>3. Listed(d) \subseteq Listed(d)'
  BY <1>1 DEF Listed
<1>4. Listed(d)' \subseteq Said' /\ Listed(d)' \subseteq Promise!Between(d, peer[d])
  <2>1. ASSUME NEW m \in Listed(d)'
        PROVE  m \in Said' /\ m \in Promise!Between(d, peer[d])
    <3>1. m \in seen'[d] \cup queue[d] /\ m.room = {peer[d], UserOf[d]}
      BY <1>1 DEF Listed, ChatRoomID
    <3>2. m \in Message /\ m.room = {m.sender, m.receiver}
      BY ZenonT(30), <1>1, <3>1 DEF Inv, TypeOK, Queues, Stores, Streams, Named
    <3>3. m \in Said
      BY <1>1, <3>1, SaidOrStored DEF Inv, Streams
    <3> QED
      BY <1>2, <3>1, <3>2, <3>3 DEF Promise!Between
  <2> QED
    BY <2>1
<1>5. \A e \in Devices : e # d => Listed(e)' = Listed(e)
  BY OthersSame
<1> QED
  BY <1>1, <1>2, <1>3, <1>4, <1>5 DEF Promise!Hear

LEMMA FieldIsHidden ==
  ASSUME UNCHANGED <<peer, queue, stored, seen>>
  PROVE  UNCHANGED <<Said, peer, Heard>>
<1>1. \A d \in Devices : Listed(d)' = Listed(d)
  BY SameList
<1> QED
  BY <1>1 DEF Said, Heard

LEMMA StepPromise == Inv /\ Inv' /\ [Next]_vars => [Promise!Next]_(Promise!cvars)
<1> SUFFICES ASSUME Inv, Inv', [Next]_vars
             PROVE  Promise!Next \/ UNCHANGED <<Said, peer, Heard>>
  BY DEF Promise!cvars, Heard
<1>1. CASE UNCHANGED vars
  BY <1>1, FieldIsHidden DEF vars
<1>2. CASE Next
  <2>1. PICK d \in Devices :
          \/ \E p \in Peers : OpenChat(d, p)
          \/ \E w \in Words : Type(d, w)
          \/ CloseChat(d) \/ Send(d) \/ Commit(d) \/ Hear(d) \/ Clear(d) \/ Restart(d)
    BY <1>2 DEF Next
  <2>2. CASE \E p \in Peers : OpenChat(d, p)
    BY <1>2, <2>2, OpenIsEnter DEF Promise!Next
  <2>3. CASE CloseChat(d) \/ Restart(d)
    BY <1>2, <2>3, CloseIsLeave DEF Promise!Next
  <2>4. CASE Send(d)
    BY <1>2, <2>4, SendIsSay DEF Promise!Next
  <2>5. CASE Commit(d)
    BY <1>2, <2>5, CommitIsHidden
  <2>6. CASE Hear(d)
    BY <1>2, <2>6, HearIsHear DEF Promise!Next
  <2>7. CASE (\E w \in Words : Type(d, w)) \/ Clear(d)
    <3>1. UNCHANGED <<peer, queue, stored, seen>>
      BY <2>7 DEF Type, Clear
    <3> QED
      BY <3>1, FieldIsHidden
  <2> QED
    BY <2>1, <2>2, <2>3, <2>4, <2>5, <2>6, <2>7
<1> QED
  BY <1>1, <1>2

\* The phones' queues, the server, the streams and the two ways of building a
\* chat room's name implement the promise of Conversation, step by step.
THEOREM PromiseKept == Spec => KeepsPromise
<1>1. Spec => []Inv
  BY InitInv, NextInv, PTL DEF Spec
<1> QED
  BY <1>1, InitPromise, StepPromise, PTL DEF Spec, KeepsPromise, Promise!Spec

\* What a phone lists has been said, by its user to the one the open chat is
\* with or the other way, and is gone when the chat is closed: no message of
\* another conversation and none that nobody sent, although sendMessage and
\* getMessages build the name of the chat room from opposite ends.
HeardIsSaid ==
  \A d \in Devices : \A m \in Listed(d) :
    /\ m \in Said /\ peer[d] # Closed
    /\ {m.sender, m.receiver} = {UserOf[d], peer[d]}

\* Every message on a screen was sent by one of its two users.
THEOREM ListTrue == Spec => []HeardIsSaid
<1>1. Inv => HeardIsSaid
  <2> SUFFICES ASSUME Inv, NEW d \in Devices, NEW m \in Listed(d)
               PROVE  /\ m \in Said /\ peer[d] # Closed
                      /\ {m.sender, m.receiver} = {UserOf[d], peer[d]}
    BY DEF HeardIsSaid
  <2>1. peer[d] # Closed
    BY DEF Listed
  <2> QED
    BY <2>1, ListedSaid DEF Promise!Between
<1> QED
  BY <1>1, InitInv, NextInv, PTL DEF Spec

-----------------------------------------------------------------------------
(* What a send ends with, and what is sent again                            *)

\* A send that an open screen waits for has its message, from the phone's user
\* to the one the screen is for; a closed screen waits for none.
Awaited ==
  \A d \in Devices : \A i \in sending[d] :
    /\ peer[d] # Closed
    /\ \E m \in queue[d] \cup stored :
         m.id = i /\ m.sender = UserOf[d] /\ m.receiver = peer[d]

\* Texts are numbered as they are typed.
Numbered ==
  /\ \A m \in Said : m.typed <= typed
  /\ \A d \in Devices : text[d].typed <= typed
  /\ \A d, e \in Devices : text[d].typed = text[e].typed /\ text[d].typed # 0 => d = e

\* The text in a field that was sent already is one whose send has not ended.
FieldAwaited ==
  \A d \in Devices : \A m \in Said : m.typed = text[d].typed => m.id \in sending[d]

SentInv == Awaited /\ Numbered /\ FieldAwaited

LEMMA InitSent == Init => SentInv
BY DEF Init, SentInv, Awaited, Numbered, FieldAwaited, Said, NoText

LEMMA SaidTyped ==
  ASSUME Inv, NEW m \in Said
  PROVE  m \in Message /\ m.typed \in Nat /\ m.typed # 0
<1>1. m \in Message
  BY SaidOrStored DEF Inv, TypeOK
<1> QED
  BY <1>1 DEF Message

LEMMA TextTyped ==
  ASSUME Inv, NEW d \in Devices
  PROVE  text[d].typed \in Nat /\ typed \in Nat
BY DEF Inv, TypeOK

LEMMA SendSent ==
  ASSUME Inv, SentInv, NEW d \in Devices, Send(d)
  PROVE  SentInv'
<1>1. PICK w : w = NewMessage(d)
  OBVIOUS
<1>2. /\ queue' = [queue EXCEPT ![d] = @ \cup {w}] /\ UNCHANGED <<stored, peer, text, typed>>
      /\ sending' = [sending EXCEPT ![d] = @ \cup {sends + 1}] /\ peer[d] # Closed
  BY <1>1 DEF Send
<1>3. w.id = sends + 1 /\ w.sender = UserOf[d] /\ w.receiver = peer[d] /\ w.typed = text[d].typed
  BY <1>1, SentMessage DEF NewMessage
<1>4. queue'[d] = queue[d] \cup {w} /\ \A e \in Devices : e # d => queue'[e] = queue[e]
  BY <1>2 DEF Inv, TypeOK
<1>5. /\ sending'[d] = sending[d] \cup {sends + 1}
      /\ \A e \in Devices : e # d => sending'[e] = sending[e]
  BY <1>2 DEF Inv, TypeOK
<1>6. \A m : m \in Said' => m \in Said \/ m = w
  BY <1>2, <1>4 DEF Said
<1>7. Awaited'
  <2> SUFFICES ASSUME NEW e \in Devices, NEW i \in sending'[e]
               PROVE  /\ peer'[e] # Closed
                      /\ \E m \in queue'[e] \cup stored' :
                           m.id = i /\ m.sender = UserOf[e] /\ m.receiver = peer'[e]
    BY DEF Awaited
  <2>1. CASE i \in sending[e]
    BY <1>2, <1>4, <2>1 DEF SentInv, Awaited
  <2>2. CASE i \notin sending[e]
    BY <1>2, <1>3, <1>4, <1>5, <2>2
  <2> QED
    BY <2>1, <2>2
<1>8. Numbered'
  <2>1. w.typed <= typed
    BY <1>3 DEF SentInv, Numbered
  <2> QED
    BY <1>2, <1>6, <2>1 DEF SentInv, Numbered
<1>9. FieldAwaited'
  <2> SUFFICES ASSUME NEW e \in Devices, NEW m \in Said', m.typed = text[e].typed
               PROVE  m.id \in sending'[e]
    BY <1>2 DEF FieldAwaited
  <2>1. CASE m \in Said
    BY <1>5, <2>1 DEF SentInv, FieldAwaited
  <2>2. CASE m = w
    <3>1. text[d].typed # 0
      BY <1>2, TextTyped DEF Inv, Fields, Send
    <3>2. e = d
      BY <1>3, <2>2, <3>1 DEF SentInv, Numbered
    <3> QED
      BY <1>3, <1>5, <2>2, <3>2
  <2> QED
    BY <1>6, <2>1, <2>2
<1> QED
  BY <1>7, <1>8, <1>9 DEF SentInv

LEMMA TypeSent ==
  ASSUME Inv, SentInv, NEW d \in Devices, NEW t \in Words, Type(d, t)
  PROVE  SentInv'
<1>1. /\ typed' = typed + 1 /\ UNCHANGED <<peer, sending, queue, stored>>
      /\ text'[d].typed = typed + 1
      /\ \A e \in Devices : e # d => text'[e] = text[e]
  BY DEF Type, Inv, TypeOK
<1>2. Said' = Said
  BY <1>1 DEF Said
<1>3. Awaited'
  BY <1>1 DEF SentInv, Awaited
<1>4. \A e \in Devices : text[e].typed \in Nat /\ text[e].typed <= typed /\ typed \in Nat
  BY TextTyped DEF SentInv, Numbered
<1>5. \A m \in Said : m.typed \in Nat /\ m.typed <= typed
  BY SaidTyped DEF SentInv, Numbered
<1>6. Numbered'
  <2>1. \A m \in Said' : m.typed <= typed'
    BY <1>1, <1>2, <1>4, <1>5
  <2>2. \A e \in Devices : text'[e].typed <= typed'
    BY <1>1, <1>4
  <2>3. \A e, f \in Devices : text'[e].typed = text'[f].typed /\ text'[e].typed # 0 => e = f
    BY <1>1, <1>4 DEF SentInv, Numbered
  <2> QED
    BY <2>1, <2>2, <2>3 DEF Numbered
<1>7. FieldAwaited'
  <2> SUFFICES ASSUME NEW e \in Devices, NEW m \in Said, m.typed = text'[e].typed
               PROVE  m.id \in sending[e]
    BY <1>1, <1>2 DEF FieldAwaited
  <2>1. e # d
    BY <1>1, <1>4, <1>5
  <2> QED
    BY <1>1, <2>1 DEF SentInv, FieldAwaited
<1> QED
  BY <1>3, <1>6, <1>7 DEF SentInv

\* A step that empties a field with the sends it waits for, or none.
LEMMA EmptiesSent ==
  ASSUME Inv, SentInv, NEW d \in Devices,
         UNCHANGED <<queue, stored, typed>>,
         text' = [text EXCEPT ![d] = NoText],
         \A e \in Devices : e # d => sending'[e] = sending[e] /\ peer'[e] = peer[e],
         sending'[d] = {} \/ (sending'[d] \subseteq sending[d] /\ peer'[d] = peer[d])
  PROVE  SentInv'
<1>1. /\ text'[d].typed = 0
      /\ \A e \in Devices : e # d => text'[e] = text[e]
  BY DEF Inv, TypeOK, NoText
<1>2. Said' = Said
  BY DEF Said
<1>3. Awaited'
  BY DEF SentInv, Awaited
<1>4. Numbered'
  <2>1. \A e \in Devices : text'[e].typed <= typed
    BY <1>1, TextTyped DEF SentInv, Numbered
  <2> QED
    BY <1>1, <1>2, <2>1 DEF SentInv, Numbered
<1>5. FieldAwaited'
  <2> SUFFICES ASSUME NEW e \in Devices, NEW m \in Said, m.typed = text'[e].typed
               PROVE  m.id \in sending'[e]
    BY <1>2 DEF FieldAwaited
  <2>1. e # d
    BY <1>1, SaidTyped
  <2> QED
    BY <1>1, <2>1 DEF SentInv, FieldAwaited
<1> QED
  BY <1>3, <1>4, <1>5 DEF SentInv

LEMMA ScreenSent ==
  ASSUME Inv, SentInv, NEW d \in Devices,
         \/ \E p \in Peers : OpenChat(d, p)
         \/ CloseChat(d) \/ Clear(d) \/ Restart(d)
  PROVE  SentInv'
<1>1. CASE \E p \in Peers : OpenChat(d, p)
  <2>1. sending[d] = {}
    BY <1>1 DEF OpenChat, SentInv, Awaited
  <2>2. /\ UNCHANGED <<sending, queue, stored, typed>> /\ text' = [text EXCEPT ![d] = NoText]
        /\ \A e \in Devices : e # d => peer'[e] = peer[e]
    BY <1>1 DEF OpenChat, Inv, TypeOK
  <2> QED
    BY <2>1, <2>2, EmptiesSent
<1>2. CASE CloseChat(d) \/ Restart(d)
  <2>1. /\ UNCHANGED <<queue, stored, typed>> /\ text' = [text EXCEPT ![d] = NoText]
        /\ sending'[d] = {}
        /\ \A e \in Devices : e # d => sending'[e] = sending[e] /\ peer'[e] = peer[e]
    BY <1>2 DEF CloseChat, Restart, Inv, TypeOK
  <2> QED
    BY <2>1, EmptiesSent
<1>3. CASE Clear(d)
  <2>1. PICK i : /\ sending' = [sending EXCEPT ![d] = @ \ {i}]
                 /\ text' = [text EXCEPT ![d] = NoText]
                 /\ UNCHANGED <<peer, queue, stored, typed>>
    BY <1>3 DEF Clear
  <2>2. /\ sending'[d] \subseteq sending[d]
        /\ \A e \in Devices : e # d => sending'[e] = sending[e]
    BY <2>1 DEF Inv, TypeOK
  <2> QED
    BY <2>1, <2>2, EmptiesSent
<1> QED
  BY <1>1, <1>2, <1>3

LEMMA ServerSent ==
  ASSUME Inv, SentInv, NEW d \in Devices, Commit(d) \/ Hear(d)
  PROVE  SentInv'
<1>1. UNCHANGED <<peer, sending, text, typed>>
  BY DEF Commit, Hear
<1>2. \A e \in Devices : queue[e] \cup stored \subseteq queue'[e] \cup stored'
  BY DEF Commit, Hear, Inv, TypeOK
<1>3. \A m : m \in Said' => m \in Said
  <2>1. CASE Commit(d)
    <3>1. PICK w \in queue[d] : queue' = [queue EXCEPT ![d] = @ \ {w}] /\ stored' = stored \cup {w}
      BY <2>1 DEF Commit
    <3>2. \A e \in Devices : queue'[e] \subseteq queue[e]
      BY <3>1 DEF Inv, TypeOK
    <3> QED
      BY <3>1, <3>2 DEF Said
  <2>2. CASE Hear(d)
    BY <2>2 DEF Hear, Said
  <2> QED
    BY <2>1, <2>2
<1>4. Awaited'
  BY <1>1, <1>2 DEF SentInv, Awaited
<1>5. Numbered' /\ FieldAwaited'
  BY <1>1, <1>3 DEF SentInv, Numbered, FieldAwaited
<1> QED
  BY <1>4, <1>5 DEF SentInv

LEMMA NextSent == Inv /\ SentInv /\ [Next]_vars => SentInv'
<1> SUFFICES ASSUME Inv, SentInv, [Next]_vars PROVE SentInv'
  OBVIOUS
<1>1. CASE UNCHANGED vars
  BY <1>1 DEF vars, SentInv, Awaited, Numbered, FieldAwaited, Said
<1>2. CASE Next
  BY <1>2, SendSent, TypeSent, ScreenSent, ServerSent DEF Next
<1> QED
  BY <1>1, <1>2

\* A text is sent again only while its first send has not ended on the screen
\* it was typed on: once the field was cleared, the app killed or the screen
\* left, no tap sends it a second time.
ResentAwaited ==
  [][\A m \in Said' \ Said : \A n \in Said :
       n.typed = m.typed => \E d \in Devices : UserOf[d] = m.sender /\ n.id \in sending[d]]_vars

\* Whatever is typed and tapped, a text goes out again only while its first
\* send is awaited.
THEOREM SentAgain == Spec => ResentAwaited
<1> DEFINE Again ==
      \A m \in Said' \ Said : \A n \in Said :
        n.typed = m.typed => \E d \in Devices : UserOf[d] = m.sender /\ n.id \in sending[d]
<1>1. Inv /\ SentInv /\ [Next]_vars => [Again]_vars
  <2> SUFFICES ASSUME Inv, SentInv, Next, NEW m \in Said', m \notin Said,
                      NEW n \in Said, n.typed = m.typed
               PROVE  \E d \in Devices : UserOf[d] = m.sender /\ n.id \in sending[d]
    OBVIOUS
  <2>1. PICK d \in Devices : Send(d)
    <3>1. ASSUME NEW d \in Devices, Commit(d) PROVE FALSE
      <4>1. PICK w \in queue[d] :
              queue' = [queue EXCEPT ![d] = @ \ {w}] /\ stored' = stored \cup {w}
        BY <3>1 DEF Commit
      <4>2. \A e \in Devices : queue'[e] \subseteq queue[e]
        BY <4>1 DEF Inv, TypeOK
      <4> QED
        BY <4>1, <4>2 DEF Said
    <3>2. UNCHANGED <<queue, stored>> \/ \E d \in Devices : Commit(d) \/ Send(d)
      BY DEF Next, OpenChat, CloseChat, Type, Hear, Clear, Restart
    <3>3. CASE UNCHANGED <<queue, stored>>
      BY <3>3 DEF Said
    <3> QED
      BY <3>1, <3>2, <3>3
  <2>2. m = NewMessage(d)
    <3>1. \A e \in Devices : queue'[e] \subseteq queue[e] \cup {NewMessage(d)}
      BY <2>1 DEF Send, Inv, TypeOK
    <3> QED
      BY <2>1, <3>1 DEF Send, Said
  <2>3. m.sender = UserOf[d] /\ m.typed = text[d].typed
    BY <2>2 DEF NewMessage
  <2> QED
    BY <2>3 DEF SentInv, FieldAwaited
<1> QED
  BY <1>1, InitInv, NextInv, InitSent, NextSent, PTL DEF Spec, ResentAwaited

\* A send ends on an open screen, and clears its field, only when the server
\* has its message, from this user to the one the screen is for: no send of an
\* earlier screen or of another chat ends there.
EndsStored ==
  [][\A d \in Devices : \A i \in sending[d] \ sending'[d] :
       peer'[d] # Closed =>
         \E m \in stored : m.id = i /\ m.sender = UserOf[d] /\ m.receiver = peer'[d]]_vars

\* A send that ends on an open screen has stored its message.
THEOREM SendEndsStored == Spec => EndsStored
<1> DEFINE Ends ==
      \A d \in Devices : \A i \in sending[d] \ sending'[d] :
        peer'[d] # Closed =>
          \E m \in stored : m.id = i /\ m.sender = UserOf[d] /\ m.receiver = peer'[d]
<1>1. Inv /\ SentInv /\ [Next]_vars => [Ends]_vars
  <2> SUFFICES ASSUME Inv, SentInv, Next,
                      NEW d \in Devices, NEW i \in sending[d] \ sending'[d], peer'[d] # Closed
               PROVE  \E m \in stored : m.id = i /\ m.sender = UserOf[d] /\ m.receiver = peer'[d]
    OBVIOUS
  <2>1. peer[d] # Closed /\ \E m \in queue[d] \cup stored :
          m.id = i /\ m.sender = UserOf[d] /\ m.receiver = peer[d]
    BY DEF SentInv, Awaited
  <2>2. PICK e \in Devices :
          \/ Send(e) \/ Commit(e) \/ Hear(e) \/ Clear(e) \/ CloseChat(e) \/ Restart(e)
          \/ \E p \in Peers : OpenChat(e, p)
          \/ \E t \in Words : Type(e, t)
    BY DEF Next
  <2>3. CASE Clear(e)
    <3>1. PICK j \in sending[e] :
            /\ \A m \in queue[e] : m.id # j
            /\ sending' = [sending EXCEPT ![e] = @ \ {j}] /\ peer' = peer
      BY <2>3 DEF Clear
    <3>2. e = d /\ i = j
      BY <3>1 DEF Inv, TypeOK
    <3> QED
      BY <2>1, <3>1, <3>2
  <2>4. CASE CloseChat(e) \/ Restart(e)
    <3>1. peer' = [peer EXCEPT ![e] = Closed] /\ sending' = [sending EXCEPT ![e] = {}]
      BY <2>4 DEF CloseChat, Restart
    <3>2. e = d /\ peer'[d] = Closed
      BY <3>1 DEF Inv, TypeOK
    <3> QED
      BY <3>2
  <2>5. ASSUME \A x \in Devices : sending[x] \subseteq sending'[x] PROVE FALSE
    BY <2>5
  <2>6. CASE Send(e)
    BY <2>5, <2>6 DEF Send, Inv, TypeOK
  <2>7. CASE \/ Commit(e) \/ Hear(e) \/ (\E p \in Peers : OpenChat(e, p))
             \/ (\E t \in Words : Type(e, t))
    BY <2>5, <2>7 DEF Commit, Hear, OpenChat, Type
  <2> QED
    BY <2>2, <2>3, <2>4, <2>6, <2>7
<1> QED
  BY <1>1, InitInv, NextInv, InitSent, NextSent, PTL DEF Spec, EndsStored
=============================================================================
