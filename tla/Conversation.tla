---------------------------- MODULE Conversation ----------------------------
(***************************************************************************)
(* What a chat promises its users, without phones' queues, servers or      *)
(* names of chat rooms: what is said stays said, it is heard only in the   *)
(* conversation of its two parties, at once by the phone that says it, and *)
(* nothing heard is unheard while the conversation is open.                *)
(***************************************************************************)
CONSTANTS Devices, UserOf, Messages, NoPeer

VARIABLES
  said,    \* all messages
  peer,    \* per phone, the user its open conversation is with
  heard    \* per phone, the messages of that conversation on the screen

cvars == <<said, peer, heard>>

Between(d, p) == {m \in Messages : {m.sender, m.receiver} = {UserOf[d], p}}

Init ==
  /\ said = {}
  /\ peer = [d \in Devices |-> NoPeer]
  /\ heard = [d \in Devices |-> {}]

\* A conversation is opened; some of it may be there from earlier.
Enter(d) ==
  /\ peer[d] = NoPeer /\ peer'[d] # NoPeer
  /\ heard'[d] \subseteq said \cap Between(d, peer'[d])
  /\ \A e \in Devices : e # d => peer'[e] = peer[e] /\ heard'[e] = heard[e]
  /\ said' = said

Leave(d) ==
  /\ peer' = [peer EXCEPT ![d] = NoPeer]
  /\ heard' = [heard EXCEPT ![d] = {}]
  /\ said' = said

Say(d) ==
  \E m \in Between(d, peer[d]) :
    /\ peer[d] # NoPeer /\ m.sender = UserOf[d] /\ m \notin said
    /\ said' = said \cup {m}
    /\ heard' = [heard EXCEPT ![d] = @ \cup {m}]
    /\ peer' = peer

Hear(d) ==
  /\ peer[d] # NoPeer
  /\ heard'[d] \subseteq said \cap Between(d, peer[d])
  /\ heard[d] \subseteq heard'[d]
  /\ \A e \in Devices : e # d => heard'[e] = heard[e]
  /\ UNCHANGED <<said, peer>>

Next == \E d \in Devices : Enter(d) \/ Leave(d) \/ Say(d) \/ Hear(d)

Spec == Init /\ [][Next]_cvars
=============================================================================
