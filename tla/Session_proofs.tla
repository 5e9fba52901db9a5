--------------------------- MODULE Session_proofs ---------------------------
(***************************************************************************)
(* Proofs about Session, for every set of devices, users and call slots.   *)
(***************************************************************************)
EXTENDS Session, SequenceTheorems, TLAPS

(***************************************************************************)
(* What the helpers of the actions do to the calls in flight.              *)
(***************************************************************************)

\* The calls of all other slots of all devices stay as they are.
OthersKeep(d, s) ==
  \A e \in Devices, t \in Slots : <<e, t>> # <<d, s>> => calls'[e][t] = calls[e][t]

\* Field updates of a call give a call.
LEMMA CallUpdate ==
  ASSUME NEW c \in Call, NEW step \in Steps
  PROVE  /\ [c EXCEPT !.step = step] \in Call
         /\ [c EXCEPT !.step = step].step = step
         /\ [c EXCEPT !.step = step].kind = c.kind
         /\ [c EXCEPT !.step = step].user = c.user
         /\ [c EXCEPT !.step = step].role = c.role
         /\ [c EXCEPT !.step = step].mounted = c.mounted
BY DEF Call

LEMMA CallUnmount ==
  ASSUME NEW c \in Call
  PROVE  /\ [c EXCEPT !.mounted = FALSE] \in Call
         /\ [c EXCEPT !.mounted = FALSE].step = c.step
         /\ [c EXCEPT !.mounted = FALSE].kind = c.kind
         /\ [c EXCEPT !.mounted = FALSE].user = c.user
         /\ [c EXCEPT !.mounted = FALSE].role = c.role
         /\ [c EXCEPT !.mounted = FALSE].mounted = FALSE
BY DEF Call

LEMMA IdleIsCall == Idle \in Call
BY DEF Idle, Call, Steps

\* Advance moves one call to its next await and changes nothing else of it.
LEMMA AdvanceEffect ==
  ASSUME TypeOK, NEW d \in Devices, NEW s \in Slots, NEW step \in Steps,
         Advance(d, s, step)
  PROVE  /\ calls' \in [Devices -> [Slots -> Call]] /\ CallsOK'
         /\ OthersKeep(d, s)
         /\ calls'[d][s].step = step
         /\ calls'[d][s].kind = calls[d][s].kind
         /\ calls'[d][s].user = calls[d][s].user
         /\ calls'[d][s].role = calls[d][s].role
         /\ calls'[d][s].mounted = calls[d][s].mounted
<1>1. calls[d][s] \in Call /\ [calls[d][s] EXCEPT !.step = step] \in Call
  BY CallUpdate DEF TypeOK
<1>2. calls' = [calls EXCEPT ![d] = [calls[d] EXCEPT ![s] = [calls[d][s] EXCEPT !.step = step]]]
  BY DEF Advance
<1>3. /\ calls' \in [Devices -> [Slots -> Call]] /\ OthersKeep(d, s)
      /\ calls'[d][s] = [calls[d][s] EXCEPT !.step = step]
  BY <1>1, <1>2 DEF TypeOK, OthersKeep
<1>4. CallsOK'
  <2> SUFFICES ASSUME NEW e \in Devices, NEW t \in Slots
               PROVE  /\ calls'[e][t].kind \in {"signUp", "signIn"} => calls'[e][t].user \in Users
                      /\ calls'[e][t].kind = "signUp" => calls'[e][t].role \in Roles
    BY DEF CallsOK
  <2>1. CASE e = d /\ t = s
    BY <1>1, <1>3, <2>1 DEF TypeOK, CallsOK, Call
  <2>2. CASE ~(e = d /\ t = s)
    BY <1>3, <2>2 DEF TypeOK, CallsOK, OthersKeep
  <2> QED
    BY <2>1, <2>2
<1>5. /\ calls'[d][s].step = step
      /\ calls'[d][s].kind = calls[d][s].kind
      /\ calls'[d][s].user = calls[d][s].user
      /\ calls'[d][s].role = calls[d][s].role
      /\ calls'[d][s].mounted = calls[d][s].mounted
  BY <1>1, <1>3, CallUpdate
<1> QED
  BY <1>3, <1>4, <1>5

\* End frees the slot.
LEMMA EndEffect ==
  ASSUME TypeOK, NEW d \in Devices, NEW s \in Slots, End(d, s)
  PROVE  /\ calls' \in [Devices -> [Slots -> Call]] /\ CallsOK'
         /\ OthersKeep(d, s)
         /\ calls'[d][s] = Idle
<1>1. /\ calls' \in [Devices -> [Slots -> Call]] /\ OthersKeep(d, s)
      /\ calls'[d][s] = Idle
  BY IdleIsCall DEF End, TypeOK, OthersKeep
<1>2. CallsOK'
  <2> SUFFICES ASSUME NEW e \in Devices, NEW t \in Slots
               PROVE  /\ calls'[e][t].kind \in {"signUp", "signIn"} => calls'[e][t].user \in Users
                      /\ calls'[e][t].kind = "signUp" => calls'[e][t].role \in Roles
    BY DEF CallsOK
  <2>1. CASE e = d /\ t = s
    BY <1>1, <2>1 DEF Idle
  <2>2. CASE ~(e = d /\ t = s)
    BY <1>1, <2>2 DEF TypeOK, CallsOK, OthersKeep
  <2> QED
    BY <2>1, <2>2
<1> QED
  BY <1>1, <1>2

\* A call is where it was, perhaps without its context.
SameButContext(e, t) ==
  /\ calls'[e][t].kind = calls[e][t].kind /\ calls'[e][t].step = calls[e][t].step
  /\ calls'[e][t].user = calls[e][t].user /\ calls'[e][t].role = calls[e][t].role
  /\ calls'[e][t].mounted => calls[e][t].mounted

\* All calls at most lose their contexts.
OnlyUnmounts == \A e \in Devices, t \in Slots : SameButContext(e, t)

\* Closing pages only takes contexts away from the calls of the device.
LEMMA UnmountEffect ==
  ASSUME TypeOK, NEW d \in Devices, NEW kind,
         calls' = [calls EXCEPT ![d] = Unmount(d, kind)]
  PROVE  calls' \in [Devices -> [Slots -> Call]] /\ CallsOK' /\ OnlyUnmounts
<1>1. \A e \in Devices, t \in Slots :
        calls[e][t] \in Call /\ [calls[e][t] EXCEPT !.mounted = FALSE] \in Call
  BY CallUnmount DEF TypeOK
<1>2. Unmount(d, kind) \in [Slots -> Call]
  BY <1>1 DEF Unmount
<1>3. calls' \in [Devices -> [Slots -> Call]]
  BY <1>2 DEF TypeOK
<1>4. OnlyUnmounts
  <2> SUFFICES ASSUME NEW e \in Devices, NEW t \in Slots
               PROVE  SameButContext(e, t)
    BY DEF OnlyUnmounts
  <2>1. \/ calls'[e][t] = calls[e][t]
        \/ calls'[e][t] = [calls[e][t] EXCEPT !.mounted = FALSE]
    BY DEF Unmount, TypeOK
  <2> QED
    BY <1>1, <2>1, CallUnmount DEF SameButContext
<1>5. CallsOK'
  BY <1>4 DEF CallsOK, OnlyUnmounts, SameButContext, TypeOK
<1> QED
  BY <1>3, <1>4, <1>5

\* After signOut's navigation the slot is free and no call of the device has
\* a context.
LEMMA AllUnmountedEffect ==
  ASSUME TypeOK, NEW d \in Devices, NEW s \in Slots,
         calls' = [calls EXCEPT ![d] = [AllUnmounted(d) EXCEPT ![s] = Idle]]
  PROVE  /\ calls' \in [Devices -> [Slots -> Call]] /\ CallsOK'
         /\ \A e \in Devices, t \in Slots :
              calls'[e][t] = Idle \/ SameButContext(e, t)
         /\ \A t \in Slots : ~calls'[d][t].mounted
<1>1. \A e \in Devices, t \in Slots :
        calls[e][t] \in Call /\ [calls[e][t] EXCEPT !.mounted = FALSE] \in Call
  BY CallUnmount DEF TypeOK
<1>2. AllUnmounted(d) \in [Slots -> Call]
  BY <1>1 DEF AllUnmounted
<1>3. calls' \in [Devices -> [Slots -> Call]]
  BY <1>2, IdleIsCall DEF TypeOK
<1>4. \A e \in Devices, t \in Slots :
        \/ calls'[e][t] = Idle
        \/ e # d /\ calls'[e][t] = calls[e][t]
        \/ e = d /\ calls'[e][t] = [calls[e][t] EXCEPT !.mounted = FALSE]
  BY <1>2 DEF AllUnmounted, TypeOK
<1>5. \A e \in Devices, t \in Slots : calls'[e][t] = Idle \/ SameButContext(e, t)
  <2> SUFFICES ASSUME NEW e \in Devices, NEW t \in Slots
               PROVE  calls'[e][t] = Idle \/ SameButContext(e, t)
    OBVIOUS
  <2>1. calls[e][t] \in Call
    BY <1>1
  <2> QED
    BY <1>4, <2>1, CallUnmount DEF SameButContext
<1>6. CallsOK'
  <2> SUFFICES ASSUME NEW e \in Devices, NEW t \in Slots
               PROVE  /\ calls'[e][t].kind \in {"signUp", "signIn"} => calls'[e][t].user \in Users
                      /\ calls'[e][t].kind = "signUp" => calls'[e][t].role \in Roles
    BY DEF CallsOK
  <2>1. CASE calls'[e][t] = Idle
    BY <2>1 DEF Idle
  <2>2. CASE SameButContext(e, t)
    BY <2>2 DEF CallsOK, SameButContext, TypeOK
  <2> QED
    BY <1>5, <2>1, <2>2
<1>7. \A t \in Slots : ~calls'[d][t].mounted
  <2> SUFFICES ASSUME NEW t \in Slots
               PROVE  ~calls'[d][t].mounted
    OBVIOUS
  <2>1. calls[d][t] \in Call
    BY <1>1
  <2>2. \/ calls'[d][t] = Idle
        \/ calls'[d][t] = [calls[d][t] EXCEPT !.mounted = FALSE]
    BY <1>4
  <2>3. Idle.mounted = FALSE
    BY DEF Idle
  <2> QED
    BY <2>1, <2>2, <2>3, CallUnmount
<1> QED
  BY <1>3, <1>5, <1>6, <1>7

\* A tap that starts a call fills one free slot.
LEMMA StartEffect ==
  ASSUME TypeOK, NEW d \in Devices, NEW s \in Slots, NEW c \in Call, Start(d, s, c),
         c.kind \in {"signUp", "signIn"} => c.user \in Users,
         c.kind = "signUp" => c.role \in Roles
  PROVE  /\ TypeOK'
         /\ OthersKeep(d, s)
         /\ calls[d][s] = Idle /\ calls'[d][s] = c
<1>1. /\ calls' \in [Devices -> [Slots -> Call]] /\ OthersKeep(d, s)
      /\ calls[d][s] = Idle /\ calls'[d][s] = c
  BY DEF Start, TypeOK, OthersKeep
<1>2. CallsOK'
  BY ZenonT(30), <1>1 DEF TypeOK, CallsOK, OthersKeep
<1> QED
  BY <1>1, <1>2 DEF Start, TypeOK, world, ui

(***************************************************************************)
(* Typing.                                                                 *)
(***************************************************************************)

\* DocRole yields a role or "none" on every device, for every user.
LEMMA DocRoleType ==
  ASSUME TypeOK, NEW d \in Devices, NEW u \in Users
  PROVE  DocRole(d, u) \in Roles \cup {"none"}
BY DEF TypeOK, DocRole, Write

\* PushHome pushes a page on a stack of pages.
LEMMA PushHomeType ==
  ASSUME TypeOK, NEW d \in Devices, NEW s \in Slots, NEW r \in Roles,
         PushHome(d, s, r)
  PROVE  stack' \in [Devices -> Seq(Pages)]
BY DEF TypeOK, PushHome, Pages

\* What a pop leaves is a stack of pages.
LEMMA BelowType ==
  ASSUME TypeOK, NEW d \in Devices
  PROVE  Below(d) \in Seq(Pages)
<1>1. stack[d] \in Seq(Pages)
  BY DEF TypeOK
<1>2. \A i \in 1 .. Len(stack[d]) - 1 : stack[d][i] \in Pages
  BY <1>1
<1> QED
  BY <1>1, <1>2, SubSeqProperties DEF Below

LEMMA OpenSplashType ==
  ASSUME TypeOK, NEW d \in Devices
  PROVE  /\ OpenSplash(current[d]) \in SplashStates
         /\ NoSplash \in SplashStates
         /\ <<"splash">> \in Seq(Pages) /\ <<"login">> \in Seq(Pages)
BY DEF TypeOK, OpenSplash, NoSplash, SplashStates, Pages

LEMMA TypeInit == Init => TypeOK
<1> SUFFICES ASSUME Init PROVE TypeOK
  OBVIOUS
<1>1. <<"splash">> \in Seq(Pages)
  BY DEF Pages
<1>2. OpenSplash(NoUser) \in SplashStates
  BY DEF OpenSplash, SplashStates
<1>3. calls \in [Devices -> [Slots -> Call]]
  BY IdleIsCall DEF Init
<1>4. CallsOK
  BY DEF Init, CallsOK, Idle
<1> QED
  BY <1>1, <1>2, <1>3, <1>4 DEF Init, TypeOK, Write

\* The steps of a call in flight keep the state well-typed.
LEMMA CallStepType ==
  ASSUME TypeOK, NEW d \in Devices, NEW s \in Slots, CallStep(d, s)
  PROVE  TypeOK'
<1> USE DEF world, ui, past, At
<1>call. calls[d][s] \in Call
  BY DEF TypeOK
<1>1. CASE SignUpCreate(d, s)
  <2>1. calls[d][s].user \in Users
    BY <1>1 DEF SignUpCreate, TypeOK, CallsOK
  <2> QED
    BY <1>1, <2>1, AdvanceEffect DEF SignUpCreate, SignedIn, TypeOK, Steps
<1>2. CASE SignUpCreateFails(d, s)
  <2>1. calls[d][s].user \in Users
    BY <1>2 DEF SignUpCreateFails, TypeOK, CallsOK
  <2> QED
    BY <1>2, <2>1, EndEffect DEF SignUpCreateFails, TypeOK
<1>3. CASE SignUpName(d, s)
  BY <1>3, AdvanceEffect, EndEffect DEF SignUpName, TypeOK, Steps
<1>4. CASE SignUpStore(d, s)
  <2>1. calls[d][s].user \in Users /\ calls[d][s].role \in Roles
    BY <1>4 DEF SignUpStore, TypeOK, CallsOK
  <2>2. outbox' \in [Devices -> SUBSET Write]
    BY <1>4, <2>1 DEF SignUpStore, TypeOK, Write
  <2> QED
    BY <1>4, <2>2, AdvanceEffect DEF SignUpStore, TypeOK, Steps
<1>5. CASE SignUpDone(d, s)
  <2>1. calls[d][s].user \in Users /\ calls[d][s].role \in Roles
    BY <1>5 DEF SignUpDone, TypeOK, CallsOK
  <2>2. told' \subseteq Write
    BY <1>5, <2>1 DEF SignUpDone, TypeOK, Write
  <2>3. stack' \in [Devices -> Seq(Pages)]
    BY <1>5, <2>1, PushHomeType DEF SignUpDone
  <2> QED
    BY <1>5, <2>2, <2>3, EndEffect DEF SignUpDone, TypeOK
<1>6. CASE SignInAuth(d, s)
  <2>1. calls[d][s].user \in Users
    BY <1>6 DEF SignInAuth, TypeOK, CallsOK
  <2> QED
    BY <1>6, <2>1, AdvanceEffect DEF SignInAuth, SignedIn, TypeOK, Steps
<1>7. CASE SignInHome(d, s)
  <2>1. calls[d][s].user \in Users
    BY <1>7 DEF SignInHome, TypeOK, CallsOK
  <2>2. DocRole(d, calls[d][s].user) \in Roles
    BY <1>7, <2>1, DocRoleType DEF SignInHome
  <2>3. stack' \in [Devices -> Seq(Pages)]
    BY <1>7, <2>2, PushHomeType DEF SignInHome
  <2> QED
    BY <1>7, <2>3, EndEffect DEF SignInHome, TypeOK
<1>8. CASE SignInEnds(d, s)
  BY <1>8, EndEffect DEF SignInEnds, TypeOK
<1>9. CASE SignOutAuth(d, s)
  BY <1>9, AdvanceEffect DEF SignOutAuth, TypeOK, Steps
<1>10. CASE SignOutAuthFails(d, s)
  BY <1>10, EndEffect DEF SignOutAuthFails, TypeOK
<1>11. CASE SignOutNavigate(d, s)
  <2>1. CASE calls[d][s].mounted
    <3>1. calls' \in [Devices -> [Slots -> Call]] /\ CallsOK'
      BY <1>11, <2>1, AllUnmountedEffect DEF SignOutNavigate
    <3> DEFINE opened == OpenSplash(current[d])
    <3>2. /\ stack' = [stack EXCEPT ![d] = <<"splash">>]
          /\ splash' = [splash EXCEPT ![d] = opened]
          /\ <<"splash">> \in Seq(Pages) /\ opened \in SplashStates
      BY <1>11, <2>1, OpenSplashType DEF SignOutNavigate
    <3> HIDE DEF opened
    <3>4. stack' \in [Devices -> Seq(Pages)] /\ splash' \in [Devices -> SplashStates]
      BY <3>2 DEF TypeOK
    <3>3. proved' \in [Devices -> SUBSET Users]
      <4>1. proved' = [proved EXCEPT ![d] = {current[d]} \ {NoUser}]
        BY <1>11, <2>1 DEF SignOutNavigate
      <4>2. {current[d]} \ {NoUser} \in SUBSET Users
        BY DEF TypeOK
      <4> QED
        BY <4>1, <4>2 DEF TypeOK
    <3> QED
      BY <1>11, <3>1, <3>4, <3>3 DEF SignOutNavigate, TypeOK
  <2>2. CASE ~calls[d][s].mounted
    BY <1>11, <2>2, EndEffect DEF SignOutNavigate, TypeOK
  <2> QED
    BY <2>1, <2>2
<1> QED
  BY <1>1, <1>2, <1>3, <1>4, <1>5, <1>6, <1>7, <1>8, <1>9, <1>10, <1>11
     DEF CallStep

\* The taps that start a call keep the state well-typed.
LEMMA UserStepType ==
  ASSUME TypeOK, NEW d \in Devices, NEW s \in Slots, UserStep(d, s)
  PROVE  TypeOK'
<1>1. ASSUME NEW u \in Users, NEW r \in Roles, StartSignUp(d, s, u, r)
      PROVE  TypeOK'
  BY <1>1, StartEffect DEF StartSignUp, Call, Steps
<1>2. ASSUME NEW u \in Users, StartSignIn(d, s, u)
      PROVE  TypeOK'
  BY <1>2, StartEffect DEF StartSignIn, Call, Steps
<1>3. CASE StartSignOut(d, s)
  BY <1>3, StartEffect DEF StartSignOut, Call, Steps
<1> QED
  BY <1>1, <1>2, <1>3 DEF UserStep

\* Every step keeps the state well-typed.
LEMMA TypeStep == TypeOK /\ [Next]_vars => TypeOK'
<1> SUFFICES ASSUME TypeOK, [Next]_vars PROVE TypeOK'
  OBVIOUS
<1> USE DEF world, ui, past
<1>same. ASSUME calls' = calls PROVE CallsOK'
  BY <1>same DEF TypeOK, CallsOK
<1>stutter. CASE UNCHANGED vars
  BY <1>stutter, <1>same DEF TypeOK, vars
<1>1. ASSUME NEW d \in Devices, GetStarted(d) PROVE TypeOK'
  BY <1>1, <1>same, OpenSplashType DEF TypeOK, GetStarted
<1>2. ASSUME NEW d \in Devices, GoRegister(d) PROVE TypeOK'
  BY <1>2, <1>same DEF TypeOK, GoRegister, Pages
<1>3. ASSUME NEW d \in Devices, Back(d) PROVE TypeOK'
  <2>1. Below(d) \in Seq(Pages)
    BY BelowType
  <2>2. calls' \in [Devices -> [Slots -> Call]] /\ CallsOK'
    BY <1>3, <1>same, UnmountEffect DEF TypeOK, Back
  <2> QED
    BY <1>3, <2>1, <2>2 DEF TypeOK, Back
<1>4. ASSUME NEW d \in Devices, DismissDialog(d) PROVE TypeOK'
  BY <1>4, UnmountEffect DEF TypeOK, DismissDialog
<1>5. ASSUME NEW d \in Devices, SplashFound(d) PROVE TypeOK'
  <2>1. splash[d] \in SplashStates /\ DocRole(d, splash[d].user) \in Roles
    <3>1. splash[d].user \in Users
      BY <1>5 DEF SplashFound, TypeOK, SplashStates
    <3> QED
      BY <1>5, <3>1, DocRoleType DEF SplashFound, TypeOK
  <2>2. [splash[d] EXCEPT !.at = DocRole(d, splash[d].user)] \in SplashStates
    BY <1>5, <2>1 DEF SplashFound, SplashStates
  <2>3. splash' \in [Devices -> SplashStates]
    BY <1>5, <2>2 DEF TypeOK, SplashFound
  <2> QED
    BY <1>5, <1>same, <2>3 DEF TypeOK, SplashFound
<1>6. ASSUME NEW d \in Devices, SplashSignsOut(d) PROVE TypeOK'
  BY ZenonT(30), <1>6, <1>same DEF TypeOK, SplashSignsOut, SplashStates
<1>7. ASSUME NEW d \in Devices, SplashNavigate(d) PROVE TypeOK'
  <2>1. splash[d].at \in Pages
    BY <1>7 DEF SplashNavigate, Pages
  <2>2. Append(Below(d), splash[d].at) \in Seq(Pages)
    BY <2>1, BelowType
  <2> QED
    BY <1>7, <1>same, <2>2, OpenSplashType DEF TypeOK, SplashNavigate
<1>8. ASSUME NEW d \in Devices, Commit(d) PROVE TypeOK'
  BY <1>8, <1>same DEF TypeOK, Commit, Write
<1>9. ASSUME NEW d \in Devices, Restart(d) PROVE TypeOK'
  <2>1. calls' \in [Devices -> [Slots -> Call]] /\ CallsOK'
    BY <1>9, IdleIsCall DEF Restart, TypeOK, CallsOK, Idle
  <2> QED
    BY <1>9, <2>1, OpenSplashType DEF TypeOK, Restart
<1> QED
  BY <1>stutter, <1>1, <1>2, <1>3, <1>4, <1>5, <1>6, <1>7, <1>8, <1>9,
     CallStepType, UserStepType DEF Next, SplashStep

\* The variables keep their types in every behaviour.
THEOREM TypeCorrect == Spec => []TypeOK
BY TypeInit, TypeStep, PTL DEF Spec

(***************************************************************************)
(* Registration.  A user's role is written once because one call at most   *)
(* got the account, and that call's write is the only one ever queued.     *)
(***************************************************************************)

\* The signUp in slot s of d has the account of u and not yet queued its
\* profile.
Busy(d, s, u) ==
  /\ calls[d][s].kind = "signUp" /\ calls[d][s].step \in {"name", "store"}
  /\ calls[d][s].user = u

\* At most one call is between creating u's account and queueing its profile,
\* and while there is one, no profile of u is queued or stored.
OneBusy ==
  \A d \in Devices, s \in Slots, u \in Users : Busy(d, s, u) =>
    /\ u \in accounts /\ usertype[u] = "none"
    /\ \A e \in Devices : \A w \in outbox[e] : w.user # u
    /\ \A e \in Devices, t \in Slots : Busy(e, t, u) => e = d /\ t = s

\* At most one profile of a user is queued, on one device, and none is stored.
OneQueued ==
  \A d \in Devices : \A w \in outbox[d] :
    /\ w.user \in accounts /\ usertype[w.user] = "none"
    /\ \A e \in Devices : \A x \in outbox[e] : x.user = w.user => e = d /\ x = w

\* A signUp that waits for the acknowledgement has its write queued or stored.
Awaited ==
  \A d \in Devices, s \in Slots : At(d, s, "signUp", "ack") =>
    \/ [user |-> calls[d][s].user, role |-> calls[d][s].role] \in outbox[d]
    \/ usertype[calls[d][s].user] = calls[d][s].role

StoredHasAccount == \A u \in Users : usertype[u] # "none" => u \in accounts

IInv == OneBusy /\ OneQueued /\ Awaited /\ StoredHasAccount /\ RegistrationIsDurable

\* No call newly gets an account or starts to wait.
NoNewClaim ==
  /\ \A d \in Devices, s \in Slots, u \in Users : Busy(d, s, u)' => Busy(d, s, u)
  /\ \A d \in Devices, s \in Slots : At(d, s, "signUp", "ack")' =>
       /\ At(d, s, "signUp", "ack")
       /\ calls'[d][s].user = calls[d][s].user
       /\ calls'[d][s].role = calls[d][s].role

\* A step that claims nothing and leaves documents and reports alone keeps the
\* invariant, even if it adds an account.
LEMMA NoNewClaimStep ==
  ASSUME TypeOK, IInv, NoNewClaim, accounts \subseteq accounts',
         usertype' = usertype, outbox' = outbox, told' = told
  PROVE  IInv'
<1>1. OneBusy'
  BY DEF IInv, OneBusy, NoNewClaim
<1>2. OneQueued'
  BY DEF IInv, OneQueued
<1>3. Awaited'
  BY DEF IInv, Awaited, NoNewClaim
<1>4. StoredHasAccount' /\ RegistrationIsDurable'
  BY DEF IInv, StoredHasAccount, RegistrationIsDurable
<1> QED
  BY <1>1, <1>2, <1>3, <1>4 DEF IInv

\* Ending a call claims nothing.
LEMMA EndClaimsNothing ==
  ASSUME TypeOK, NEW d \in Devices, NEW s \in Slots, End(d, s)
  PROVE  NoNewClaim
BY EndEffect DEF NoNewClaim, Busy, At, OthersKeep, Idle

\* Neither does moving a call that is no signUp.
LEMMA AdvanceClaimsNothing ==
  ASSUME TypeOK, NEW d \in Devices, NEW s \in Slots, NEW step \in Steps,
         Advance(d, s, step), calls[d][s].kind # "signUp"
  PROVE  NoNewClaim
<1>1. calls'[d][s].kind # "signUp" /\ OthersKeep(d, s)
  BY AdvanceEffect
<1> QED
  BY <1>1 DEF NoNewClaim, Busy, At, OthersKeep

\* Nor does taking contexts away.
LEMMA UnmountClaimsNothing ==
  ASSUME TypeOK, OnlyUnmounts
  PROVE  NoNewClaim
BY DEF NoNewClaim, Busy, At, OnlyUnmounts, SameButContext

\* Nor does a tap: a new signUp is still before its createUser.
LEMMA StartClaimsNothing ==
  ASSUME TypeOK, NEW d \in Devices, NEW s \in Slots, UserStep(d, s)
  PROVE  /\ NoNewClaim
         /\ UNCHANGED <<accounts, usertype, outbox, told>>
<1>1. ASSUME NEW c, Start(d, s, c), c.step = "auth"
      PROVE  NoNewClaim /\ UNCHANGED <<accounts, usertype, outbox, told>>
  <2>1. calls'[d][s].step = "auth" /\ OthersKeep(d, s)
    BY <1>1 DEF Start, TypeOK, OthersKeep
  <2> QED
    BY <1>1, <2>1 DEF NoNewClaim, Busy, At, OthersKeep, Start, world
<1> QED
  BY <1>1 DEF UserStep, StartSignUp, StartSignIn, StartSignOut

LEMMA IInit == Init => IInv
BY DEF Init, IInv, OneBusy, OneQueued, Awaited, StoredHasAccount,
       RegistrationIsDurable, Busy, At, Idle

\* createUser gives u's account to one call: nobody had it, so nobody else is
\* busy with u and no profile of u is queued or stored.
LEMMA CreateStep ==
  ASSUME TypeOK, IInv, NEW d \in Devices, NEW s \in Slots, SignUpCreate(d, s)
  PROVE  IInv'
<1> DEFINE u == calls[d][s].user
<1>1. /\ u \in Users /\ u \notin accounts /\ accounts' = accounts \cup {u}
      /\ usertype' = usertype /\ outbox' = outbox /\ told' = told
  BY DEF SignUpCreate, TypeOK, CallsOK, At
<1>2. /\ OthersKeep(d, s)
      /\ calls'[d][s].kind = "signUp" /\ calls'[d][s].step = "name"
      /\ calls'[d][s].user = u
  BY AdvanceEffect DEF SignUpCreate, At, Steps
<1>3. \A e \in Devices, t \in Slots, v \in Users :
        Busy(e, t, v)' => Busy(e, t, v) \/ (e = d /\ t = s /\ v = u)
  BY <1>2 DEF Busy, OthersKeep
<1>4. \A e \in Devices, t \in Slots : ~Busy(e, t, u)
  BY <1>1 DEF IInv, OneBusy
<1>5. usertype[u] = "none" /\ \A e \in Devices : \A w \in outbox[e] : w.user # u
  BY <1>1 DEF IInv, OneQueued, StoredHasAccount
<1> HIDE DEF u
<1>6. OneBusy'
  BY <1>1, <1>3, <1>4, <1>5 DEF IInv, OneBusy
<1>7. OneQueued'
  BY <1>1 DEF IInv, OneQueued
<1>8. Awaited'
  BY <1>1, <1>2 DEF IInv, Awaited, At, OthersKeep
<1>9. StoredHasAccount' /\ RegistrationIsDurable'
  BY <1>1 DEF IInv, StoredHasAccount, RegistrationIsDurable
<1> QED
  BY <1>6, <1>7, <1>8, <1>9 DEF IInv

\* Queueing the profile hands the claim from the call to the queue.
LEMMA StoreStep ==
  ASSUME TypeOK, IInv, NEW d \in Devices, NEW s \in Slots, SignUpStore(d, s)
  PROVE  IInv'
<1> DEFINE u == calls[d][s].user
           w == [user |-> calls[d][s].user, role |-> calls[d][s].role]
<1>1. /\ u \in Users /\ Busy(d, s, u)
      /\ accounts' = accounts /\ usertype' = usertype /\ told' = told
      /\ outbox' = [outbox EXCEPT ![d] = @ \cup {w}]
  BY DEF SignUpStore, TypeOK, CallsOK, At, Busy, past, ui
<1>2. /\ OthersKeep(d, s)
      /\ calls'[d][s].kind = "signUp" /\ calls'[d][s].step = "ack"
      /\ calls'[d][s].user = u /\ calls'[d][s].role = w.role
  BY AdvanceEffect DEF SignUpStore, At, Steps
<1>3. \A e \in Devices : outbox'[e] = IF e = d THEN outbox[d] \cup {w} ELSE outbox[e]
  BY <1>1 DEF TypeOK
<1>4. w.user = u
  OBVIOUS
<1> HIDE DEF u, w
<1>5. \A e \in Devices, t \in Slots, v \in Users :
        Busy(e, t, v)' => Busy(e, t, v) /\ v # u
  BY <1>1, <1>2 DEF Busy, OthersKeep, IInv, OneBusy
<1>6. OneBusy'
  BY <1>1, <1>3, <1>4, <1>5 DEF IInv, OneBusy
<1>7. OneQueued'
  BY <1>1, <1>3, <1>4 DEF IInv, OneQueued, OneBusy
<1>8. Awaited'
  <2> SUFFICES ASSUME NEW e \in Devices, NEW t \in Slots, At(e, t, "signUp", "ack")'
               PROVE  \/ [user |-> calls'[e][t].user, role |-> calls'[e][t].role] \in outbox'[e]
                      \/ usertype'[calls'[e][t].user] = calls'[e][t].role
    BY DEF Awaited
  <2>1. CASE e = d /\ t = s
    BY <1>2, <1>3, <2>1 DEF u, w
  <2>2. CASE ~(e = d /\ t = s)
    BY <1>1, <1>2, <1>3, <2>2 DEF IInv, Awaited, At, OthersKeep
  <2> QED
    BY <2>1, <2>2
<1>9. StoredHasAccount' /\ RegistrationIsDurable'
  BY <1>1 DEF IInv, StoredHasAccount, RegistrationIsDurable
<1> QED
  BY <1>6, <1>7, <1>8, <1>9 DEF IInv

\* Sending a queued profile stores a first role.
LEMMA CommitStep ==
  ASSUME TypeOK, IInv, NEW d \in Devices, Commit(d)
  PROVE  /\ IInv'
         /\ \A u \in Users : usertype[u] # "none" => usertype'[u] = usertype[u]
<1>1. PICK w \in outbox[d] :
        /\ usertype' = [usertype EXCEPT ![w.user] = w.role]
        /\ outbox' = [outbox EXCEPT ![d] = @ \ {w}]
        /\ accounts' = accounts /\ calls' = calls /\ told' = told
  BY DEF Commit, past, world
<1>2. /\ w \in Write /\ w.user \in Users /\ w.role \in Roles
      /\ w.user \in accounts /\ usertype[w.user] = "none"
      /\ w = [user |-> w.user, role |-> w.role]
  BY DEF IInv, OneQueued, TypeOK, Write
<1>3. \A u \in Users : usertype'[u] = IF u = w.user THEN w.role ELSE usertype[u]
  BY <1>1, <1>2 DEF TypeOK
<1>4. \A e \in Devices : outbox'[e] = IF e = d THEN outbox[d] \ {w} ELSE outbox[e]
  BY <1>1 DEF TypeOK
<1>5. \A e \in Devices : \A x \in outbox'[e] : x.user # w.user
  BY <1>4 DEF IInv, OneQueued
<1>6. OneBusy'
  BY <1>1, <1>3, <1>4 DEF IInv, OneBusy, Busy
<1>7. OneQueued'
  <2>1. \A e \in Devices : \A x \in outbox'[e] : x.user \in Users
    <3>1. \A e \in Devices : outbox[e] \subseteq Write
      BY DEF TypeOK
    <3> QED
      BY <1>4, <3>1 DEF Write
  <2> QED
    BY <1>1, <1>3, <1>4, <1>5, <2>1 DEF IInv, OneQueued
<1>8. Awaited'
  <2> SUFFICES ASSUME NEW e \in Devices, NEW t \in Slots, At(e, t, "signUp", "ack")
               PROVE  \/ [user |-> calls[e][t].user, role |-> calls[e][t].role] \in outbox'[e]
                      \/ usertype'[calls[e][t].user] = calls[e][t].role
    BY <1>1 DEF Awaited, At
  <2> DEFINE x == [user |-> calls[e][t].user, role |-> calls[e][t].role]
  <2>1. x.user \in Users
    BY DEF TypeOK, CallsOK, At
  <2>2. CASE x \in outbox[e]
    BY <1>3, <1>4, <2>1, <2>2
  <2>3. CASE usertype[x.user] = x.role
    BY <1>2, <1>3, <2>1, <2>3 DEF TypeOK, CallsOK, At, Roles
  <2> QED
    BY <2>2, <2>3 DEF IInv, Awaited
<1>9. StoredHasAccount'
  BY <1>1, <1>2, <1>3 DEF IInv, StoredHasAccount
<1>10. RegistrationIsDurable'
  BY <1>1, <1>2, <1>3 DEF IInv, RegistrationIsDurable, TypeOK, Write, Roles
<1>11. \A u \in Users : usertype[u] # "none" => usertype'[u] = usertype[u]
  BY <1>2, <1>3
<1> QED
  BY <1>6, <1>7, <1>8, <1>9, <1>10, <1>11 DEF IInv

\* signUp returns true only once its own write is on the server.
LEMMA DoneStep ==
  ASSUME TypeOK, IInv, NEW d \in Devices, NEW s \in Slots, SignUpDone(d, s)
  PROVE  IInv'
<1> DEFINE w == [user |-> calls[d][s].user, role |-> calls[d][s].role]
<1>1. /\ At(d, s, "signUp", "ack") /\ w \notin outbox[d]
      /\ accounts' = accounts /\ usertype' = usertype /\ outbox' = outbox
      /\ told' \subseteq told \cup {w} /\ End(d, s)
  BY DEF SignUpDone, world
<1>2. w.user \in Users /\ w.role \in Roles /\ usertype[w.user] = w.role
  BY <1>1 DEF IInv, Awaited, TypeOK, CallsOK, At
<1>3. NoNewClaim
  BY <1>1, EndClaimsNothing
<1> HIDE DEF w
<1>4. OneBusy' /\ OneQueued'
  BY <1>1, <1>3 DEF IInv, OneBusy, OneQueued, NoNewClaim
<1>5. Awaited' /\ StoredHasAccount'
  BY <1>1, <1>3 DEF IInv, Awaited, StoredHasAccount, NoNewClaim
<1>6. RegistrationIsDurable'
  BY <1>1, <1>2 DEF IInv, RegistrationIsDurable, StoredHasAccount, Roles
<1> QED
  BY <1>4, <1>5, <1>6 DEF IInv

\* The steps of a call in flight keep the invariant.
LEMMA CallStepIInv ==
  ASSUME TypeOK, IInv, NEW d \in Devices, NEW s \in Slots, CallStep(d, s)
  PROVE  IInv' /\ (usertype' = usertype)
<1> USE DEF world, ui, past
<1>1. CASE SignUpCreate(d, s)
  BY <1>1, CreateStep DEF SignUpCreate
<1>2. CASE SignUpCreateFails(d, s)
  BY <1>2, EndClaimsNothing, NoNewClaimStep DEF SignUpCreateFails
<1>3. CASE SignUpName(d, s)
  <2>1. At(d, s, "signUp", "name")
    BY <1>3 DEF SignUpName
  <2>2. CASE Advance(d, s, "store")
    <3>1. /\ OthersKeep(d, s) /\ calls'[d][s].step = "store"
          /\ calls'[d][s].kind = calls[d][s].kind /\ calls'[d][s].user = calls[d][s].user
      BY <2>2, AdvanceEffect DEF Steps
    <3>2. NoNewClaim
      BY <2>1, <3>1 DEF NoNewClaim, Busy, At, OthersKeep
    <3> QED
      BY <1>3, <3>2, NoNewClaimStep DEF SignUpName
  <2>3. CASE End(d, s)
    BY <1>3, <2>3, EndClaimsNothing, NoNewClaimStep DEF SignUpName
  <2> QED
    BY <1>3, <2>2, <2>3 DEF SignUpName
<1>4. CASE SignUpStore(d, s)
  BY <1>4, StoreStep DEF SignUpStore
<1>5. CASE SignUpDone(d, s)
  BY <1>5, DoneStep DEF SignUpDone
<1>6. CASE SignInAuth(d, s)
  BY <1>6, AdvanceClaimsNothing, NoNewClaimStep DEF SignInAuth, At, Steps
<1>7. CASE SignInHome(d, s)
  BY <1>7, EndClaimsNothing, NoNewClaimStep DEF SignInHome
<1>8. CASE SignInEnds(d, s)
  BY <1>8, EndClaimsNothing, NoNewClaimStep DEF SignInEnds
<1>9. CASE SignOutAuth(d, s)
  BY <1>9, AdvanceClaimsNothing, NoNewClaimStep DEF SignOutAuth, At, Steps
<1>10. CASE SignOutAuthFails(d, s)
  BY <1>10, EndClaimsNothing, NoNewClaimStep DEF SignOutAuthFails
<1>11. CASE SignOutNavigate(d, s)
  <2>1. NoNewClaim
    <3>1. CASE calls[d][s].mounted
      <4>1. \A e \in Devices, t \in Slots : calls'[e][t] = Idle \/ SameButContext(e, t)
        BY <1>11, <3>1, AllUnmountedEffect DEF SignOutNavigate
      <4> QED
        BY <4>1 DEF NoNewClaim, Busy, At, SameButContext, Idle
    <3>2. CASE ~calls[d][s].mounted
      BY <1>11, <3>2, EndClaimsNothing DEF SignOutNavigate
    <3> QED
      BY <3>1, <3>2
  <2> QED
    BY <1>11, <2>1, NoNewClaimStep DEF SignOutNavigate
<1> QED
  BY <1>1, <1>2, <1>3, <1>4, <1>5, <1>6, <1>7, <1>8, <1>9, <1>10, <1>11
     DEF CallStep

\* Every step keeps the invariant, and no step changes a role that is set.
LEMMA StepIInv ==
  ASSUME TypeOK, IInv, [Next]_vars
  PROVE  /\ IInv'
         /\ \A u \in Users : usertype[u] # "none" => usertype'[u] = usertype[u]
<1> USE DEF world, ui, past
<1>same. ASSUME UNCHANGED <<world, told>>, calls' = calls
         PROVE  IInv' /\ usertype' = usertype
  BY <1>same, NoNewClaimStep DEF NoNewClaim, Busy, At
<1>1. CASE UNCHANGED vars
  BY <1>1, <1>same DEF vars
<1>2. ASSUME NEW d \in Devices, NEW s \in Slots, CallStep(d, s) \/ UserStep(d, s)
      PROVE  IInv' /\ usertype' = usertype
  BY <1>2, CallStepIInv, StartClaimsNothing, NoNewClaimStep
<1>3. ASSUME NEW d \in Devices, GetStarted(d) \/ GoRegister(d) \/ SplashStep(d)
      PROVE  IInv' /\ usertype' = usertype
  BY <1>3, <1>same
     DEF GetStarted, GoRegister, SplashStep, SplashFound, SplashSignsOut, SplashNavigate
<1>4. ASSUME NEW d \in Devices, Back(d)
      PROVE  IInv' /\ usertype' = usertype
  <2>1. NoNewClaim
    BY <1>4, UnmountEffect, UnmountClaimsNothing DEF Back, NoNewClaim, Busy, At
  <2> QED
    BY <1>4, <2>1, NoNewClaimStep DEF Back
<1>5. ASSUME NEW d \in Devices, DismissDialog(d)
      PROVE  IInv' /\ usertype' = usertype
  <2>1. NoNewClaim
    BY <1>5, UnmountEffect, UnmountClaimsNothing DEF DismissDialog
  <2> QED
    BY <1>5, <2>1, NoNewClaimStep DEF DismissDialog
<1>6. ASSUME NEW d \in Devices, Restart(d)
      PROVE  IInv' /\ usertype' = usertype
  <2>1. \A e \in Devices, t \in Slots : calls'[e][t] \in {Idle, calls[e][t]}
    BY <1>6 DEF Restart, TypeOK
  <2>2. NoNewClaim
    BY <2>1 DEF NoNewClaim, Busy, At, Idle
  <2> QED
    BY <1>6, <2>2, NoNewClaimStep DEF Restart
<1>7. ASSUME NEW d \in Devices, Commit(d)
      PROVE  /\ IInv'
             /\ \A u \in Users : usertype[u] # "none" => usertype'[u] = usertype[u]
  BY <1>7, CommitStep
<1> QED
  BY <1>1, <1>2, <1>3, <1>4, <1>5, <1>6, <1>7 DEF Next

\* Once signUp has returned true, the account and the profile with the chosen
\* role are on the server for good.
THEOREM RegistrationDurable == Spec => []RegistrationIsDurable
<1>1. Init => TypeOK /\ IInv
  BY TypeInit, IInit
<1>2. (TypeOK /\ IInv) /\ [Next]_vars => (TypeOK /\ IInv)'
  BY TypeStep, StepIInv
<1>3. TypeOK /\ IInv => RegistrationIsDurable
  BY DEF IInv
<1> QED
  BY <1>1, <1>2, <1>3, PTL DEF Spec

\* No step of any device changes a role that a user's document already has.
THEOREM RoleFinal == Spec => RoleIsFinal
<1>1. Init => TypeOK /\ IInv
  BY TypeInit, IInit
<1>2. (TypeOK /\ IInv) /\ [Next]_vars => (TypeOK /\ IInv)'
  BY TypeStep, StepIInv
<1>3. (TypeOK /\ IInv) /\ [Next]_vars =>
        [\A u \in Users : usertype[u] # "none" => usertype'[u] = usertype[u]]_vars
  BY StepIInv
<1> QED
  BY <1>1, <1>2, <1>3, PTL DEF Spec, RoleIsFinal
(***************************************************************************)
(* Documents.  What a device has once read of a user's document it reads   *)
(* ever after: from the write it holds, and then from the server.          *)
(***************************************************************************)

\* A queued profile stays queued until it is the one that is stored.
WritesKept ==
  \A d \in Devices : \A w \in outbox[d] :
    w \in outbox'[d] \/ usertype'[w.user] = w.role

\* A document that is there stays as it is, as any device sees it.
DocsKept ==
  \A d \in Devices, u \in Users :
    DocRole(d, u) # "none" => DocRole(d, u)' = DocRole(d, u)

LEMMA StepWrites ==
  ASSUME TypeOK, [Next]_vars
  PROVE  WritesKept
<1> USE DEF WritesKept
<1>1. CASE outbox' = outbox
  BY <1>1
<1>2. ASSUME NEW d \in Devices, NEW s \in Slots, SignUpStore(d, s) PROVE WritesKept
  BY <1>2 DEF SignUpStore, TypeOK
<1>3. ASSUME NEW d \in Devices, Commit(d) PROVE WritesKept
  <2>1. PICK w \in outbox[d] :
          /\ usertype' = [usertype EXCEPT ![w.user] = w.role]
          /\ outbox' = [outbox EXCEPT ![d] = @ \ {w}]
    BY <1>3 DEF Commit
  <2>2. w.user \in Users
    BY DEF TypeOK, Write
  <2>3. usertype'[w.user] = w.role
    BY <2>1, <2>2 DEF TypeOK
  <2> QED
    BY <2>1, <2>3 DEF TypeOK
<1>4. ASSUME NEW d \in Devices, NEW s \in Slots, CallStep(d, s) PROVE WritesKept
  <2>1. SignUpStore(d, s) \/ outbox' = outbox
    BY <1>4 DEF CallStep, world, SignUpCreate, SignUpCreateFails, SignUpName, SignUpDone,
      SignInAuth, SignInHome, SignInEnds, SignOutAuth, SignOutAuthFails, SignOutNavigate
  <2> QED
    BY <1>1, <1>2, <2>1
<1>5. ASSUME NEW d \in Devices, NEW s \in Slots, UserStep(d, s) PROVE outbox' = outbox
  BY <1>5 DEF UserStep, Start, StartSignUp, StartSignIn, StartSignOut, world
<1>6. ASSUME NEW d \in Devices, \/ SplashStep(d) \/ GetStarted(d) \/ GoRegister(d)
                                \/ Back(d) \/ DismissDialog(d) \/ Restart(d)
      PROVE  outbox' = outbox
  BY <1>6 DEF SplashStep, SplashFound, SplashSignsOut, SplashNavigate, GetStarted,
    GoRegister, Back, DismissDialog, Restart, world
<1> QED
  BY <1>1, <1>3, <1>4, <1>5, <1>6 DEF Next, vars

LEMMA StepDocs ==
  ASSUME TypeOK, IInv, [Next]_vars
  PROVE  DocsKept
<1> SUFFICES ASSUME NEW d \in Devices, NEW u \in Users, DocRole(d, u) # "none"
             PROVE  DocRole(d, u)' = DocRole(d, u)
  BY DEF DocsKept
<1>1. OneQueued /\ OneQueued'
  BY StepIInv DEF IInv
<1>2. CASE usertype[u] # "none"
  BY <1>2, StepIInv DEF DocRole
<1>3. CASE usertype[u] = "none"
  <2>1. PICK w \in outbox[d] : w.user = u
    BY <1>3 DEF DocRole
  <2>2. \A x \in outbox[d] : x.user = u => x = w
    BY <1>1, <2>1 DEF OneQueued
  <2>3. DocRole(d, u) = w.role
    BY <1>3, <2>1, <2>2 DEF DocRole
  <2>4. CASE w \in outbox'[d]
    <3>1. usertype'[u] = "none" /\ \A x \in outbox'[d] : x.user = u => x = w
      BY <1>1, <2>1, <2>4 DEF OneQueued
    <3> QED
      BY <2>1, <2>3, <2>4, <3>1 DEF DocRole
  <2>5. CASE usertype'[u] = w.role
    BY <2>3, <2>5 DEF DocRole
  <2> QED
    BY <2>1, <2>4, <2>5, StepWrites DEF WritesKept
<1> QED
  BY <1>2, <1>3
(***************************************************************************)
(* Devices.  A step of one device leaves the pages, calls and users of the *)
(* others alone; what they share is the server.                            *)
(***************************************************************************)
DeviceStep(d) ==
  \/ \E s \in Slots : CallStep(d, s) \/ UserStep(d, s)
  \/ GetStarted(d) \/ GoRegister(d) \/ Back(d) \/ DismissDialog(d)
  \/ SplashStep(d) \/ Commit(d) \/ Restart(d)

Untouched(e) ==
  /\ stack'[e] = stack[e] /\ splash'[e] = splash[e] /\ calls'[e] = calls[e]
  /\ current'[e] = current[e] /\ raced'[e] = raced[e] /\ proved'[e] = proved[e]

LEMMA Elsewhere ==
  ASSUME TypeOK, NEW d \in Devices, NEW e \in Devices, e # d, DeviceStep(d)
  PROVE  Untouched(e)
<1> USE DEF world, ui, past, Untouched
<1>1. ASSUME NEW s \in Slots, CallStep(d, s) PROVE Untouched(e)
  <2> USE DEF TypeOK
  <2>1. CASE SignUpCreate(d, s) \/ SignInAuth(d, s)
    BY <2>1 DEF SignUpCreate, SignInAuth, SignedIn, Advance
  <2>2. CASE SignUpCreateFails(d, s) \/ SignUpName(d, s) \/ SignUpStore(d, s)
    BY <2>2 DEF SignUpCreateFails, SignUpName, SignUpStore, Advance, End
  <2>3. CASE SignUpDone(d, s)
    BY <2>3 DEF SignUpDone, PushHome, End
  <2>4. CASE SignInHome(d, s) \/ SignInEnds(d, s)
    BY <2>4 DEF SignInHome, SignInEnds, PushHome, End
  <2>5. CASE SignOutAuth(d, s) \/ SignOutAuthFails(d, s)
    BY <2>5 DEF SignOutAuth, SignOutAuthFails, Advance, End
  <2>6. CASE SignOutNavigate(d, s)
    BY <2>6 DEF SignOutNavigate, End
  <2> QED
    BY <1>1, <2>1, <2>2, <2>3, <2>4, <2>5, <2>6 DEF CallStep
<1>2. ASSUME NEW s \in Slots, UserStep(d, s) PROVE Untouched(e)
  BY <1>2 DEF TypeOK, UserStep, StartSignUp, StartSignIn, StartSignOut, Start
<1>3. CASE GetStarted(d) \/ GoRegister(d)
  BY <1>3 DEF TypeOK, GetStarted, GoRegister
<1>4. CASE Back(d) \/ DismissDialog(d)
  BY <1>4 DEF TypeOK, Back, DismissDialog
<1>5. CASE SplashStep(d)
  BY <1>5 DEF TypeOK, SplashStep, SplashFound, SplashSignsOut, SplashNavigate
<1>6. CASE Commit(d) \/ Restart(d)
  BY <1>6 DEF TypeOK, Commit, Restart
<1> QED
  BY <1>1, <1>2, <1>3, <1>4, <1>5, <1>6 DEF DeviceStep

(***************************************************************************)
(* The stack of pages.                                                     *)
(***************************************************************************)

\* A page on top of a stack.
LEMMA Pushed ==
  ASSUME NEW st \in Seq(Pages), NEW page \in Pages
  PROVE  /\ Len(Append(st, page)) = Len(st) + 1 /\ Len(st) \in Nat
         /\ \A i \in 1..Len(Append(st, page)) :
              IF i = Len(st) + 1 THEN Append(st, page)[i] = page
                                 ELSE i \in 1..Len(st) /\ Append(st, page)[i] = st[i]
OBVIOUS

\* A stack without its top page.
LEMMA Popped ==
  ASSUME TypeOK, NEW d \in Devices
  PROVE  /\ Below(d) \in Seq(Pages) /\ Len(Below(d)) \in Nat
         /\ \A i \in 1..Len(Below(d)) :
              /\ i \in 1..(Len(stack[d]) - 1) /\ i \in 1..Len(stack[d])
              /\ Below(d)[i] = stack[d][i]
<1>1. stack[d] \in Seq(Pages) /\ Len(stack[d]) \in Nat
  BY DEF TypeOK
<1>2. \A i \in 1 .. Len(stack[d]) - 1 : stack[d][i] \in Pages
  BY <1>1
<1> HIDE DEF Below
<1>3. /\ Below(d) \in Seq(Pages)
      /\ Len(Below(d)) = IF 1 =< Len(stack[d]) - 1 THEN Len(stack[d]) - 1 ELSE 0
      /\ \A i \in 1..(Len(stack[d]) - 1) : Below(d)[i] = stack[d][i]
  BY <1>1, <1>2, SubSeqProperties DEF Below
<1> QED
  BY <1>1, <1>3
(***************************************************************************)
(* Homes are earned.                                                       *)
(***************************************************************************)
Earned(d, role) == \E u \in proved[d] : DocRole(d, u) = role

\* The call in slot s got its user from Firebase Auth.
Authenticated(d, s) ==
  \/ At(d, s, "signIn", "doc")
  \/ calls[d][s].kind = "signUp" /\ calls[d][s].step \in {"name", "store", "ack"}

\* What can open a home page: a home page itself, a splash page that has found
\* one or is looking, and a call whose page exists.  Each belongs to a user
\* that was authenticated since the stack was reset.
HomesEarned(d) ==
  \A i \in 1..Len(stack[d]) : stack[d][i] \in Roles => Earned(d, stack[d][i])
SplashEarned(d) ==
  /\ splash[d].at \in Roles => Earned(d, splash[d].at)
  /\ splash[d].at = "checking" => splash[d].user \in proved[d]
CallsEarned(d) ==
  \A s \in Slots : Authenticated(d, s) /\ calls[d][s].mounted => calls[d][s].user \in proved[d]
EarnedOn(d) == HomesEarned(d) /\ SplashEarned(d) /\ CallsEarned(d)

\* What was earned stays earned until the stack is reset.
LEMMA KeepEarned ==
  ASSUME TypeOK, DocsKept, NEW d \in Devices, proved[d] \subseteq proved'[d],
         NEW r \in Roles, Earned(d, r)
  PROVE  Earned(d, r)'
<1>1. PICK u \in proved[d] : DocRole(d, u) = r
  BY DEF Earned
<1>2. u \in Users /\ DocRole(d, u) # "none"
  BY <1>1 DEF TypeOK, Roles
<1>3. DocRole(d, u)' = r
  BY <1>1, <1>2 DEF DocsKept
<1> QED
  BY <1>1, <1>3 DEF Earned

\* A stack with no home page but those that were there keeps them earned; so
\* does one more page that is earned.
LEMMA KeepHomes ==
  ASSUME TypeOK, DocsKept, NEW d \in Devices, proved[d] \subseteq proved'[d], HomesEarned(d),
         \A i \in 1..Len(stack'[d]) : stack'[d][i] \in Roles =>
           \/ \E j \in 1..Len(stack[d]) : stack[d][j] = stack'[d][i]
           \/ Earned(d, stack'[d][i])
  PROVE  HomesEarned(d)'
<1> SUFFICES ASSUME NEW i \in 1..Len(stack'[d]), NEW r \in Roles, stack'[d][i] = r
             PROVE  \E u \in proved'[d] : DocRole(d, u)' = r
  BY DEF HomesEarned, Earned
<1>1. Earned(d, r)
  BY DEF HomesEarned
<1>2. Earned(d, r)'
  BY <1>1, KeepEarned
<1> QED
  BY <1>2 DEF Earned

LEMMA KeepSplash ==
  ASSUME TypeOK, DocsKept, NEW d \in Devices, proved[d] \subseteq proved'[d], SplashEarned(d),
         splash'[d] = splash[d] \/ splash'[d].at \in {"absent", "welcome"}
  PROVE  SplashEarned(d)'
<1>1. CASE splash'[d].at \in {"absent", "welcome"}
  BY <1>1 DEF SplashEarned, Roles
<1>2. CASE splash'[d] = splash[d]
  <2>1. splash'[d].at \in Roles => Earned(d, splash[d].at)'
    BY <1>2, KeepEarned DEF SplashEarned
  <2>2. splash'[d].at = "checking" => splash'[d].user \in proved'[d]
    BY <1>2 DEF SplashEarned
  <2> QED
    BY <1>2, <2>1, <2>2 DEF SplashEarned, Earned, DocRole
<1> QED
  BY <1>1, <1>2

\* No call of the device is newly authenticated.
NoneNew(d) ==
  \A s \in Slots : Authenticated(d, s)' /\ calls'[d][s].mounted =>
    /\ Authenticated(d, s) /\ calls[d][s].mounted
    /\ calls'[d][s].user = calls[d][s].user

LEMMA KeepCalls ==
  ASSUME NEW d \in Devices, proved[d] \subseteq proved'[d], CallsEarned(d), NoneNew(d)
  PROVE  CallsEarned(d)'
BY DEF CallsEarned, NoneNew

\* A reset of the stack: what is left is the splash page and the signed-in user.
LEMMA ResetEarns ==
  ASSUME TypeOK, NEW d \in Devices,
         stack'[d] = <<"splash">>, splash'[d] = OpenSplash(current[d]),
         proved'[d] = {current[d]} \ {NoUser}, \A s \in Slots : ~calls'[d][s].mounted
  PROVE  EarnedOn(d)'
<1>1. HomesEarned(d)'
  BY DEF HomesEarned, Roles
<1>2. SplashEarned(d)'
  BY DEF SplashEarned, OpenSplash, Roles
<1>3. CallsEarned(d)'
  BY DEF CallsEarned
<1> QED
  BY <1>1, <1>2, <1>3 DEF EarnedOn
LEMMA EndNoneNew ==
  ASSUME TypeOK, NEW d \in Devices, NEW s \in Slots, End(d, s)
  PROVE  NoneNew(d)
BY EndEffect DEF NoneNew, Authenticated, At, OthersKeep, Idle

\* A call that moves on is newly authenticated only by its first await.
LEMMA AdvanceNoneNew ==
  ASSUME TypeOK, NEW d \in Devices, NEW s \in Slots, NEW step \in Steps,
         Advance(d, s, step), Authenticated(d, s) \/ calls[d][s].kind = "signOut"
  PROVE  NoneNew(d)
BY AdvanceEffect DEF NoneNew, Authenticated, At, OthersKeep

LEMMA UnmountNoneNew ==
  ASSUME TypeOK, NEW d \in Devices, OnlyUnmounts
  PROVE  NoneNew(d)
BY DEF NoneNew, Authenticated, At, OnlyUnmounts, SameButContext

\* A call is authenticated: so is, since then, its user.
LEMMA SignedInEarns ==
  ASSUME TypeOK, NEW d \in Devices, NEW s \in Slots, NEW step \in Steps, EarnedOn(d),
         Advance(d, s, step), SignedIn(d, calls[d][s].user)
  PROVE  CallsEarned(d)' /\ proved[d] \subseteq proved'[d]
<1>1. proved'[d] = proved[d] \cup {calls[d][s].user}
  BY DEF SignedIn, TypeOK
<1>2. OthersKeep(d, s) /\ calls'[d][s].user = calls[d][s].user
  BY AdvanceEffect
<1>3. ASSUME NEW t \in Slots, t # s, Authenticated(d, t)', calls'[d][t].mounted
      PROVE  calls'[d][t].user \in proved'[d]
  <2>1. calls'[d][t] = calls[d][t]
    BY <1>2, <1>3 DEF OthersKeep
  <2> QED
    BY <1>1, <1>3, <2>1 DEF EarnedOn, CallsEarned, Authenticated, At
<1> QED
  BY <1>1, <1>2, <1>3 DEF CallsEarned

\* The home page a call pushes is the one of a user it authenticated.
LEMMA PushEarns ==
  ASSUME TypeOK, DocsKept, NEW d \in Devices, NEW s \in Slots, NEW r \in Roles, EarnedOn(d),
         PushHome(d, s, r), UNCHANGED proved, calls[d][s].mounted => Earned(d, r)
  PROVE  HomesEarned(d)'
<1>1. CASE ~calls[d][s].mounted
  BY <1>1, KeepHomes DEF EarnedOn, PushHome
<1>2. CASE calls[d][s].mounted
  <2>1. stack[d] \in Seq(Pages) /\ r \in Pages /\ stack'[d] = Append(stack[d], r)
    BY <1>2 DEF PushHome, TypeOK, Pages
  <2>2. \A i \in 1..Len(stack'[d]) :
          stack'[d][i] = r \/ \E j \in 1..Len(stack[d]) : stack[d][j] = stack'[d][i]
    BY <2>1, Pushed
  <2> QED
    BY <1>2, <2>2, KeepHomes DEF EarnedOn
<1> QED
  BY <1>1, <1>2

\* The steps of a call in flight.
LEMMA CallStepEarns ==
  ASSUME TypeOK, IInv, DocsKept, NEW d \in Devices, NEW s \in Slots, EarnedOn(d),
         CallStep(d, s)
  PROVE  EarnedOn(d)'
<1> USE DEF world, ui, past
<1>still. ASSUME stack' = stack, splash' = splash, proved[d] \subseteq proved'[d]
          PROVE  HomesEarned(d)' /\ SplashEarned(d)'
  BY <1>still, KeepHomes, KeepSplash DEF EarnedOn
<1>kept. ASSUME stack' = stack, splash' = splash, proved' = proved, NoneNew(d)
         PROVE  EarnedOn(d)'
  BY <1>kept, <1>still, KeepCalls DEF EarnedOn
<1>push. ASSUME HomesEarned(d)', splash' = splash, proved' = proved, End(d, s)
         PROVE  EarnedOn(d)'
  BY <1>push, KeepSplash, KeepCalls, EndNoneNew DEF EarnedOn
<1>1. CASE SignUpCreate(d, s) \/ SignInAuth(d, s)
  BY <1>1, <1>still, SignedInEarns DEF SignUpCreate, SignInAuth, Steps, EarnedOn
<1>2. CASE SignUpCreateFails(d, s) \/ SignInEnds(d, s) \/ SignOutAuthFails(d, s)
  BY <1>2, <1>kept, EndNoneNew DEF SignUpCreateFails, SignInEnds, SignOutAuthFails
<1>3. CASE SignUpName(d, s)
  BY <1>3, <1>kept, EndNoneNew, AdvanceNoneNew DEF SignUpName, Authenticated, At, Steps
<1>4. CASE SignUpStore(d, s)
  BY <1>4, <1>kept, AdvanceNoneNew DEF SignUpStore, Authenticated, At, Steps
<1>5. CASE SignOutAuth(d, s)
  BY <1>5, <1>kept, AdvanceNoneNew DEF SignOutAuth, At, Steps
<1>6. CASE SignUpDone(d, s)
  <2>1. /\ calls[d][s].user \in Users /\ calls[d][s].role \in Roles
        /\ usertype[calls[d][s].user] = calls[d][s].role
    BY <1>6 DEF SignUpDone, IInv, Awaited, TypeOK, CallsOK, At
  <2>2. DocRole(d, calls[d][s].user) = calls[d][s].role
    BY <2>1 DEF DocRole, Roles
  <2>3. calls[d][s].mounted => Earned(d, calls[d][s].role)
    BY <1>6, <2>2 DEF SignUpDone, EarnedOn, CallsEarned, Authenticated, At, Earned
  <2>4. HomesEarned(d)'
    BY <1>6, <2>1, <2>3, PushEarns DEF SignUpDone
  <2> QED
    BY <1>6, <2>4, <1>push DEF SignUpDone
<1>7. CASE SignInHome(d, s)
  <2>1. DocRole(d, calls[d][s].user) \in Roles
    BY <1>7, DocRoleType DEF SignInHome, TypeOK, CallsOK, At
  <2>2. calls[d][s].mounted => Earned(d, DocRole(d, calls[d][s].user))
    BY <1>7 DEF SignInHome, EarnedOn, CallsEarned, Authenticated, Earned
  <2>3. HomesEarned(d)'
    BY <1>7, <2>1, <2>2, PushEarns DEF SignInHome
  <2> QED
    BY <1>7, <2>3, <1>push DEF SignInHome
<1>8. CASE SignOutNavigate(d, s)
  <2>1. CASE ~calls[d][s].mounted
    BY <1>8, <2>1, <1>kept, EndNoneNew DEF SignOutNavigate
  <2>2. CASE calls[d][s].mounted
    <3>1. \A t \in Slots : ~calls'[d][t].mounted
      BY <1>8, <2>2, AllUnmountedEffect DEF SignOutNavigate
    <3>2. /\ stack'[d] = <<"splash">> /\ splash'[d] = OpenSplash(current[d])
          /\ proved'[d] = {current[d]} \ {NoUser}
      BY <1>8, <2>2 DEF SignOutNavigate, TypeOK
    <3> QED
      BY <3>1, <3>2, ResetEarns
  <2> QED
    BY <2>1, <2>2
<1> QED
  BY <1>1, <1>2, <1>3, <1>4, <1>5, <1>6, <1>7, <1>8 DEF CallStep
\* The steps of the splash page.
LEMMA SplashStepEarns ==
  ASSUME TypeOK, DocsKept, NEW d \in Devices, EarnedOn(d), SplashStep(d)
  PROVE  EarnedOn(d)'
<1> USE DEF world, past
<1>1. CallsEarned(d)'
  BY KeepCalls DEF SplashStep, SplashFound, SplashSignsOut, SplashNavigate, EarnedOn, NoneNew,
    Authenticated, At, ui
<1>2. CASE SplashFound(d)
  <2>1. /\ splash[d].user \in proved[d] /\ splash[d].user \in Users
        /\ DocRole(d, splash[d].user) \in Roles
    BY <1>2, DocRoleType DEF SplashFound, EarnedOn, SplashEarned, TypeOK
  <2>2. PICK r \in Roles : r = DocRole(d, splash[d].user)
    BY <2>1
  <2>3. splash'[d].at = r
    BY <1>2, <2>2 DEF SplashFound, TypeOK, SplashStates
  <2>4. Earned(d, r)'
    BY <1>2, <2>1, <2>2, KeepEarned DEF SplashFound, Earned
  <2>5. SplashEarned(d)'
    BY <2>3, <2>4 DEF SplashEarned, Earned, Roles
  <2>6. HomesEarned(d)'
    BY <1>2, KeepHomes DEF SplashFound, EarnedOn
  <2> QED
    BY <1>1, <2>5, <2>6 DEF EarnedOn
<1>3. CASE SplashSignsOut(d)
  <2>1. splash'[d].at = "welcome"
    BY <1>3 DEF SplashSignsOut, TypeOK, SplashStates
  <2>2. SplashEarned(d)' /\ HomesEarned(d)'
    BY <1>3, <2>1, KeepHomes, KeepSplash DEF SplashSignsOut, EarnedOn, ui
  <2> QED
    BY <1>1, <2>2 DEF EarnedOn
<1>4. CASE SplashNavigate(d)
  <2>1. /\ splash[d].at \in Roles /\ splash[d].at \in Pages /\ splash'[d].at = "absent"
        /\ stack'[d] = Append(Below(d), splash[d].at)
    BY <1>4 DEF SplashNavigate, TypeOK, NoSplash, Pages
  <2>2. \A i \in 1..Len(stack'[d]) :
          \/ stack'[d][i] = splash[d].at
          \/ \E j \in 1..Len(stack[d]) : stack[d][j] = stack'[d][i]
    <3>1. Below(d) \in Seq(Pages)
      BY Popped
    <3>2. \A i \in 1..Len(stack'[d]) : stack'[d][i] # splash[d].at =>
            i \in 1..Len(Below(d)) /\ stack'[d][i] = Below(d)[i]
      BY <2>1, <3>1, Pushed
    <3>3. \A i \in 1..Len(Below(d)) : i \in 1..Len(stack[d]) /\ Below(d)[i] = stack[d][i]
      BY Popped
    <3> QED
      BY <3>2, <3>3
  <2>3. HomesEarned(d)'
    BY <1>4, <2>1, <2>2, KeepHomes DEF SplashNavigate, EarnedOn, SplashEarned
  <2>4. SplashEarned(d)'
    BY <1>4, <2>1, KeepSplash DEF SplashNavigate, EarnedOn
  <2> QED
    BY <1>1, <2>3, <2>4 DEF EarnedOn
<1> QED
  BY <1>2, <1>3, <1>4 DEF SplashStep

\* The steps of the device that is used, whatever overlaps on it.
LEMMA DeviceStepEarns ==
  ASSUME TypeOK, IInv, DocsKept, NEW d \in Devices, EarnedOn(d), DeviceStep(d)
  PROVE  EarnedOn(d)'
<1> USE DEF world, ui, past
<1>1. ASSUME NEW s \in Slots, UserStep(d, s) PROVE EarnedOn(d)'
  <2>1. ASSUME NEW c, Start(d, s, c), c.step = "auth" PROVE EarnedOn(d)'
    <3>1. OthersKeep(d, s) /\ calls'[d][s].step = "auth"
      BY <2>1 DEF Start, TypeOK, OthersKeep
    <3>2. NoneNew(d)
      BY <3>1 DEF NoneNew, Authenticated, At, OthersKeep
    <3> QED
      BY <2>1, <3>2, KeepHomes, KeepSplash, KeepCalls DEF Start, EarnedOn
  <2> QED
    BY <1>1, <2>1 DEF UserStep, StartSignUp, StartSignIn, StartSignOut
<1>2. CASE GetStarted(d)
  <2>1. stack'[d] = <<"login">> /\ splash'[d].at = "absent" /\ NoneNew(d)
    BY <1>2 DEF GetStarted, TypeOK, NoSplash, NoneNew, Authenticated, At
  <2>2. HomesEarned(d)'
    BY <2>1 DEF HomesEarned, Roles
  <2> QED
    BY <1>2, <2>1, <2>2, KeepSplash, KeepCalls DEF GetStarted, EarnedOn
<1>3. CASE GoRegister(d)
  <2>1. stack[d] \in Seq(Pages) /\ stack'[d] = Append(stack[d], "register") /\ NoneNew(d)
    BY <1>3 DEF GoRegister, TypeOK, NoneNew, Authenticated, At
  <2>2. \A i \in 1..Len(stack'[d]) : stack'[d][i] \in Roles =>
          \E j \in 1..Len(stack[d]) : stack[d][j] = stack'[d][i]
    BY <2>1, Pushed DEF Pages, Roles
  <2> QED
    BY <1>3, <2>1, <2>2, KeepHomes, KeepSplash, KeepCalls DEF GoRegister, EarnedOn
<1>4. CASE Back(d)
  <2>1. NoneNew(d)
    BY <1>4, UnmountEffect, UnmountNoneNew DEF Back, NoneNew, Authenticated, At
  <2>2. stack'[d] = Below(d)
    BY <1>4 DEF Back, TypeOK
  <2>3. \A i \in 1..Len(Below(d)) : i \in 1..Len(stack[d]) /\ stack[d][i] = Below(d)[i]
    BY Popped
  <2>4. \A i \in 1..Len(stack'[d]) : i \in 1..Len(stack[d]) /\ stack[d][i] = stack'[d][i]
    <3> HIDE DEF Below
    <3> QED
      BY <2>2, <2>3
  <2> QED
    BY <1>4, <2>1, <2>4, KeepHomes, KeepSplash, KeepCalls DEF Back, EarnedOn
<1>5. CASE DismissDialog(d)
  <2>1. NoneNew(d)
    BY <1>5, UnmountEffect, UnmountNoneNew DEF DismissDialog
  <2> QED
    BY <1>5, <2>1, KeepHomes, KeepSplash, KeepCalls DEF DismissDialog, EarnedOn
<1>6. CASE Commit(d)
  BY <1>6, KeepHomes, KeepSplash, KeepCalls
     DEF Commit, EarnedOn, NoneNew, Authenticated, At
<1>7. CASE Restart(d)
  <2>1. /\ stack'[d] = <<"splash">> /\ splash'[d] = OpenSplash(current[d])
        /\ proved'[d] = {current[d]} \ {NoUser} /\ \A s \in Slots : calls'[d][s] = Idle
    BY <1>7 DEF Restart, TypeOK
  <2> QED
    BY <2>1, ResetEarns DEF Idle
<1> QED
  BY <1>1, <1>2, <1>3, <1>4, <1>5, <1>6, <1>7, CallStepEarns, SplashStepEarns DEF DeviceStep

\* Elsewhere nothing changes but the server.
LEMMA UntouchedEarns ==
  ASSUME TypeOK, DocsKept, NEW d \in Devices, EarnedOn(d), Untouched(d)
  PROVE  EarnedOn(d)'
<1>1. NoneNew(d)
  BY DEF Untouched, NoneNew, Authenticated, At
<1> QED
  BY <1>1, KeepHomes, KeepSplash, KeepCalls DEF Untouched, EarnedOn

EarnedInv == \A d \in Devices : EarnedOn(d)

LEMMA StepEarned ==
  ASSUME TypeOK, IInv, EarnedInv, [Next]_vars
  PROVE  EarnedInv'
<1> SUFFICES ASSUME NEW d \in Devices PROVE EarnedOn(d)'
  BY DEF EarnedInv
<1>1. EarnedOn(d) /\ DocsKept
  BY StepDocs DEF EarnedInv
<1>2. CASE UNCHANGED vars
  BY <1>1, <1>2, UntouchedEarns DEF vars, Untouched
<1>3. ASSUME NEW e \in Devices, DeviceStep(e) PROVE EarnedOn(d)'
  BY <1>1, <1>3, Elsewhere, DeviceStepEarns, UntouchedEarns
<1> QED
  BY <1>2, <1>3 DEF Next, DeviceStep

\* Whatever overlaps, a home page in the stack is there because a user of that
\* role was authenticated on this device since the stack was last reset.
THEOREM HomeEarned == Spec => []HomeIsEarned
<1>1. Init => TypeOK /\ IInv /\ EarnedInv
  <2>1. ASSUME Init PROVE EarnedInv
    <3> SUFFICES ASSUME NEW d \in Devices PROVE EarnedOn(d)
      BY DEF EarnedInv
    <3>1. HomesEarned(d)
      BY <2>1 DEF Init, HomesEarned, Roles
    <3>2. SplashEarned(d)
      BY <2>1 DEF Init, SplashEarned, OpenSplash, Roles
    <3>3. CallsEarned(d)
      BY <2>1 DEF Init, CallsEarned, Authenticated, At, Idle
    <3> QED
      BY <3>1, <3>2, <3>3 DEF EarnedOn
  <2> QED
    BY <2>1, TypeInit, IInit
<1>2. (TypeOK /\ IInv /\ EarnedInv) /\ [Next]_vars => (TypeOK /\ IInv /\ EarnedInv)'
  BY TypeStep, StepIInv, StepEarned
<1>3. EarnedInv => HomeIsEarned
  BY DEF EarnedInv, EarnedOn, HomesEarned, Earned, HomeIsEarned
<1> QED
  BY <1>1, <1>2, <1>3, PTL DEF Spec
(***************************************************************************)
(* One call at a time.  On a device whose calls never overlapped, a call   *)
(* in flight is the only thing that can change the user or the pages.      *)
(***************************************************************************)
NoHome(d) == \A i \in 1..Len(stack[d]) : stack[d][i] \notin Roles

\* The home of this role belongs to the current user, or signOut is between its
\* two statements.
HomeOf(d, role) ==
  \/ current[d] # NoUser /\ DocRole(d, current[d]) = role
  \/ \E s \in Slots : At(d, s, "signOut", "navigate")

HomeTrue(d) ==
  \A i \in 1..Len(stack[d]) : stack[d][i] \in Roles =>
    i = Len(stack[d]) /\ HomeOf(d, stack[d][i])

\* A splash page is the only page, no call is in flight then, and what it
\* checks is the session of the current user.
SplashAlone(d) ==
  /\ splash[d].at # "absent" => stack[d] = <<"splash">> /\ \A s \in Slots : calls[d][s] = Idle
  /\ splash[d].at \in {"checking"} \cup Roles => splash[d].user = current[d]
  /\ splash[d].at \in Roles => DocRole(d, current[d]) = splash[d].at

\* What a call in flight may rely on: no home page is there while somebody
\* registers or logs in, nobody else got signed in since, and the dialog of a
\* signOut is open.
CallAlone(d, s) ==
  /\ calls[d][s].kind \in {"signIn", "signUp"} => NoHome(d)
  /\ Authenticated(d, s) => current[d] = calls[d][s].user
  /\ calls[d][s].kind = "signOut" => calls[d][s].mounted

OneCall(d) == \A s, t \in Slots : calls[d][s] # Idle /\ calls[d][t] # Idle => s = t

AloneOn(d) == /\ OneCall(d) /\ SplashAlone(d) /\ HomeTrue(d)
              /\ \A s \in Slots : CallAlone(d, s)

\* While a call is in flight all others are idle and there is no splash page.
LEMMA OnlyCall ==
  ASSUME NEW d \in Devices, NEW s \in Slots, AloneOn(d), calls[d][s].kind # "idle"
  PROVE  /\ \A t \in Slots : t # s => calls[d][t] = Idle
         /\ splash[d].at = "absent"
<1>1. calls[d][s] # Idle
  BY DEF Idle
<1> QED
  BY <1>1 DEF AloneOn, OneCall, SplashAlone

\* Where pages, calls and user stay, the server's news change nothing.
LEMMA UntouchedAlone ==
  ASSUME TypeOK, DocsKept, NEW d \in Devices, AloneOn(d), Untouched(d)
  PROVE  AloneOn(d)'
<1> USE DEF Untouched
<1>1. OneCall(d)'
  BY DEF AloneOn, OneCall
<1>2. \A r \in Roles : HomeOf(d, r) => HomeOf(d, r)'
  BY DEF HomeOf, DocsKept, At, TypeOK, Roles
<1>3. HomeTrue(d)'
  <2> SUFFICES ASSUME NEW i \in 1..Len(stack[d]), NEW r \in Roles, stack[d][i] = r
               PROVE  i = Len(stack[d]) /\ HomeOf(d, r)'
    BY DEF HomeTrue, HomeOf
  <2> QED
    BY <1>2 DEF AloneOn, HomeTrue
<1>4. SplashAlone(d)'
  <2>1. splash[d].at \in Roles => DocRole(d, current[d])' = splash[d].at
    <3>1. splash[d].at \in Roles => current[d] \in Users
      BY DEF AloneOn, SplashAlone, TypeOK, SplashStates, Roles
    <3> QED
      BY <3>1 DEF AloneOn, SplashAlone, DocsKept, Roles
  <2> QED
    BY <2>1 DEF AloneOn, SplashAlone
<1>5. ASSUME NEW s \in Slots PROVE CallAlone(d, s)'
  BY DEF AloneOn, CallAlone, NoHome, Authenticated, At
<1> QED
  BY <1>1, <1>3, <1>4, <1>5 DEF AloneOn

\* A reset of the stack with no call left in flight.
LEMMA ResetAlone ==
  ASSUME TypeOK, NEW d \in Devices,
         stack'[d] = <<"splash">>, splash'[d] = OpenSplash(current[d]),
         current'[d] = current[d], \A s \in Slots : calls'[d][s] = Idle
  PROVE  AloneOn(d)'
<1>1. OneCall(d)'
  BY DEF OneCall
<1>2. ASSUME NEW s \in Slots PROVE CallAlone(d, s)'
  <2>1. calls'[d][s].kind = "idle"
    BY DEF Idle
  <2> QED
    BY <2>1 DEF CallAlone, Authenticated, At
<1>3. SplashAlone(d)' /\ HomeTrue(d)'
  BY DEF SplashAlone, HomeTrue, OpenSplash, Roles
<1> QED
  BY <1>1, <1>2, <1>3 DEF AloneOn

\* A step of the call in flight: what is left to see is what became of it and
\* of a home page.
LEMMA AloneAfter ==
  ASSUME TypeOK, NEW d \in Devices, NEW s \in Slots, AloneOn(d), calls[d][s].kind # "idle",
         OthersKeep(d, s), splash'[d] = splash[d], CallAlone(d, s)', HomeTrue(d)'
  PROVE  AloneOn(d)'
<1>1. /\ \A t \in Slots : t # s => calls'[d][t] = Idle
      /\ splash'[d].at = "absent"
  BY OnlyCall DEF OthersKeep
<1>2. OneCall(d)'
  BY <1>1 DEF OneCall
<1>3. SplashAlone(d)'
  BY <1>1 DEF SplashAlone, Roles
<1>4. \A t \in Slots : CallAlone(d, t)'
  BY <1>1 DEF CallAlone, Authenticated, At, Idle
<1> QED
  BY <1>2, <1>3, <1>4 DEF AloneOn
\* Calls that leave the pages alone, of somebody who registers or logs in.
LEMMA AwayAlone ==
  ASSUME TypeOK, NEW d \in Devices, NEW s \in Slots, AloneOn(d), OthersKeep(d, s), UNCHANGED ui,
         calls[d][s].kind \in {"signIn", "signUp"},
         \/ calls'[d][s] = Idle
         \/ /\ calls'[d][s].kind = calls[d][s].kind
            /\ Authenticated(d, s)' => current'[d] = calls'[d][s].user
  PROVE  AloneOn(d)'
<1>1. NoHome(d)'
  BY DEF AloneOn, CallAlone, NoHome, ui
<1>2. HomeTrue(d)'
  BY <1>1 DEF HomeTrue, NoHome
<1>3. CallAlone(d, s)'
  BY <1>1 DEF CallAlone, Authenticated, At, Idle
<1> QED
  BY <1>2, <1>3, AloneAfter DEF ui

\* A call ends with the home page of the user it signed in.
LEMMA PushAlone ==
  ASSUME TypeOK, DocsKept, NEW d \in Devices, NEW s \in Slots, NEW r \in Roles, AloneOn(d),
         calls[d][s].kind \in {"signIn", "signUp"}, Authenticated(d, s), End(d, s),
         PushHome(d, s, r), DocRole(d, calls[d][s].user) = r, UNCHANGED <<current, splash>>
  PROVE  AloneOn(d)'
<1>1. /\ NoHome(d) /\ current[d] = calls[d][s].user /\ calls[d][s].user \in Users
      /\ calls[d][s].user # NoUser
  BY NoUserAssumption DEF AloneOn, CallAlone, TypeOK, CallsOK
<1>2. HomeOf(d, r)'
  BY <1>1 DEF HomeOf, DocsKept, Roles
<1>3. HomeTrue(d)'
  <2> SUFFICES ASSUME NEW i \in 1..Len(stack'[d]), stack'[d][i] \in Roles
               PROVE  i = Len(stack'[d]) /\ stack'[d][i] = r
    BY <1>2 DEF HomeTrue
  <2>1. CASE stack'[d] = stack[d]
    BY <1>1, <2>1 DEF NoHome
  <2>2. CASE stack'[d] = Append(stack[d], r)
    <3>1. stack[d] \in Seq(Pages) /\ r \in Pages
      BY DEF TypeOK, Pages
    <3> QED
      BY <1>1, <2>2, <3>1, Pushed DEF NoHome
  <2> QED
    BY <2>1, <2>2 DEF PushHome, TypeOK
<1>4. OthersKeep(d, s) /\ calls'[d][s] = Idle
  BY EndEffect
<1>5. CallAlone(d, s)'
  BY <1>4 DEF CallAlone, Authenticated, At, Idle
<1> QED
  BY <1>3, <1>4, <1>5, AloneAfter

\* The steps of a call in flight.
LEMMA CallStepAlone ==
  ASSUME TypeOK, IInv, DocsKept, NEW d \in Devices, NEW s \in Slots, AloneOn(d),
         CallStep(d, s)
  PROVE  AloneOn(d)'
<1> USE DEF world, past
<1>end. ASSUME End(d, s) PROVE OthersKeep(d, s) /\ calls'[d][s] = Idle
  BY <1>end, EndEffect
<1>go. ASSUME NEW step \in Steps, Advance(d, s, step)
       PROVE  /\ OthersKeep(d, s) /\ calls'[d][s].kind = calls[d][s].kind
              /\ calls'[d][s].step = step /\ calls'[d][s].user = calls[d][s].user
              /\ calls'[d][s].mounted = calls[d][s].mounted
  BY <1>go, AdvanceEffect
<1> USE DEF At
<1>1. CASE SignUpCreate(d, s) \/ SignInAuth(d, s)
  <2>1. current'[d] = calls[d][s].user
    BY <1>1 DEF SignUpCreate, SignInAuth, SignedIn, TypeOK
  <2> QED
    BY <1>1, <2>1, <1>go, AwayAlone DEF SignUpCreate, SignInAuth, Steps
<1>2. CASE SignUpCreateFails(d, s) \/ SignInEnds(d, s)
  BY <1>2, <1>end, AwayAlone DEF SignUpCreateFails, SignInEnds
<1>3. CASE SignUpName(d, s) \/ SignUpStore(d, s)
  <2>1. Authenticated(d, s) /\ current'[d] = calls[d][s].user
    BY <1>3 DEF SignUpName, SignUpStore, Authenticated, AloneOn, CallAlone
  <2>2. CASE End(d, s)
    BY <1>3, <2>2, <1>end, AwayAlone DEF SignUpName, SignUpStore
  <2>3. CASE Advance(d, s, "store") \/ Advance(d, s, "ack")
    BY <1>3, <2>1, <2>3, <1>go, AwayAlone DEF SignUpName, SignUpStore, Steps
  <2> QED
    BY <1>3, <2>2, <2>3 DEF SignUpName, SignUpStore
<1>4. CASE SignUpDone(d, s)
  <2>1. /\ calls[d][s].user \in Users /\ calls[d][s].role \in Roles
        /\ usertype[calls[d][s].user] = calls[d][s].role
    BY <1>4 DEF SignUpDone, IInv, Awaited, TypeOK, CallsOK
  <2>2. DocRole(d, calls[d][s].user) = calls[d][s].role
    BY <2>1 DEF DocRole, Roles
  <2> QED
    BY <1>4, <2>1, <2>2, PushAlone DEF SignUpDone, Authenticated
<1>5. CASE SignInHome(d, s)
  <2>1. DocRole(d, calls[d][s].user) \in Roles
    BY <1>5, DocRoleType DEF SignInHome, TypeOK, CallsOK
  <2> QED
    BY <1>5, <2>1, PushAlone DEF SignInHome, Authenticated
<1>6. CASE SignOutAuth(d, s)
  <2>1. /\ OthersKeep(d, s) /\ calls'[d][s].kind = "signOut" /\ calls'[d][s].step = "navigate"
        /\ calls'[d][s].mounted
    BY <1>6, <1>go DEF SignOutAuth, Steps, AloneOn, CallAlone
  <2>2. HomeTrue(d)'
    BY <1>6, <2>1 DEF SignOutAuth, ui, AloneOn, HomeTrue, HomeOf
  <2>3. CallAlone(d, s)'
    BY <2>1 DEF CallAlone, Authenticated
  <2> QED
    BY <1>6, <2>1, <2>2, <2>3, AloneAfter DEF SignOutAuth, ui
<1>7. CASE SignOutAuthFails(d, s)
  <2>1. OthersKeep(d, s) /\ calls'[d][s] = Idle
    BY <1>7, <1>end DEF SignOutAuthFails
  <2>2. \A t \in Slots : ~At(d, t, "signOut", "navigate")
    BY <1>7, OnlyCall DEF SignOutAuthFails, Idle
  <2>3. HomeTrue(d)'
    BY <1>7, <2>2 DEF SignOutAuthFails, ui, AloneOn, HomeTrue, HomeOf, DocRole
  <2>4. CallAlone(d, s)'
    BY <2>1 DEF CallAlone, Authenticated, Idle
  <2> QED
    BY <1>7, <2>1, <2>3, <2>4, AloneAfter DEF SignOutAuthFails, ui
<1>8. CASE SignOutNavigate(d, s)
  <2>1. calls[d][s].mounted /\ calls[d][s].kind # "idle"
    BY <1>8 DEF SignOutNavigate, AloneOn, CallAlone
  <2>2. \A t \in Slots : t # s => calls[d][t] = Idle
    BY <2>1, OnlyCall
  <2>3. [Idle EXCEPT !.mounted = FALSE] = Idle
    <3>1. \A c \in Call : c.mounted = FALSE => [c EXCEPT !.mounted = FALSE] = c
      BY DEF Call
    <3>2. Idle \in Call /\ Idle.mounted = FALSE
      BY IdleIsCall DEF Idle
    <3> QED
      BY <3>1, <3>2
  <2>4. \A t \in Slots : t # s => AllUnmounted(d)[t] = Idle
    BY <2>2, <2>3 DEF AllUnmounted
  <2>5. PICK f : f = AllUnmounted(d)
    OBVIOUS
  <2>6. \A t \in Slots : calls'[d][t] = Idle
    <3>1. calls'[d] = [f EXCEPT ![s] = Idle]
      BY <1>8, <2>1, <2>5 DEF SignOutNavigate, TypeOK
    <3>2. f = [t \in Slots |-> f[t]]
      BY <2>5 DEF AllUnmounted
    <3>3. \A t \in Slots : t # s => f[t] = Idle
      BY <2>4, <2>5
    <3> QED
      BY <3>1, <3>2, <3>3
  <2>7. /\ stack'[d] = <<"splash">> /\ splash'[d] = OpenSplash(current[d])
        /\ current'[d] = current[d]
    BY <1>8, <2>1 DEF SignOutNavigate, TypeOK
  <2> QED
    BY <2>6, <2>7, ResetAlone
<1> QED
  BY <1>1, <1>2, <1>3, <1>4, <1>5, <1>6, <1>7, <1>8 DEF CallStep
\* A call that starts alone is the only one.
LEMMA StartAlone ==
  ASSUME TypeOK, NEW d \in Devices, NEW s \in Slots, NEW c, AloneOn(d), Start(d, s, c),
         ~raced'[d], splash[d].at = "absent", c.step = "auth",
         c.kind \in {"signUp", "signIn"} => NoHome(d), c.kind = "signOut" => c.mounted
  PROVE  AloneOn(d)'
<1>1. /\ \A t \in Slots : calls[d][t] = Idle
      /\ OthersKeep(d, s) /\ calls'[d][s] = c /\ UNCHANGED <<world, current, stack, splash>>
  BY DEF Start, TypeOK, OthersKeep, ui
<1>2. \A t \in Slots : t # s => calls'[d][t] = Idle
  BY <1>1 DEF OthersKeep
<1>3. OneCall(d)'
  BY <1>2 DEF OneCall
<1>4. SplashAlone(d)'
  BY <1>1 DEF SplashAlone, Roles
<1>5. HomeTrue(d)'
  <2>1. \A t \in Slots : ~At(d, t, "signOut", "navigate")
    BY <1>1 DEF At, Idle
  <2> QED
    BY <1>1, <2>1 DEF AloneOn, HomeTrue, HomeOf, DocRole, world
<1>6. ASSUME NEW t \in Slots PROVE CallAlone(d, t)'
  <2>1. CASE t = s
    BY <1>1, <2>1 DEF CallAlone, Authenticated, At, NoHome
  <2>2. CASE t # s
    BY <1>2, <2>2 DEF CallAlone, Authenticated, At, Idle
  <2> QED
    BY <2>1, <2>2
<1> QED
  BY <1>3, <1>4, <1>5, <1>6 DEF AloneOn

\* Pages open and close above or below the calls in flight, and no home is
\* among the new ones.
LEMMA PagesAlone ==
  ASSUME TypeOK, NEW d \in Devices, AloneOn(d), splash'[d].at = "absent", NoHome(d)',
         current'[d] = current[d],
         \A s \in Slots : \/ calls'[d][s] = calls[d][s]
                          \/ calls[d][s].kind = "signUp" /\ SameButContext(d, s)
  PROVE  AloneOn(d)'
<1>1. OneCall(d)'
  <2>1. \A s \in Slots : calls'[d][s] # Idle => calls[d][s] # Idle
    BY DEF Idle
  <2> QED
    BY <2>1 DEF AloneOn, OneCall
<1>2. SplashAlone(d)' /\ HomeTrue(d)'
  BY DEF SplashAlone, HomeTrue, NoHome, Roles
<1>3. ASSUME NEW s \in Slots PROVE CallAlone(d, s)'
  <2>1. CallAlone(d, s)
    BY DEF AloneOn
  <2>2. CASE calls'[d][s] = calls[d][s]
    BY <2>1, <2>2 DEF CallAlone, Authenticated, At
  <2>3. CASE calls[d][s].kind = "signUp" /\ SameButContext(d, s)
    BY <2>1, <2>3 DEF CallAlone, Authenticated, At, SameButContext
  <2> QED
    BY <2>2, <2>3
<1> QED
  BY <1>1, <1>2, <1>3 DEF AloneOn

\* The steps of the splash page, with no call in flight.
LEMMA SplashStepAlone ==
  ASSUME TypeOK, DocsKept, NEW d \in Devices, AloneOn(d), SplashStep(d)
  PROVE  AloneOn(d)'
<1> USE DEF past
<1>1. /\ stack[d] = <<"splash">> /\ \A s \in Slots : calls[d][s] = Idle
      /\ splash[d].user = current[d] /\ current[d] \in Users /\ calls' = calls
      /\ splash[d] \in SplashStates
  BY DEF SplashStep, SplashFound, SplashSignsOut, SplashNavigate, AloneOn, SplashAlone,
    TypeOK, SplashStates, Roles, ui
<1>2. OneCall(d)' /\ \A s \in Slots : CallAlone(d, s)'
  <2>1. \A s \in Slots : calls'[d][s].kind = "idle"
    BY <1>1 DEF Idle
  <2>2. \A s \in Slots : CallAlone(d, s)'
    BY <2>1 DEF CallAlone, Authenticated, At
  <2>3. OneCall(d)'
    BY <1>1 DEF OneCall
  <2> QED
    BY <2>2, <2>3
<1>3. CASE SplashFound(d)
  <2>1. /\ splash'[d].at = DocRole(d, current[d]) /\ splash'[d].user = current[d]
        /\ stack'[d] = <<"splash">> /\ DocRole(d, current[d]) # "none"
    BY <1>1, <1>3 DEF SplashFound, TypeOK, SplashStates
  <2>2. DocRole(d, current[d])' = splash'[d].at
    BY <1>1, <1>3, <2>1 DEF DocsKept, SplashFound
  <2>3. SplashAlone(d)' /\ HomeTrue(d)'
    BY <1>1, <1>3, <2>1, <2>2 DEF SplashFound, SplashAlone, HomeTrue, Roles
  <2> QED
    BY <1>2, <2>3 DEF AloneOn
<1>4. CASE SplashSignsOut(d)
  <2>1. splash'[d].at = "welcome" /\ stack'[d] = <<"splash">>
    BY <1>1, <1>4 DEF SplashSignsOut, TypeOK
  <2>2. SplashAlone(d)' /\ HomeTrue(d)'
    BY <1>1, <2>1 DEF SplashAlone, HomeTrue, Roles
  <2> QED
    BY <1>2, <2>2 DEF AloneOn
<1>5. CASE SplashNavigate(d)
  <2>1. PICK r \in Roles : r = splash[d].at /\ DocRole(d, current[d]) = r
    BY <1>5 DEF SplashNavigate, AloneOn, SplashAlone
  <2>2. splash'[d].at = "absent" /\ stack'[d] = Append(Below(d), r) /\ current' = current
    BY <1>5, <2>1 DEF SplashNavigate, NoSplash, TypeOK
  <2>3. Below(d) = <<>>
    BY <1>1, SubSeqEmpty DEF Below
  <2>4. HomeOf(d, r)'
    BY <1>1, <2>1, <2>2, NoUserAssumption DEF HomeOf, DocsKept, Roles
  <2>5. Len(stack'[d]) = 1 /\ stack'[d][1] = r
    BY <2>2, <2>3
  <2>6. SplashAlone(d)' /\ HomeTrue(d)'
    BY <2>2, <2>4, <2>5 DEF SplashAlone, HomeTrue, Roles
  <2> QED
    BY <1>2, <2>6 DEF AloneOn
<1> QED
  BY <1>3, <1>4, <1>5 DEF SplashStep
\* The steps of the device that is used, with no calls overlapping.
LEMMA DeviceStepAlone ==
  ASSUME TypeOK, IInv, DocsKept, NEW d \in Devices, ~raced[d] => AloneOn(d), ~raced'[d],
         DeviceStep(d)
  PROVE  AloneOn(d)'
<1> USE DEF world, ui, past
<1>1. ASSUME NEW s \in Slots, CallStep(d, s) PROVE AloneOn(d)'
  <2>1. raced' = raced
    BY <1>1 DEF CallStep, SignUpCreate, SignUpCreateFails, SignUpName, SignUpStore,
      SignUpDone, SignInAuth, SignInHome, SignInEnds, SignOutAuth, SignOutAuthFails,
      SignOutNavigate
  <2> QED
    BY <1>1, <2>1, CallStepAlone
<1>2. ASSUME NEW s \in Slots, UserStep(d, s) PROVE AloneOn(d)'
  <2>1. ~raced[d]
    BY <1>2 DEF UserStep, StartSignUp, StartSignIn, StartSignOut, Start, TypeOK
  <2>2. AloneOn(d)
    BY <2>1
  <2>3. Top(d) # "splash" => splash[d].at = "absent"
    BY <2>2 DEF AloneOn, SplashAlone, Top
  <2>4. Top(d) \notin Roles => NoHome(d)
    BY <2>2 DEF AloneOn, HomeTrue, NoHome, Top
  <2>5. ASSUME NEW u \in Users, NEW r \in Roles, StartSignUp(d, s, u, r)
        PROVE  AloneOn(d)'
    BY <2>2, <2>3, <2>4, <2>5, StartAlone DEF StartSignUp, Roles
  <2>6. ASSUME NEW u \in Users, StartSignIn(d, s, u)
        PROVE  AloneOn(d)'
    BY <2>2, <2>3, <2>4, <2>6, StartAlone DEF StartSignIn, Roles
  <2>7. CASE StartSignOut(d, s)
    BY <2>2, <2>3, <2>7, StartAlone DEF StartSignOut, Roles
  <2> QED
    BY <1>2, <2>5, <2>6, <2>7 DEF UserStep
<1>3. CASE GetStarted(d)
  <2>1. AloneOn(d) /\ calls' = calls /\ current' = current
    BY <1>3 DEF GetStarted
  <2>2. stack'[d] = <<"login">> /\ splash'[d].at = "absent"
    BY <1>3 DEF GetStarted, TypeOK, NoSplash
  <2>3. NoHome(d)'
    BY <2>2 DEF NoHome, Roles
  <2> QED
    BY <2>1, <2>2, <2>3, PagesAlone
<1>4. CASE GoRegister(d)
  <2>1. AloneOn(d) /\ calls' = calls /\ current' = current /\ splash' = splash
    BY <1>4 DEF GoRegister
  <2>2. splash[d].at = "absent" /\ NoHome(d)
    BY <1>4, <2>1 DEF GoRegister, AloneOn, SplashAlone, HomeTrue, NoHome, Top, Roles
  <2>3. stack[d] \in Seq(Pages) /\ stack'[d] = Append(stack[d], "register")
    BY <1>4 DEF GoRegister, TypeOK
  <2>4. NoHome(d)'
    BY <2>2, <2>3, Pushed DEF NoHome, Pages, Roles
  <2> QED
    BY <2>1, <2>2, <2>4, PagesAlone
<1>5. CASE Back(d)
  <2>1. AloneOn(d) /\ current' = current /\ splash' = splash /\ Len(stack[d]) > 1
    BY <1>5 DEF Back
  <2>2. splash[d].at = "absent"
    <3>1. stack[d] # <<"splash">>
      <4>1. Len(<<"splash">>) = 1 /\ ~(1 > 1)
        OBVIOUS
      <4> QED
        BY Zenon, <2>1, <4>1
    <3>2. SplashAlone(d)
      BY <2>1 DEF AloneOn
    <3> QED
      BY Zenon, <3>1, <3>2 DEF SplashAlone
  <2>3. stack'[d] = Below(d) /\ Len(stack[d]) \in Nat
    BY <1>5 DEF Back, TypeOK
  <2>4. NoHome(d)'
    <3> SUFFICES ASSUME NEW i \in 1..Len(stack'[d]) PROVE stack'[d][i] \notin Roles
      BY DEF NoHome
    <3>1. i \in 1..(Len(stack[d]) - 1) /\ stack'[d][i] = stack[d][i]
      BY <2>3, Popped
    <3>2. i \in 1..Len(stack[d]) /\ i # Len(stack[d])
      BY <2>3, <3>1
    <3> QED
      BY <2>1, <3>1, <3>2 DEF AloneOn, HomeTrue
  <2>5. \A s \in Slots : \/ calls'[d][s] = calls[d][s]
                         \/ calls[d][s].kind = "signUp" /\ SameButContext(d, s)
    <3>1. CASE calls' = calls
      BY <3>1
    <3>2. CASE calls' = [calls EXCEPT ![d] = Unmount(d, "signUp")]
      <4>1. OnlyUnmounts
        BY <3>2, UnmountEffect
      <4>2. \A s \in Slots : calls[d][s].kind # "signUp" => calls'[d][s] = calls[d][s]
        BY <3>2 DEF Unmount, TypeOK
      <4> QED
        BY <4>1, <4>2 DEF OnlyUnmounts
    <3> QED
      BY <1>5, <3>1, <3>2 DEF Back
  <2> QED
    BY <2>1, <2>2, <2>4, <2>5, PagesAlone
<1>6. CASE DismissDialog(d)
  BY <1>6 DEF DismissDialog, TypeOK
<1>7. CASE SplashStep(d)
  <2>1. raced' = raced
    BY <1>7 DEF SplashStep, SplashFound, SplashSignsOut, SplashNavigate
  <2> QED
    BY <1>7, <2>1, SplashStepAlone
<1>8. CASE Commit(d)
  BY <1>8, UntouchedAlone DEF Commit, Untouched
<1>9. CASE Restart(d)
  <2>1. /\ stack'[d] = <<"splash">> /\ splash'[d] = OpenSplash(current[d])
        /\ current'[d] = current[d] /\ \A s \in Slots : calls'[d][s] = Idle
    BY <1>9 DEF Restart, TypeOK
  <2> QED
    BY <2>1, ResetAlone
<1> QED
  BY <1>1, <1>2, <1>3, <1>4, <1>5, <1>6, <1>7, <1>8, <1>9 DEF DeviceStep

AloneInv == \A d \in Devices : ~raced[d] => AloneOn(d)

LEMMA StepAlone ==
  ASSUME TypeOK, IInv, AloneInv, [Next]_vars
  PROVE  AloneInv'
<1> SUFFICES ASSUME NEW d \in Devices, ~raced'[d] PROVE AloneOn(d)'
  BY DEF AloneInv
<1>1. (~raced[d] => AloneOn(d)) /\ DocsKept
  BY StepDocs DEF AloneInv
<1>2. CASE UNCHANGED vars
  BY <1>1, <1>2, UntouchedAlone DEF vars, Untouched
<1>3. ASSUME NEW e \in Devices, DeviceStep(e) PROVE AloneOn(d)'
  <2>1. CASE e = d
    BY <1>1, <1>3, <2>1, DeviceStepAlone
  <2>2. CASE e # d
    <3>1. Untouched(d)
      BY <1>3, <2>2, Elsewhere
    <3> QED
      BY <1>1, <3>1, UntouchedAlone DEF Untouched
  <2> QED
    BY <2>1, <2>2
<1> QED
  BY <1>2, <1>3 DEF Next, DeviceStep

\* On a device whose calls never overlapped, a home page is the top page and
\* belongs to the role of the current user, except between signOut's two
\* statements: with any number of other devices registering and storing roles.
THEOREM HomeMatches == Spec => []HomeMatchesUser
<1>1. Init => TypeOK /\ IInv /\ AloneInv
  <2>1. ASSUME Init, NEW d \in Devices PROVE AloneOn(d)
    <3>1. OneCall(d) /\ HomeTrue(d) /\ SplashAlone(d)
      BY <2>1 DEF Init, OneCall, HomeTrue, SplashAlone, OpenSplash, Roles
    <3>2. \A s \in Slots : CallAlone(d, s)
      BY <2>1 DEF Init, CallAlone, Authenticated, At, Idle
    <3> QED
      BY <3>1, <3>2 DEF AloneOn
  <2> QED
    BY <2>1, TypeInit, IInit DEF AloneInv
<1>2. (TypeOK /\ IInv /\ AloneInv) /\ [Next]_vars => (TypeOK /\ IInv /\ AloneInv)'
  BY TypeStep, StepIInv, StepAlone
<1>3. AloneInv => HomeMatchesUser
  BY DEF AloneInv, AloneOn, HomeTrue, HomeOf, HomeMatchesUser
<1> QED
  BY <1>1, <1>2, <1>3, PTL DEF Spec
=============================================================================
