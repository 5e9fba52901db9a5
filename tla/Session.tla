------------------------------ MODULE Session ------------------------------
(***************************************************************************)
(* Registration, login, the splash screen's session check, sign-out, and   *)
(* the navigation each of them ends with.  One step per stretch of code    *)
(* between two awaits.  Firebase Auth and Firestore are external: the      *)
(* server creates an account only for a free e-mail, the signed-in user    *)
(* survives a restart of the app, and a document write is queued on the    *)
(* device, visible there at once, and sent while its author is signed in.  *)
(***************************************************************************)
EXTENDS Naturals, Sequences

CONSTANTS Devices,      \* phones running the app
          Users,        \* e-mail addresses, one account each
          NoUser,       \* currentUser == null
          Slots         \* calls one device can have in flight at once

ASSUME NoUserAssumption == NoUser \notin Users

Roles == {"Tenant", "Landlord"}

\* The navbar page of a role, '/tenantnavbar' or '/landlordnavbar', is named
\* by the role; the pages a navbar opens above itself are not told apart.
Pages == {"splash", "login", "register"} \cup Roles

\* One running signUp, signIn or signOut: what it is, the await it is at, its
\* arguments, and whether the page its BuildContext belongs to still exists.
Idle == [kind |-> "idle", step |-> "auth", user |-> NoUser, role |-> "none",
         mounted |-> FALSE]

Steps == {"auth", "name", "store", "ack", "doc", "navigate"}

Call == [kind    : {"idle", "signUp", "signIn", "signOut"},
         step    : Steps,
         user    : Users \cup {NoUser},
         role    : Roles \cup {"none"},
         mounted : BOOLEAN]

Write == [user : Users, role : Roles]

VARIABLES
  accounts,   \* e-mails with a Firebase Auth account
  usertype,   \* users/<uid>.usertype on the server, "none" if no document
  outbox,     \* per device, profile documents not yet sent to the server
  current,    \* per device, FirebaseAuth.currentUser
  stack,      \* per device, the Navigator's pages, the top one last
  splash,     \* per device, the splash page: its state and the uid it read
  calls,      \* per device and slot, the calls in flight
  raced,      \* history: calls of this device overlapped since its last start
  proved,     \* history: users authenticated here since the stack was reset
  told        \* history: the registrations signUp reported with true

world == <<accounts, usertype, outbox>>
ui    == <<stack, splash>>
past  == <<raced, proved, told>>
vars  == <<accounts, usertype, outbox, current, stack, splash, calls,
           raced, proved, told>>

Top(d) == stack[d][Len(stack[d])]
Below(d) == SubSeq(stack[d], 1, Len(stack[d]) - 1)

At(d, s, kind, step) == calls[d][s].kind = kind /\ calls[d][s].step = step

\* What a get() of users/<u> finds on device d: the server's document, or the
\* write this device still holds.
DocRole(d, u) ==
  IF usertype[u] # "none" THEN usertype[u]
  ELSE IF \E w \in outbox[d] : w.user = u
       THEN (CHOOSE w \in outbox[d] : w.user = u).role
       ELSE "none"

\* initState of a new splash page: check a session if there is one, else
\* show "Get Started".
OpenSplash(u) == [at |-> IF u = NoUser THEN "welcome" ELSE "checking", user |-> u]
NoSplash == [at |-> "absent", user |-> NoUser]

SplashStates ==
  [at : {"absent", "welcome"}, user : Users \cup {NoUser}]
    \cup [at : {"checking"} \cup Roles, user : Users]

Init ==
  /\ accounts = {}
  /\ usertype = [u \in Users |-> "none"]
  /\ outbox = [d \in Devices |-> {}]
  /\ current = [d \in Devices |-> NoUser]
  /\ stack = [d \in Devices |-> <<"splash">>]
  /\ splash = [d \in Devices |-> OpenSplash(NoUser)]
  /\ calls = [d \in Devices |-> [s \in Slots |-> Idle]]
  /\ raced = [d \in Devices |-> FALSE]
  /\ proved = [d \in Devices |-> {}]
  /\ told = {}

-----------------------------------------------------------------------------
(* Pages the user opens and closes                                          *)

\* "Get Started" on the splash page.
GetStarted(d) ==
  /\ Top(d) = "splash" /\ splash[d].at = "welcome"
  /\ stack' = [stack EXCEPT ![d] = <<"login">>]
  /\ splash' = [splash EXCEPT ![d] = NoSplash]
  /\ UNCHANGED <<world, current, calls, past>>

\* "Register" on the login page.
GoRegister(d) ==
  /\ Top(d) = "login"
  /\ stack' = [stack EXCEPT ![d] = Append(@, "register")]
  /\ UNCHANGED <<world, current, splash, calls, past>>

\* Calls whose context belongs to a page of kind k, once that page is gone.
Unmount(d, kind) ==
  [s \in Slots |-> IF calls[d][s].kind = kind
                   THEN [calls[d][s] EXCEPT !.mounted = FALSE] ELSE calls[d][s]]

DialogOpen(d) == \E s \in Slots : calls[d][s].kind = "signOut" /\ calls[d][s].mounted

\* The system back button: no route intercepts it.  Closing the register page
\* leaves its signUp calls running with a dead context.
Back(d) ==
  /\ Len(stack[d]) > 1 /\ ~DialogOpen(d)
  /\ stack' = [stack EXCEPT ![d] = Below(d)]
  /\ calls' = IF Top(d) = "register"
              THEN [calls EXCEPT ![d] = Unmount(d, "signUp")] ELSE calls
  /\ UNCHANGED <<world, current, splash, past>>

\* A call takes a free slot.  The buttons are never disabled, so another call
\* may be in flight; the history variable notes it.
Start(d, s, call) ==
  /\ calls[d][s] = Idle
  /\ calls' = [calls EXCEPT ![d][s] = call]
  /\ raced' = [raced EXCEPT ![d] = @ \/ \E t \in Slots : calls[d][t] # Idle]
  /\ UNCHANGED <<world, current, ui, proved, told>>

Advance(d, s, step) == calls' = [calls EXCEPT ![d][s].step = step]
End(d, s) == calls' = [calls EXCEPT ![d][s] = Idle]

\* Navigator.pushNamed(context, <navbar of the role>); a dead context throws.
PushHome(d, s, role) ==
  stack' = IF calls[d][s].mounted THEN [stack EXCEPT ![d] = Append(@, role)]
                                  ELSE stack

\* A call got a signed-in user from Firebase Auth.
SignedIn(d, u) ==
  /\ current' = [current EXCEPT ![d] = u]
  /\ proved' = [proved EXCEPT ![d] = @ \cup {u}]

-----------------------------------------------------------------------------
(* signUp                                                                   *)

StartSignUp(d, s, u, r) ==
  /\ Top(d) = "register"
  /\ Start(d, s, [kind |-> "signUp", step |-> "auth", user |-> u, role |-> r,
                  mounted |-> TRUE])

SignUpCreate(d, s) ==
  LET u == calls[d][s].user IN
  /\ At(d, s, "signUp", "auth")
  /\ u \notin accounts
  /\ accounts' = accounts \cup {u}
  /\ SignedIn(d, u)
  /\ Advance(d, s, "name")
  /\ UNCHANGED <<usertype, outbox, ui, raced, told>>

\* Wrong variant: a taken e-mail is not an error, signUp goes on.
SignUpCreateFails_goesOn(d, s) ==
  /\ At(d, s, "signUp", "auth")
  /\ Advance(d, s, "name")
  /\ UNCHANGED <<world, current, ui, past>>

\* The e-mail is taken or the request is lost; in the latter case the server
\* may have created the account all the same.
SignUpCreateFails(d, s) ==
  /\ At(d, s, "signUp", "auth")
  /\ accounts' \in {accounts, accounts \cup {calls[d][s].user}}
  /\ End(d, s)
  /\ UNCHANGED <<usertype, outbox, current, ui, past>>

\* updateDisplayName and reload; their failure ends signUp with false.
SignUpName(d, s) ==
  /\ At(d, s, "signUp", "name")
  /\ Advance(d, s, "store") \/ End(d, s)
  /\ UNCHANGED <<world, current, ui, past>>

\* users.doc(uid).set: the write is queued and visible on the device.
SignUpStore(d, s) ==
  /\ At(d, s, "signUp", "store")
  /\ outbox' = [outbox EXCEPT ![d] = @ \cup
        {[user |-> calls[d][s].user, role |-> calls[d][s].role]}]
  /\ Advance(d, s, "ack")
  /\ UNCHANGED <<accounts, usertype, current, ui, past>>

\* The device sends a queued profile while its author is signed in.
Commit(d) ==
  \E w \in outbox[d] :
    /\ current[d] = w.user
    /\ usertype' = [usertype EXCEPT ![w.user] = w.role]
    /\ outbox' = [outbox EXCEPT ![d] = @ \ {w}]
    /\ UNCHANGED <<accounts, current, ui, calls, past>>

\* Wrong variant: the set() of the profile is not awaited.
SignUpDone_notAwaited(d, s) ==
  LET c == calls[d][s] IN
  /\ At(d, s, "signUp", "ack")
  /\ PushHome(d, s, c.role)
  /\ told' = told \cup {[user |-> c.user, role |-> c.role]}
  /\ End(d, s)
  /\ UNCHANGED <<world, current, splash, raced, proved>>

\* The server's acknowledgement resolves the awaited set: signUp pushes the
\* home page of the chosen role and returns true.  With a dead context the
\* push throws, and the caller is told nothing.
SignUpDone(d, s) ==
  LET c == calls[d][s]
      w == [user |-> c.user, role |-> c.role]
  IN
  /\ At(d, s, "signUp", "ack")
  /\ w \notin outbox[d]
  /\ PushHome(d, s, c.role)
  /\ told' = IF c.mounted THEN told \cup {w} ELSE told
  /\ End(d, s)
  /\ UNCHANGED <<world, current, splash, raced, proved>>

-----------------------------------------------------------------------------
(* signIn                                                                   *)

StartSignIn(d, s, u) ==
  /\ Top(d) = "login"
  /\ Start(d, s, [kind |-> "signIn", step |-> "auth", user |-> u,
                  role |-> "none", mounted |-> TRUE])

SignInAuth(d, s) ==
  /\ At(d, s, "signIn", "auth")
  /\ calls[d][s].user \in accounts
  /\ SignedIn(d, calls[d][s].user)
  /\ Advance(d, s, "doc")
  /\ UNCHANGED <<world, ui, raced, told>>

\* Wrong variant: userDoc.exists is not tested.
SignInHome_unchecked(d, s) ==
  /\ At(d, s, "signIn", "doc")
  /\ PushHome(d, s, DocRole(d, calls[d][s].user))
  /\ End(d, s)
  /\ UNCHANGED <<world, current, splash, past>>

\* The document is there: push the home page of its usertype.
SignInHome(d, s) ==
  LET role == DocRole(d, calls[d][s].user) IN
  /\ At(d, s, "signIn", "doc")
  /\ role # "none"
  /\ PushHome(d, s, role)
  /\ End(d, s)
  /\ UNCHANGED <<world, current, splash, past>>

\* Wrong password, no account, no connection, or no document: nothing happens
\* beyond a message, and whoever Auth signed in stays signed in.
SignInEnds(d, s) ==
  /\ calls[d][s].kind = "signIn"
  /\ End(d, s)
  /\ UNCHANGED <<world, current, ui, past>>

-----------------------------------------------------------------------------
(* The splash page's session check                                          *)

\* The get() found a document; the navigation waits for Future.delayed.
SplashFound(d) ==
  /\ splash[d].at = "checking"
  /\ DocRole(d, splash[d].user) # "none"
  /\ splash' = [splash EXCEPT ![d].at = DocRole(d, splash[d].user)]
  /\ UNCHANGED <<world, current, stack, calls, past>>

\* Wrong variant: the error branch forgets setState.
SplashSignsOut_keepsSpinner(d) ==
  /\ splash[d].at = "checking"
  /\ current' = [current EXCEPT ![d] = NoUser]
  /\ UNCHANGED <<world, ui, calls, past>>

\* No document, or the get() failed: sign out and show "Get Started".
SplashSignsOut(d) ==
  /\ splash[d].at = "checking"
  /\ current' = [current EXCEPT ![d] = NoUser]
  /\ splash' = [splash EXCEPT ![d].at = "welcome"]
  /\ UNCHANGED <<world, stack, calls, past>>

\* Navigator.pushReplacementNamed
SplashNavigate(d) ==
  /\ splash[d].at \in Roles
  /\ stack' = [stack EXCEPT ![d] = Append(Below(d), splash[d].at)]
  /\ splash' = [splash EXCEPT ![d] = NoSplash]
  /\ UNCHANGED <<world, current, calls, past>>

-----------------------------------------------------------------------------
(* signOut, started from the confirmation dialog above a home page, whose   *)
(* context it is given; the dialog stays open while the call runs           *)

StartSignOut(d, s) ==
  /\ Top(d) \in Roles
  /\ Start(d, s, [kind |-> "signOut", step |-> "auth", user |-> NoUser,
                  role |-> "none", mounted |-> TRUE])

SignOutAuth(d, s) ==
  /\ At(d, s, "signOut", "auth")
  /\ current' = [current EXCEPT ![d] = NoUser]
  /\ Advance(d, s, "navigate")
  /\ UNCHANGED <<world, ui, past>>

SignOutAuthFails(d, s) ==
  /\ At(d, s, "signOut", "auth")
  /\ End(d, s)
  /\ UNCHANGED <<world, current, ui, past>>

\* Wrong variant: the pages of running calls outlive the navigation.
AllUnmounted_keepsPages(d) == calls[d]

AllUnmounted(d) ==
  [s \in Slots |-> [calls[d][s] EXCEPT !.mounted = FALSE]]

\* pushNamedAndRemoveUntil('/', (route) => false): every page goes, and with
\* it every context a running call still holds.
SignOutNavigate(d, s) ==
  /\ At(d, s, "signOut", "navigate")
  /\ IF calls[d][s].mounted
     THEN /\ stack' = [stack EXCEPT ![d] = <<"splash">>]
          /\ splash' = [splash EXCEPT ![d] = OpenSplash(current[d])]
          /\ calls' = [calls EXCEPT ![d] = [AllUnmounted(d) EXCEPT ![s] = Idle]]
          /\ proved' = [proved EXCEPT ![d] = {current[d]} \ {NoUser}]
     ELSE End(d, s) /\ UNCHANGED <<ui, proved>>
  /\ UNCHANGED <<world, current, raced, told>>

\* A tap beside the dialog, or the back button, closes it under the call.
DismissDialog(d) ==
  /\ DialogOpen(d)
  /\ calls' = [calls EXCEPT ![d] = Unmount(d, "signOut")]
  /\ raced' = [raced EXCEPT ![d] = TRUE]
  /\ UNCHANGED <<world, current, ui, proved, told>>

-----------------------------------------------------------------------------
\* The app is killed and opened again: calls in flight are gone, the signed-in
\* user and the queued writes are not.
Restart(d) ==
  /\ stack' = [stack EXCEPT ![d] = <<"splash">>]
  /\ splash' = [splash EXCEPT ![d] = OpenSplash(current[d])]
  /\ calls' = [calls EXCEPT ![d] = [s \in Slots |-> Idle]]
  /\ raced' = [raced EXCEPT ![d] = FALSE]
  /\ proved' = [proved EXCEPT ![d] = {current[d]} \ {NoUser}]
  /\ UNCHANGED <<world, current, told>>

CallStep(d, s) ==
  \/ SignUpCreate(d, s)    \/ SignUpCreateFails(d, s) \/ SignUpName(d, s)
  \/ SignUpStore(d, s)     \/ SignUpDone(d, s)
  \/ SignInAuth(d, s)      \/ SignInHome(d, s)        \/ SignInEnds(d, s)
  \/ SignOutAuth(d, s)     \/ SignOutAuthFails(d, s)  \/ SignOutNavigate(d, s)

UserStep(d, s) ==
  \/ \E u \in Users, r \in Roles : StartSignUp(d, s, u, r)
  \/ \E u \in Users : StartSignIn(d, s, u)
  \/ StartSignOut(d, s)

SplashStep(d) == SplashFound(d) \/ SplashSignsOut(d) \/ SplashNavigate(d)

Next ==
  \E d \in Devices :
    \/ \E s \in Slots : CallStep(d, s) \/ UserStep(d, s)
    \/ GetStarted(d) \/ GoRegister(d) \/ Back(d) \/ DismissDialog(d)
    \/ SplashStep(d) \/ Commit(d) \/ Restart(d)

\* The splash page's own code runs to its end; users, the network and the
\* server promise nothing.
Fairness == \A d \in Devices : WF_vars(SplashStep(d))

Spec == Init /\ [][Next]_vars /\ Fairness

-----------------------------------------------------------------------------
CallsOK ==
  \A d \in Devices, s \in Slots :
    /\ calls[d][s].kind \in {"signUp", "signIn"} => calls[d][s].user \in Users
    /\ calls[d][s].kind = "signUp" => calls[d][s].role \in Roles

TypeOK ==
  /\ accounts \subseteq Users
  /\ usertype \in [Users -> Roles \cup {"none"}]
  /\ outbox \in [Devices -> SUBSET Write]
  /\ current \in [Devices -> Users \cup {NoUser}]
  /\ stack \in [Devices -> Seq(Pages)]
  /\ splash \in [Devices -> SplashStates]
  /\ calls \in [Devices -> [Slots -> Call]] /\ CallsOK
  /\ raced \in [Devices -> BOOLEAN]
  /\ proved \in [Devices -> SUBSET Users]
  /\ told \subseteq Write

\* Navigator.pushNamed(context, <navbar>) of SplashScreen, signIn and signUp:
\* the page shown is the home of the signed-in user's role.  On a device whose
\* calls never overlapped, a home page is the top page and belongs to the role
\* of the current user, except between signOut's two statements.
HomeMatchesUser ==
  \A d \in Devices : ~raced[d] =>
    \A i \in 1..Len(stack[d]) : stack[d][i] \in Roles =>
      /\ i = Len(stack[d])
      /\ \/ current[d] # NoUser /\ DocRole(d, current[d]) = stack[d][i]
         \/ \E s \in Slots : At(d, s, "signOut", "navigate")

\* Whatever overlaps, a home page in the stack is there because a user of that
\* role was authenticated on this device since the stack was last reset: a
\* signOut that removes all pages leaves nothing that can open a home again.
HomeIsEarned ==
  \A d \in Devices : \A i \in 1..Len(stack[d]) : stack[d][i] \in Roles =>
    \E u \in proved[d] : DocRole(d, u) = stack[d][i]

\* signUp returning true ("Registration was successful") promises the account
\* and the profile with the chosen role on the server, whatever crashes,
\* retries and second registrations follow.
RegistrationIsDurable ==
  \A t \in told : t.user \in accounts /\ usertype[t.user] = t.role

\* A role once stored is never changed: a second registration of an e-mail
\* cannot turn a landlord into a tenant, not even from another device.
RoleIsFinal ==
  [][\A u \in Users : usertype[u] # "none" => usertype'[u] = usertype[u]]_vars

\* A session check ends: the splash page gives way to a home page or offers
\* "Get Started"; the spinner does not stay, unless the app is killed again
\* and again.
SplashResolves ==
  \A d \in Devices :
    \/ []<><<Restart(d)>>_vars
    \/ splash[d].at = "checking" ~> (splash[d].at = "welcome" \/ Top(d) \in Roles)
=============================================================================
