\* One phone, two e-mails, two calls in flight at once: every overlap of
\* registration, login, sign-out, the splash check and restarts.  No symmetry:
\* the run checks liveness.
SPECIFICATION Spec
CONSTANTS
  Devices = {d1}
  Users = {u1, u2}
  NoUser = NoUser
  Slots = {s1, s2}
INVARIANTS
  TypeOK
  HomeMatchesUser
  HomeIsEarned
  RegistrationIsDurable
PROPERTIES
  RoleIsFinal
  SplashResolves
