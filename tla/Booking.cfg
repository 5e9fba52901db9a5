\* One tenant on two phones, two Book() calls in flight on each; three rooms,
\* two of which share a title.
SPECIFICATION Spec
CONSTANTS
  u1 = u1
  t1 = t1
  t2 = t2
  r1 = r1
  r2 = r2
  r3 = r3
  Devices = {d1, d2}
  Users = {u1}
  Rooms = {r1, r2, r3}
  Titles = {t1, t2}
  UserOf <- OneUser
  TitleOf <- SharedTitle
  NoRoom = NoRoom
  Slots = {s1, s2}
  MaxTaps = 2
SYMMETRY Symmetric
INVARIANTS
  TypeOK
  NoRepeatedBooking
  SuccessIsKept
  RefusalHasBooking
PROPERTIES
  OwnerSeesBooking
