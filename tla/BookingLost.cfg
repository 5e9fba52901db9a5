\* A room opened from a list that passes no id.
SPECIFICATION Spec
CONSTANTS
  u1 = u1
  t1 = t1
  t2 = t2
  r1 = r1
  r2 = r2
  r3 = r3
  Devices = {d1}
  Users = {u1}
  Rooms = {r1}
  Titles = {t1, t2}
  UserOf <- OneUser
  TitleOf <- SharedTitle
  NoRoom = NoRoom
  Slots = {s1}
  MaxTaps = 1
INVARIANTS
  StoredBookingIsFindable
