\* Two changes of the location, two handlers and two confirmations in flight.
\* No symmetry: the run checks liveness.
SPECIFICATION Spec
CONSTANTS
  Places = {"p1", "p2"}
  NoPlace = "noPlace"
  NoAddress = "noAddress"
  PickSlots = {k1, k2}
  Posted = "p1"
  Slots = {s1, s2}
  NoSlot = noSlot
  MaxUpdates = 2
  Elsewhere <- Second
INVARIANTS
  TypeOK
  ShownIsStored
  DeletedIsGone
  AddressNamesPlace
  PostsStay
  SpinnerOnlyIfRefused
PROPERTIES
  UpdateArrives
