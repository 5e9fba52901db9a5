\* A landlord's phone and two phones of a tenant; two texts, two sends.  No
\* symmetry: the run checks liveness.
SPECIFICATION Spec
CONSTANTS
  d1 = d1
  d2 = d2
  d3 = d3
  Devices = {d1, d2, d3}
  Users = {"tenant", "landlord"}
  UserOf <- ThreePhones
  NoUser = "nobody"
  Closed = "closed"
  Words = {"w1"}
  Empty = "empty"
  MaxTyped = 2
  MaxSends = 2
INVARIANTS
  TypeOK
PROPERTIES
  KeepsPromise
  MessageArrives
