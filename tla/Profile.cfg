\* Two updates, one picture, one change of the location.  No symmetry: the run
\* checks liveness.
SPECIFICATION Spec
CONSTANTS
  Texts = {"t1", "t2"}
  Blank = "blank"
  Pictures = {"f1"}
  NoPicture = "noPicture"
  Placeholder = "placeholder"
  Places = {"p1"}
  NoPlace = "noPlace"
  Registered = "t1"
  Slots = {s1, s2}
  NoSlot = noSlot
  MaxTaps = 2
  MaxMoves = 1
INVARIANTS
  TypeOK
  ProgressIsUpdate
  BelowStays
PROPERTIES
  UpdateIsForm
  NothingErased
  ProgressEnds
