\* Two overlapping calls of addRooms, four edits, two photos.  No symmetry:
\* the run checks liveness.
SPECIFICATION Spec
CONSTANTS
  Texts = {"t1"}
  Places = {"p1"}
  NotSet = "notSet"
  NoAddress = "noAddress"
  Amenities = {"gym"}
  Photos = {"f1", "f2"}
  Slots = {s1, s2}
  MaxPosts = 2
  MaxEdits = 4
  MaxPhotos = 2
INVARIANTS
  TypeOK
  PostIsDraft
PROPERTIES
  PostArrives
