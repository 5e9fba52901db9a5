\* A second post on the form that the first one reset.
SPECIFICATION Spec
CONSTANTS
  Texts = {"t1"}
  Places = {"p1"}
  NotSet = "notSet"
  NoAddress = "noAddress"
  Amenities = {}
  Photos = {"f1"}
  Slots = {s1, s2}
  MaxPosts = 2
  MaxEdits = 4
  MaxPhotos = 1
INVARIANTS
  AddressIsLocation
