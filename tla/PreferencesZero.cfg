SPECIFICATION Spec
CONSTANTS
  Km <- Distances
  Limit = 2
  Devices = {d1}
  Homes = {d1}
  Places = {"p1", "p2"}
  NoAddress = "noAddress"
  NotSet = "notSet"
  Zero = "zero"
  Numbers <- NearAndCheap
  Malformed = Malformed
  Choices <- TwoChoices
  DefaultChoice <- Apartment
  Rooms <- ThreeRooms
  Collections <- WithOrWithoutThird
  MaxEdits = 3
  MaxSaves = 2
INVARIANTS
  ScoredByTenantsPlace


