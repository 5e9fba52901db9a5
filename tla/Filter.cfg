SPECIFICATION FilterSpec
CONSTANTS
  Prices = {1, 2}
  Distances = {5}
  Types = {"House", "Room"}
  Positions = {"here", "there"}
  Unset = Unset
  Bad = Bad
  NoPosition = NoPosition
  Km <- KmBetween
  Rooms <- ThreeRooms
  Fillings <- ThreeFillings
  QuerySlots = {1, 2}
INVARIANTS
  FilterTypeOK
  HomeStays
  ListedAsAsked
PROPERTIES
  FilterCloses
CHECK_DEADLOCK FALSE
