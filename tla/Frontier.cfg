SPECIFICATION CSpec
CONSTANTS
  k1 = k1
  k2 = k2
  k3 = k3
  Rows <- ForkedRows
  GENESIS_TIP = "g"
  NoDigest = "none"
  MaxRows = 4
  Keys = {k1, k2, k3}
  Heights = {1, 3}
  ROTATE_MAX_DEPTH = 2
  MaxNotes = 3
CONSTRAINT Notable Walkable
INVARIANTS FrontierIsMostWork ProvenCountedOnce CreditedOnce SpineIsSomebodys
