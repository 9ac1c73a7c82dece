\* Two blocks, two stores; a rung below the second block only.
CONSTANTS
  Blocks = {1, 2}
  Stores = {R2, B2}
  R2 = R2
  B2 = B2
  Rungs = {1}
  Tops = {2, 3}
  Margin = 1
  MaxReceipts = 2
  MaxFaults = 2
SYMMETRY StoreSymmetry
SPECIFICATION Spec
INVARIANTS PrunedIsFinished OnlySpoiledIsTorn
PROPERTY StoresOnlyGrow
CHECK_DEADLOCK FALSE
