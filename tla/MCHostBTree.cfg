CONSTANTS
  Kinds = {"btree"}
  BlockSize = 1
  Orders <- MCOrders
  Rows <- MCRows
  MaxRows <- MCMaxRows
SPECIFICATION Spec
INVARIANT BlockIsOriginal
