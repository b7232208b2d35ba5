CONSTANTS
  Kinds = {"trie", "hashmap", "sorted", "btree"}
  BlockSize = 1
  Orders <- MCOrders
  Rows <- MCRows
  MaxRows <- MCMaxRows
SPECIFICATION Spec
INVARIANTS LookupsExact RowIdsNameRows
