SPECIFICATION ContainersSpec
CONSTANTS
  k1 = k1
  k2 = k2
  k3 = k3
  k4 = k4
  k5 = k5
  NoItem = NoItem
  DELETED = DELETED
  Keys = {k1, k2, k3, k4}
  Values = {1}
  Hash1 <- MCHash1
  Hash2 <- MCHash2
  Requested = 2
  MaxSize = 8
  MaxDeletes = 4
INVARIANTS TableSound SortSound MergeSound ListingFits
PROPERTIES ImplementsMap LoopsAdvance
