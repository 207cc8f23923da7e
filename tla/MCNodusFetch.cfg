CONSTANTS
  Nodes = {n1, n2, n3}
  Names = {a}
  Slots = {1}
  Capacity = 1
  MaxLen = 1
  MaxWrites = 0
  Bufs = {1, 2, 3, 4, 5, 6}
  Allowed = {"disconnect","setattr","remove"}
SPECIFICATION FetchSpec
SYMMETRY Symmetric
VIEW FetchView
INVARIANTS FetchFindsCopy
