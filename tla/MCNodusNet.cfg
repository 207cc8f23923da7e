CONSTANTS
  Nodes = {n1, n2}
  Names = {a}
  Slots = {1}
  Capacity = 3
  MaxLen = 2
  MaxWrites = 2
  Bufs = {1, 2, 3, 4, 5, 6}
  Allowed = {"reset", "overlap", "restart"}
SPECIFICATION WritesSpec
SYMMETRY Symmetric
VIEW WritesView
INVARIANTS BytesInPlace
PROPERTIES FetchAllOrNothing WriteLands
