CONSTANTS
  Nodes = {n1, n2}
  Names = {a}
  Slots = {1}
  Capacity = 2
  MaxLen = 2
  MaxWrites = 2
  Bufs = {1, 2, 3, 4, 5, 6}
  Allowed = {"coalesce"}
SPECIFICATION LinkedSpec
VIEW View
INVARIANTS BytesInPlace
