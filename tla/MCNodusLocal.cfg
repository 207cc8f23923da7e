CONSTANTS
  Nodes = {n1}
  Names = {a, b}
  Slots = {1, 2}
  Capacity = 8
  MaxLen = 2
  MaxWrites = 2
  Bufs = {1, 2, 3, 4, 5, 6, 7, 8}
  Allowed = {"setattr", "remove"}
SPECIFICATION LocalSpec
VIEW LocalView
INVARIANTS TypeOK RemovedStaysRemoved
PROPERTIES BehavesAsFiles
