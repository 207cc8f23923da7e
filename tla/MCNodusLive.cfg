CONSTANTS
  Nodes = {n1, n2}
  Names = {a}
  Slots = {1}
  Capacity = 3
  MaxLen = 1
  MaxWrites = 1
  Bufs = {1, 2, 3, 4, 5}
  Allowed = {"reset", "coalesce", "stall", "disconnect", "restart", "remove"}
SPECIFICATION FairSpec
PROPERTIES LookupsAnswer BroadcastsEnd 
