CONSTANTS
  Files = {"a", "b"}
  LinesOf <- MCLinesOf
  Slices = {0, 1}
  SliceOf <- MCSliceOf
  K = 5
  HashOf <- MCHashOf
  Contents <- MCContents
  Relation <- MCRelation
  minpr0 = 5
  minpa0 = 5
  keep = 1
  excess = 1
  wanted = 1
  hashmod = 7
  getInitialAddressMod <- MCInitialAddress
  MaxKills = 1
SPECIFICATION Spec
INVARIANTS
    EachRelationOnce
    PurgeRight
PROPERTIES
    Terminates
