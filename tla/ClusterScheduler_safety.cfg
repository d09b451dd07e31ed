SPECIFICATION Spec
CONSTANTS
  NumRB = 2
  NumSlots = 4
  Sizes = {0, 1, 3}
  None = None
  Pkt = {p1, p2, p3}
  HPU <- MCHpu
  NUM_HERS = 2
SYMMETRY Sym
INVARIANTS
  TypeOK
  RegionsDisjoint
  SpaceIsUsable
  StartAfterCopy
  MemoryOwned
