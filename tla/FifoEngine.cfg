SPECIFICATION Spec
CONSTANTS
  MPQ = {m1, m2}
  Pkt = {p1, p2}
  NUM_CELLS = 2
  NUM_STATIC = 1
  None = None
SYMMETRY Sym
INVARIANTS
  TypeOK
  LinksFollowOrder
  CellsExact
PROPERTIES
  ImplementsFifos
