SPECIFICATION Spec
CONSTANTS
  MPQ = {m1, m2}
  Pkt = {p1, p2}
  NUM_CELLS = 1
  NUM_STATIC = 1
  None = None
  Contexts <- MCContexts
  Overlap = TRUE
INVARIANTS
  IdleMeansEmpty
