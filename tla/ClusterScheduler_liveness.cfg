SPECIFICATION FairSpec
CONSTANTS
  NumRB = 1
  NumSlots = 2
  Sizes = {0, 1, 2}
  None = None
  Pkt = {p1, p2, p3}
  HPU <- OneHpu
  NUM_HERS = 2
PROPERTIES
  EveryTaskAccepted
  EveryTaskLeaves
