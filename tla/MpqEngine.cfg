SPECIFICATION FairSpec
CONSTANTS
  MPQ = {m1, m2}
  Pkt = {p1, p2, p3}
  NUM_CELLS = 1
  NUM_STATIC = 1
  None = None
  Contexts <- MCContexts
  Overlap = FALSE
INVARIANTS
  TypeOK
  HandlerOrder
  InFlightExact
  LengthMatchesFifo
  NoUseAfterRelease
  EveryPacketOwed
  PhaseHasHandler
  IdleMeansEmpty
PROPERTIES
  EveryPacketReleased
