SPECIFICATION Spec
CONSTANTS
  Cluster <- TwoClusters
  t0 = t0
  t1 = t1
  t2 = t2
  t3 = t3
  t4 = t4
  t5 = t5
  Tasks = {t0, t1, t2, t3, t4, t5}
  Home <- Six
  MAX_OCC = 3
  None = None
SYMMETRY Sym
INVARIANTS
  TypeOK
  OccupExact
  WithinCapacity
  OnePlace
