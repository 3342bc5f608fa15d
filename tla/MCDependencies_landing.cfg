\* Three tickets; two requests in flight, one of them at most drawing a relation.
SPECIFICATION OneDrawnSpec
CONSTANTS
  t1 = t1
  t2 = t2
  t3 = t3
  r1 = r1
  r2 = r2
  Ticket = {t1, t2, t3}
  Slot = {r1, r2}
SYMMETRY Symmetric
INVARIANTS WayClearedIsTold GraphIsDAG
PROPERTIES ImplementsDependencies
