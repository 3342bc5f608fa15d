\* Every graph on three tickets; the walk stops when it has answered.
SPECIFICATION WalkSpec
CONSTANTS
  t1 = t1
  t2 = t2
  t3 = t3
  t4 = t4
  Ticket = {t1, t2, t3}
  MaxNodes = 3
CHECK_DEADLOCK FALSE
INVARIANTS WalkAnswersRight
PROPERTIES WalkEnds
