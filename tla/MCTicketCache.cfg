\* Two writes of the tab at once.
SPECIFICATION CacheSpec
CONSTANTS
  Slot = {w1, w2}
  Status = {x, y}
  Plan = {p, q}
  MaxRows = 3
  MaxThread = 1
SYMMETRY Symmetric
CONSTRAINT FewPastTangle
INVARIANTS ScreenIsReal
PROPERTIES FreshAnswerShown
