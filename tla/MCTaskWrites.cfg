\* Two users, two tasks, two requests at once.
SPECIFICATION WritesSpec
CONSTANTS
  User = {u1, u2}
  Hours = {1, 2}
  Slot = {s1, s2}
  MaxTasks = 2
  Manager = manager
SYMMETRY Symmetric
CONSTRAINT OneEstimate
INVARIANTS FlagOnlyWhileActive LoneWritesRepair
PROPERTIES LeadLostOnlyByLeaving LoneWritesAreSteps
