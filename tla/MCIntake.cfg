\* One meeting of two lines, one requirement, two tickets, two requests at once.
SPECIFICATION IntakeSpec
CONSTANTS
  Slot = {s1, s2}
  System = {a}
  Url = {f}
  None = None
  MaxRequirements = 1
  MaxTickets = 2
  MaxMoves = 3
  MaxPoints = 2
SYMMETRY Symmetric
CONSTRAINT FewAtOnce
INVARIANTS RecordsAgree UndisturbedIntake
PROPERTIES UndisturbedMeeting
