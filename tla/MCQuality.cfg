\* A suite of two cases or a case and a bug, two requests at once.
SPECIFICATION QualitySpec
CONSTANTS
  web = web
  app = app
  Slot = {s1, s2}
  System = {web, app}
  Home = web
  Filed <- OneEach
  MaxCases = 2
  MaxRuns = 2
  TestResult = {"NOT_RUN", "PASS"}
  BugStatus = {"OPEN", "CLOSED"}
  Resolved = {"CLOSED"}
  MaxBugs = 1
  MaxTickets = 4
  MaxMoves = 3
SYMMETRY Symmetric
CONSTRAINT FewAtOnce
INVARIANTS QualityTypeOK StatusesAudited UndisturbedSuite
PROPERTIES UndisturbedRecord
