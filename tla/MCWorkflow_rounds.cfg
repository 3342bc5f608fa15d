\* Long histories without detours of the roster: one developer.
SPECIFICATION Spec
CONSTANTS
  head = head
  pm = pm
  dev = dev
  dev2 = dev2
  qa = qa
  req = req
  User = {head, dev, req}
  Eligible = {dev}
  RoleOf <- MCRoleOf
  Creator = req
  NamedOwner = {}
  MaxHistory = 10
  MaxForced = 5
  MaxForces = 1
INVARIANTS TypeOK HistoryChain ApprovedBeforeWork NoStageSkipped ClockMatchesStatus PageAgrees
PROPERTIES ResumeNeverStrays
