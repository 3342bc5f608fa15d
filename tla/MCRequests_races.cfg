\* Two requests in flight at once on a scheduled ticket, none failing.
SPECIFICATION ScheduledSpec
CONSTANTS
  head = head
  dev = dev
  req = req
  r1 = r1
  r2 = r2
  Slot = {r1, r2}
  MaxFailures = 1
  User = {head, dev}
  Eligible = {dev}
  RoleOf <- MCRoleOf
  Creator = head
  NamedOwner = {}
  MaxHistory = 6
  MaxForced = 0
  MaxForces = 0
SYMMETRY Slots
INVARIANTS RowsAreMoves SettledStatusRecorded
