\* A manager and a developer over lists of up to three tasks.
SPECIFICATION TaskSpec
CONSTANTS
  head = head
  dev = dev
  User = {head, dev}
  Eligible = {head, dev}
  RoleOf <- MCRoleOf
  MaxTasks = 3
CONSTRAINT FewSpecial
INVARIANTS TaskTypeOK PositionsContiguous TaskClockMatches RosterAgrees
PROPERTIES OthersKeepOrder BlockersHold ImplementsBoard TaskWriteKeepsLead
