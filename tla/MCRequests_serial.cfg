\* One request at a time, none failing: the refinement of TicketWorkflow.
SPECIFICATION SerialSpec
CONSTANTS
  head = head
  dev = dev
  req = req
  r1 = r1
  r2 = r2
  Slot = {r1}
  MaxFailures = 0
  User = {head, dev, req}
  Eligible = {dev}
  RoleOf <- MCRoleOf
  Creator = req
  NamedOwner = {}
  MaxHistory = 5
  MaxForced = 5
  MaxForces = 1
PROPERTIES ImplementsWorkflow
