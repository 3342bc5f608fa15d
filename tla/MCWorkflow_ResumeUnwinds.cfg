\* A blocked ticket is put on hold and resumed twice.
SPECIFICATION Spec
CONSTANTS
  head = head
  pm = pm
  dev = dev
  dev2 = dev2
  qa = qa
  req = req
  User = {head, dev, req}
  Eligible = {dev}
  RoleOf <- MCRoleOf
  Creator = req
  NamedOwner = {}
  MaxHistory = 8
  MaxForced = 8
  MaxForces = 0
PROPERTIES ResumeUnwinds
