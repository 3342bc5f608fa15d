\* One address, two requests at once, two sign-up requests, three tokens; two
\* companies with four systems, of which a manager has one.
SPECIFICATION AccountsSpec
CONSTANTS
  Slot = {s1, s2}
  MaxApplications = 2
  MaxTokens = 3
  c1 = c1
  c2 = c2
  x = x
  z = z
  dead = dead
  y = y
  Company = {c1, c2}
  System = {x, z, dead, y}
  CompanyOf <- TheirCompany
  Live = {x, z, y}
  PortfolioCompanies = {}
  PortfolioSystems = {x}
  Absent = Absent
  Patches <- Requested
SYMMETRY Symmetric
CONSTRAINT FewAtOnce
INVARIANTS AccountsTypeOK EntryRecordsAgree ReachAgrees
PROPERTIES UndisturbedAccounts
