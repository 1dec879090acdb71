CONSTANTS
  None = None
  Blank = Blank
  Nil = Nil
  NoCompany = NoCompany
  Absent = Absent
  c1 = c1
  c2 = c2
  admin = admin
  clerk = clerk
  fleet = fleet
  karlo = karlo
  phone = phone
  old = old
  svc = svc
  stranger = stranger
  Companies = {c1, c2}
  Tokens = {admin, clerk, fleet, karlo, phone, old}
  StaticTokens = {}
  Expired = {old}
  Ended = {}
  PrincipalOf <- MCPrincipalOf
  Workloads <- MCWorkloads
  Envs <- MCEnvs
  Slots = {1, 2}
  Results = {"ok", "Conflict"}
  Process = 1
  Seeders = {1}
  Files <- MCFiles
  Names <- MCNames
  Norm <- MCNorm
  Codes = {"31", "72", "3171", "7271", "HINO", "A"}
  HandEntries <- MCHandEntries
  MaxHands = 1
  MaxRuns = 2
  Workers = {1, 2}
  OwnVehicles = {"t1", "t2"}
  OwnDrivers = {"e2"}
  CompanyOf <- MCCompanyOf
  Types = {"sim", "ktp", "kir"}
  Unset = Unset
  Spaces = Spaces
  FirstDocument <- MCFirst
SPECIFICATION Spec
CHECK_DEADLOCK FALSE
INVARIANT NeverOpen
INVARIANT ActsWithinScope
INVARIANT NoneCutEarly
INVARIANT SeedTakes
INVARIANT OneOwnerEach
PROPERTY DocumentsStayPut
PROPERTY ShutdownEnds
