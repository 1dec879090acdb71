CONSTANTS
  None = None
  NoText = NoText
  NoList = NoList
  Tokens = {"phone", "admin", "bare", "staff"}
  StaticTokens = {"staff"}
  Companies = {"A", "B"}
  PrincipalOf <- MCPrincipalOf
  Requests = {r1}
  Passing = {"phone", "admin"}
  Ids = {i1, i2}
  Customers = {"k"}
  Names = {"Gate", "gate"}
  NormalName <- MCNormalName
  Points = {"p"}
  Inputs <- MCInputs
SPECIFICATION Spec
INVARIANT TypeOK
INVARIANT OneDefault
INVARIANT OlderReadersSeeTheDefault
INVARIANT DisplacedIsRefused
PROPERTY OnlyTheOwnerWrites
SYMMETRY Symmetry
