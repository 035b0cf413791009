SPECIFICATION Spec
CONSTANTS
  Deploys = {"r1", "r2"}
  Identities = {"jane", "pj", "sp"}
  UserName <- MCUserName
  Suffixed <- MCSuffixed
  Schemas <- MCSchemas
  Setups <- MCSetups
  Sql <- MCSql
  Requests <- MCRequests
  Clears = {"c1", "c2"}
  WheelVersions = {"1.0", "1.1"}
  MaxBuilds = 3
  SchemaOf <- MCSchemaOf
  MaxRows = 1
  MaxTries = 2
INVARIANTS ViewsStayHome ViewRunIsComplete ClearVerdictIsTrue PublishedWheelIsWhole LogTableIsSound BatchLogIsTrue
CHECK_DEADLOCK FALSE
