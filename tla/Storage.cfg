CONSTANTS
  alice = alice
  Owners = {alice}
  Indexes = {1, 2, 3}
  Sizes = {0, 1, 2}
  ParamSet <- MCParamSet
  StakeLevels = {1, 2}
  DecOne = 2
  Prefixes <- MCPrefixes
  Requests <- MCRequests
SPECIFICATION ListSpec
INVARIANTS MetricsExact PagesAreExact
PROPERTIES WritesAreStaked
