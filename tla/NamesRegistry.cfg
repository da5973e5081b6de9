CONSTANTS
  Users = {alice}
  Authority = gov
  Pool = pool
  Names = {root, x}
  Root = root
  Reserved = {}
  Salts = {salt}
  Valuations = {2}
  Nobody = nobody
  TTL = 1
  FeePct = 5
  DecOne = 10
  HopLimit = 3
  ResolveLimit = 4
  InitFunds = 1
  MaxTime = 2
  TimeSteps = {0, 1}
  MaxCommitments = 1
  MaxEntries = 3
  
SPECIFICATION FairSpec
PROPERTIES DestinationResolves StaysFound PruneMeetsReveal CommitmentGoes
