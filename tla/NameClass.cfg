CONSTANTS
  dys = dys
  usd = usd
  alice = alice
  bob = bob
  NFTs = {n1}
  Accounts = {alice}
  Authority = gov
  Pool = pool
  Escrow = escrow
  Nobody = nobody
  ClassAdmin = gov
  ClassOwner = gov
  Denoms = {dys, usd}
  InitFunds = 2
  InitClass <- MCNames
  ClassSettings <- MCTwoPeriods
  DecOne = 10
  Year = 3
  MaxAmount = 2
  MaxBids = 1
  MaxTime = 2
SPECIFICATION Spec
INVARIANTS ClaimFeeFits ExpiryInReach
