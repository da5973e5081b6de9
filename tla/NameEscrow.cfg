CONSTANTS
  dys = dys
  usd = usd
  alice = alice
  bob = bob
  NFTs = {n1, n2}
  Accounts = {alice, bob}
  Authority = gov
  Pool = pool
  Escrow = escrow
  Nobody = nobody
  ClassAdmin = alice
  ClassOwner = alice
  Denoms = {dys}
  InitFunds = 1
  InitClass <- MCListing
  ClassSettings <- MCOneListing
  DecOne = 10
  Year = 3
  MaxAmount = 1
  MaxBids = 2
  MaxTime = 1
SPECIFICATION Spec
INVARIANTS EscrowCovers
PROPERTIES SurplusIsStranded
