CONSTANTS
  dys = dys
  usd = usd
  alice = alice
  bob = bob
  NFTs = {n1}
  Accounts = {alice, bob}
  Authority = gov
  Pool = pool
  Escrow = escrow
  Nobody = nobody
  ClassAdmin = alice
  ClassOwner = alice
  Denoms = {dys}
  InitFunds = 2
  InitClass <- MCListing
  ClassSettings <- MCOneListing
  DecOne = 10
  Year = 3
  MaxAmount = 2
  MaxBids = 3
  MaxTime = 1
SPECIFICATION FairSpec
INVARIANTS IndexFromLedger BidIsRecorded OutbidChain
PROPERTIES LoserIsRefunded KeepsAuction 
