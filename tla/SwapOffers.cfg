CONSTANTS
  Users = {alice, bob}
  Module = whaleswap
  Vault = vault
  X = x
  Y = y
  DecOne = 10
  FeeRate = 1
  NoPool = nopool
  InitFunds = 6
  Reserves <- MCReserves
  Additions = {}
  ShareAmounts = {}
  SwapAmounts = {}
  MaxPools = 1
  MaxUses = 2
  Shapes <- MCShapes
  Pfands <- MCPfands
  Routes <- MCRoutes
  MaxOffers = 2
  MaxTrades = 2
SYMMETRY Symmetry
SPECIFICATION Spec
INVARIANTS TypeOK  IndexExact
PROPERTIES OnlyByPrice SwapsAgree
