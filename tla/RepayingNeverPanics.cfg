CONSTANTS
  Users = {alice, bob}
  Module = whaleswap
  Vault = vault
  X = x
  Y = y
  DecOne = 10
  FeeRate = 1
  NoPool = nopool
  InitFunds = 30
  Reserves <- MCReserves
  Additions <- MCAdditions
  ShareAmounts = {5}
  SwapAmounts = {3}
  MaxPools = 1
  MaxUses = 2
  Rate = 5
  MinRatio = 12
  LiqThreshold = 11
  MaxBorrow = 5
  CloseDelay = 1
  LiqDelay = 1
  Borrows = {4}
  Collaterals = {8}
  Changes = {4}
  Payments = {3, 8}
  Fractions = {5, 10}
  MaxLoans = 1
  MaxHeight = 2
SYMMETRY Symmetry
SPECIFICATION Spec
INVARIANTS RepayingNeverPanics
