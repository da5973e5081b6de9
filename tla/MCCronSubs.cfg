CONSTANTS
  alice = alice
  bob = bob
  feeCollector = feeCollector
  Creators = {alice, bob}
  Collector = feeCollector
  TaskArgs <- MCArgs
  ParamSet <- MCParamSet
  InitBalance = 2
  Locked <- MCLocked
  PriceScale = 3
  PriceCap = 2
  MaxBlockGas = 2
  MaxOvershoot = 0
  MaxPay = 1
  MaxTaskId = 2
  MaxTime = 2
  TimeSteps = {0, 1}
  SubArgs <- MCSubArgs
  ConfigExpiryLimit = 1
  MaxMatches = 2
  MaxSubId = 2
  StakeLevels = {1, 2}
SPECIFICATION SubFairSpec
INVARIANTS SubTypeOK ErrorOnlyWhenLocked
   
