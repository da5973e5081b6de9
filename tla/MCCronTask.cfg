CONSTANTS
  alice = alice
  bob = bob
  feeCollector = feeCollector
  Creators = {alice, bob}
  Collector = feeCollector
  TaskArgs <- MCArgs
  ParamSet <- MCParamSet
  InitBalance = 2
  Locked <- MCUnlocked
  PriceScale = 3
  PriceCap = 2
  MaxBlockGas = 4
  MaxOvershoot = 1
  MaxPay = 1
  MaxTaskId = 3
  MaxTime = 3
  TimeSteps = {0, 1, 2}
SPECIFICATION Spec
INVARIANTS IndexExact OrphansAreDone QueueSound SettledInWindow NoPriorityInversion
PROPERTIES FeeOncePerRun CleanUpExact 
