------------------------------ MODULE MCCronTask ------------------------------
(* Values of CronTask's constants for TLC. *)
EXTENDS CronTaskClaims

CONSTANTS alice, bob, feeCollector

Args(c, d, l, g, f) == [creator |-> c, delay |-> d, life |-> l, limit |-> g, fee |-> f]

MCArgs ==
    {Args(alice, 0, 0, 2, 2), Args(bob, 1, 1, 1, 1), Args(bob, 0, 1, 2, 1)}

MCUnlocked == [c \in {alice, bob} |-> 0]

MCParams(gas, clean) ==
    [blockGasLimit |-> gas, expiryLimit |-> 2, maxScheduledTime |-> 1, cleanUpTime |-> clean,
     maxSubDuration |-> 1, minStake |-> 1]
MCParamSet == {MCParams(3, 1), MCParams(2, 0)}
MCOneParam == {MCParams(3, 1)}
=============================================================================
