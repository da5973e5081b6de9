------------------------------ MODULE MCCronSubs ------------------------------
(* Values of CronSubs's constants for TLC. *)
EXTENDS CronSubs

CONSTANTS alice, bob, feeCollector

\* one task of a message competes with those of the subscriptions
MCArgs == {[creator |-> bob, delay |-> 0, life |-> 0, limit |-> 1, fee |-> 1]}

SubArg(c, g, f) == [creator |-> c, limit |-> g, fee |-> f]
MCSubArgs == {SubArg(alice, 1, 1), SubArg(bob, 2, 1)}

\* part of alice's coins is vesting
MCLocked == [c \in {alice, bob} |-> IF c = alice THEN 1 ELSE 0]

MCParamSet ==
    {[blockGasLimit |-> 2, expiryLimit |-> 1, maxScheduledTime |-> 1, cleanUpTime |-> 1,
      maxSubDuration |-> 1, minStake |-> 1]}
=============================================================================
