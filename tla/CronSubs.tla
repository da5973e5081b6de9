------------------------------- MODULE CronSubs -------------------------------
(***************************************************************************)
(* x/crontask's event subscriptions, composed with its tasks.  At the end  *)
(* of a block HandleBlockEvents walks the enabled subscriptions in id      *)
(* order and creates one task per matching event; nothing it does is       *)
(* rolled back when a later step of the same subscription fails.  How many *)
(* events of the block match a filter is the environment's choice.         *)
(* Subscription messages are taken between blocks, as transactions.        *)
(***************************************************************************)
EXTENDS CronTaskClaims

CONSTANTS
    SubArgs,            \* arguments of MsgCreateSubscription: creator, limit, fee
    ConfigExpiryLimit,  \* ExpiryLimit of the node's configuration
    MaxMatches,         \* bound: events of a block that match one filter
    MaxSubId,           \* bound on NextSubscriptionID
    StakeLevels         \* bonded stake an account may have

VARIABLES
    subs,               \* Subscriptions: id -> record, a partial function
    nextSubId,          \* NextSubscriptionID sequence
    subQueue,           \* enabled subscriptions HandleBlockEvents has yet to visit
    stake               \* staking: bonded coins of an account

subVars == <<subs, nextSubId, subQueue, stake>>
allVars == <<vars, subVars>>

SubStatus == {"enabled", "disabled", "error"}
Sub == [creator: Creators, limit: Nat \ {0}, fee: Nat \ {0}, status: SubStatus,
        expiry: Nat, count: Nat]

ASSUME SubArgsAssumption ==
    SubArgs \subseteq [creator: Creators, limit: Nat \ {0}, fee: Nat \ {0}]
ASSUME SubBoundsAssumption ==
    /\ {MaxMatches, MaxSubId} \subseteq Nat /\ ConfigExpiryLimit \in Nat \ {0}
    /\ StakeLevels # {} /\ StakeLevels \subseteq Nat

WithSub(id, sub) == [i \in DOMAIN subs \cup {id} |-> IF i = id THEN sub ELSE subs[i]]

\* the stake check: subscriptions of any status count
SubsOf(creator) == Cardinality({id \in DOMAIN subs : subs[id].creator = creator})
Staked(creator, count) == stake[creator] >= params.minStake * count

\* SendCoinsFromAccountToModule to the fee collector
CanPay(creator, fee) == Spendable(bal, creator) >= fee
PayFee(creator, fee) == bal' = Pay(creator, Collector, fee)

CreateSubscription(a) ==
    /\ phase = "deliver" /\ nextSubId <= MaxSubId
    /\ Staked(a.creator, SubsOf(a.creator) + 1)
    /\ CanPay(a.creator, a.fee) /\ PayFee(a.creator, a.fee)
    /\ subs' = WithSub(nextSubId,
                  [creator |-> a.creator, limit |-> a.limit, fee |-> a.fee,
                   status |-> "enabled", expiry |-> now + params.maxSubDuration, count |-> 0])
    /\ nextSubId' = nextSubId + 1
    /\ UNCHANGED <<store, nextTaskId, params, metrics, now, phase, local, subQueue, stake>>

\* a subscription in "error" is charged and extended, and stays in "error"
Renewed(sub) == IF sub.status = "disabled" THEN "enabled" ELSE sub.status

RenewSubscription(caller, id) ==
    /\ phase = "deliver" /\ subs[id].creator = caller
    /\ Staked(caller, SubsOf(caller))
    /\ CanPay(caller, subs[id].fee) /\ PayFee(caller, subs[id].fee)
    /\ subs' = [subs EXCEPT ![id].expiry = now + params.maxSubDuration,
                            ![id].status = Renewed(subs[id])]
    /\ UNCHANGED <<store, nextTaskId, params, metrics, now, phase, local,
                   nextSubId, subQueue, stake>>

DeleteSubscription(caller, id) ==
    /\ phase = "deliver" /\ subs[id].creator = caller
    /\ subs' = [i \in DOMAIN subs \ {id} |-> subs[i]]
    /\ UNCHANGED <<vars, nextSubId, subQueue, stake>>

\* staking, outside this module
Restake ==
    /\ phase = "deliver"
    /\ \E creator \in Creators, level \in StakeLevels :
          /\ level # stake[creator]
          /\ stake' = [stake EXCEPT ![creator] = level]
    /\ UNCHANGED <<vars, subs, nextSubId, subQueue>>

-----------------------------------------------------------------------------
(* HandleBlockEvents                                                       *)

\* the iterator over the ByStatus index, opened before any status changes
StartBlockEvents ==
    /\ phase = "deliver" /\ phase' = "events"
    /\ subQueue' = {id \in DOMAIN subs : subs[id].status = "enabled"}
    /\ UNCHANGED <<store, nextTaskId, params, metrics, bal, now, local, subs, nextSubId, stake>>

IsNext(id) == phase = "events" /\ id \in subQueue /\ \A i \in subQueue : id <= i

Visited(id, sub) ==
    /\ subs' = [subs EXCEPT ![id] = sub]
    /\ subQueue' = subQueue \ {id}
    /\ UNCHANGED <<params, metrics, now, phase, local, nextSubId, stake>>

Over_Never(sub) == FALSE
Over(sub) == sub.expiry <= now

DisableExpired(id) ==
    /\ IsNext(id) /\ Over(subs[id])
    /\ Visited(id, [subs[id] EXCEPT !.status = "disabled"])
    /\ UNCHANGED <<store, nextTaskId, bal>>

\* GetBalance does not deduct what the bank keeps locked
Covers_One(sub, matches) == bal[sub.creator] >= sub.fee
Covers(sub, matches) == bal[sub.creator] >= sub.fee * matches

DisableUnfunded(id) ==
    /\ IsNext(id) /\ ~Over(subs[id])
    /\ \E matches \in 1..MaxMatches : ~Covers(subs[id], matches)
    /\ Visited(id, [subs[id] EXCEPT !.status = "disabled"])
    /\ UNCHANGED <<store, nextTaskId, bal>>

\* the gas price is the subscription's, which CreateSubscription sets to zero
SubTask(sub) ==
    [creator |-> sub.creator, sched |-> now, expiry |-> now + ConfigExpiryLimit,
     limit |-> sub.limit, fee |-> sub.fee, price |-> 0,
     status |-> "SCHEDULED", created |-> now, execTs |-> 0]

\* of `objects' matches that decode, as many tasks as can be paid for
Payable(sub, objects) ==
    Cardinality({i \in 1..objects : sub.fee * i <= Spendable(bal, sub.creator)})

\* the fees collected for `made' tasks
TriggerFees_One(sub, made) == sub.fee
TriggerFees(sub, made) == sub.fee * made

\* Matches that are no JSON object are skipped but count in the funding check.
\* When a fee is refused the tasks made so far stay, and the status is "error".
Trigger(id) ==
    /\ IsNext(id) /\ ~Over(subs[id])
    /\ \E matches \in 0..MaxMatches : \E objects \in 0..matches :
          LET sub  == subs[id]
              made == Payable(sub, objects)
              new  == nextTaskId..(nextTaskId + made - 1)
          IN /\ Covers(sub, matches)
             /\ nextTaskId + objects <= MaxTaskId + 1
             /\ objects > 0 => now + ConfigExpiryLimit <= MaxTime
             /\ SetTasks([i \in new |-> SubTask(sub)])
             /\ nextTaskId' = nextTaskId + made
             /\ bal' = Pay(sub.creator, Collector, TriggerFees(sub, made))
             /\ Visited(id, [sub EXCEPT !.count = @ + made,
                                        !.status = IF made < objects THEN "error" ELSE @])

HandleBlockEvents ==
    \E id \in subQueue : DisableExpired(id) \/ DisableUnfunded(id) \/ Trigger(id)

NextBlock(step) ==
    /\ phase = "events" /\ subQueue = {}
    /\ NextHeader(step)
    /\ UNCHANGED subVars

-----------------------------------------------------------------------------
SubInit ==
    /\ Init
    /\ subs = [id \in {} |-> {}] /\ nextSubId = 1 /\ subQueue = {}
    /\ stake \in [Creators -> StakeLevels]

SubMessages ==
    \/ \E a \in SubArgs : CreateSubscription(a)
    \/ \E id \in DOMAIN subs, caller \in Creators :
          RenewSubscription(caller, id) \/ DeleteSubscription(caller, id)
    \/ Restake

SubNext ==
    \/ (BeginBlocker \/ Deliver) /\ UNCHANGED subVars
    \/ SubMessages
    \/ StartBlockEvents
    \/ HandleBlockEvents
    \/ \E step \in TimeSteps : NextBlock(step)

SubSpec == SubInit /\ [][SubNext]_allVars

\* blocks are finished, the next one comes, and block times grow
SubFairness ==
    /\ WF_allVars(BeginBlocker /\ UNCHANGED subVars)
    /\ WF_allVars(StartBlockEvents)
    /\ WF_allVars(HandleBlockEvents)
    /\ WF_allVars(\E step \in TimeSteps : NextBlock(step))
    /\ SF_allVars(\E step \in TimeSteps \ {0} : NextBlock(step))

SubFairSpec == SubSpec /\ SubFairness

-----------------------------------------------------------------------------
(* Properties                                                              *)

\* Every variable has its type.
SubTypeOK ==
    /\ TypeOK
    /\ DOMAIN subs \subseteq 1..(nextSubId - 1)
    /\ \A id \in DOMAIN subs : subs[id] \in Sub
    /\ nextSubId \in 1..(MaxSubId + 1)
    /\ subQueue \subseteq DOMAIN subs
    /\ stake \in [Creators -> StakeLevels]

\* HandleBlockEvents funds all matches before it charges the first, so a
\* subscription ends in "error", for good, only when the bank keeps coins of its
\* creator locked: no other creator's subscription can be lost half way.
ErrorOnlyWhenLocked ==
    \A id \in DOMAIN subs : subs[id].status = "error" => Locked[subs[id].creator] > 0

\* Whatever fails half way, the block's events charge a creator exactly one fee
\* for each task that a subscription of its adds, the trigger count grows by as
\* many, and tasks are only added under fresh ids.
TriggerStep ==
    phase = "events" =>
        \A id \in subQueue \ subQueue' :
            LET added == DOMAIN tasks' \ DOMAIN tasks IN
            /\ subs'[id].count = subs[id].count + Cardinality(added)
            /\ bal' = Pay(subs[id].creator, Collector, subs[id].fee * Cardinality(added))
            /\ \A i \in added :
                  /\ nextTaskId <= i /\ i < nextTaskId'
                  /\ tasks'[i].creator = subs[id].creator /\ tasks'[i].fee = subs[id].fee
            /\ DOMAIN tasks \subseteq DOMAIN tasks'
TriggerCharged == [][TriggerStep]_allVars

\* An expired subscription does not stay enabled: it is disabled at the end of a
\* block unless it was renewed or deleted before.
Lapsed(id) == id \in DOMAIN subs /\ subs[id].status = "enabled" /\ subs[id].expiry <= now
LapsedIsDisabled == \A id \in 1..MaxSubId : Lapsed(id) ~> ~Lapsed(id)

\* types/genesis.go requires of every task that its "gas price must be positive":
\* a chain whose state ExportGenesis wrote can start again from it.
ExportIsValid == \A id \in DOMAIN tasks : ValidTask(tasks[id])
=============================================================================
