------------------------------- MODULE CronTask -------------------------------
(***************************************************************************)
(* x/crontask: tasks that the chain itself runs at the start of a block.   *)
(*                                                                         *)
(* The module keeps a primary map of tasks and three secondary indexes in  *)
(* the KV store, and every decision of BeginBlocker is taken by scanning   *)
(* an index and then loading the record: what one says and the other does  *)
(* not is where this component can go wrong.  BeginBlocker is modelled as  *)
(* the steps of its loops, driven by `phase'; transactions are delivered   *)
(* between two blocks.  What a task's messages do is abstracted to their   *)
(* effect on this component: tasks deleted, a task created, coins moved.   *)
(* An operator Name_Fault is a faulty variant of Name: it stands for a bug  *)
(* that the properties must catch, and no specification uses it.           *)
(***************************************************************************)
EXTENDS Integers, FiniteSets, FiniteSetsExt

CONSTANTS
    Creators,       \* accounts that create tasks
    Collector,      \* the "fee_collector" module account
    TaskArgs,       \* arguments of MsgCreateTask: creator, delay, life, limit, fee
    ParamSet,       \* the parameter values governance may choose
    InitBalance,    \* coins of every creator at the start
    Locked,         \* coins of a creator that the bank does not let it spend
    PriceScale,     \* scale of the decimal gas price in the index key (10^12)
    PriceCap,       \* the largest price the key's 8 bytes hold (2^64 - 1)
    MaxBlockGas,    \* consensus limit of the block gas meter
    MaxOvershoot,   \* bound: how far the last operation runs past a gas limit
    MaxPay,         \* bound: coins a task's messages move
    MaxTaskId,      \* bound on NextTaskID
    MaxTime,        \* bound on the block time and on expiry timestamps
    TimeSteps       \* seconds between two block headers

VARIABLES
    tasks,          \* Tasks: task id -> record, a partial function
    nextTaskId,     \* NextTaskID sequence
    addrIndex,      \* creator | id
    tsIndex,        \* status | timestamp | id
    gasIndex,       \* status | scaled gas price | id
    params,         \* Params item
    metrics,        \* Metrics item of the last block
    bal,            \* bank balances in the bond denom
    now,            \* block time
    phase,          \* where the block is: a step of BeginBlocker, "deliver",
                    \* or "events" (entered only with subscriptions)
    queue,          \* pendingIDs not processed yet, with their index price
    cronGasUsed,    \* BeginBlocker's cronGasUsed
    selected,       \* tasks counted by selectedCount
    skipped         \* tasks counted by pendingCount

store == <<tasks, addrIndex, tsIndex, gasIndex>>
local == <<queue, cronGasUsed, selected, skipped>>
vars  == <<store, nextTaskId, params, metrics, bal, now, phase, local>>

Accounts == Creators \cup {Collector}
Active   == {"SCHEDULED", "PENDING"}
Terminal == {"DONE", "FAILED", "EXPIRED"}
Status   == Active \cup Terminal
Phases   == {"expire", "due", "exec", "deliver", "events"}

Task == [creator: Creators, sched: Nat, expiry: Nat, limit: Nat \ {0}, fee: Nat,
         price: Nat, status: Status, created: Nat, execTs: Nat]
Params == [blockGasLimit: Nat \ {0}, expiryLimit: Nat \ {0},
           maxScheduledTime: Nat \ {0}, cleanUpTime: Nat,
           maxSubDuration: Nat, minStake: Nat]

\* life = 0 stands for a message without an expiry timestamp
ASSUME ArgsAssumption ==
    TaskArgs \subseteq [creator: Creators, delay: Nat, life: Nat, limit: Nat, fee: Nat]
ASSUME ParamsAssumption == ParamSet # {} /\ ParamSet \subseteq Params
ASSUME AccountAssumption == Collector \notin Creators
ASSUME BoundsAssumption ==
    /\ {InitBalance, PriceScale, PriceCap} \subseteq Nat
    /\ {MaxBlockGas, MaxOvershoot, MaxPay, MaxTaskId} \subseteq Nat
    /\ MaxTime \in Nat \ {0}
    /\ TimeSteps \subseteq Nat
    /\ Locked \in [Creators -> Nat]

-----------------------------------------------------------------------------
(* The store: SetTask, RemoveTask and the index keys.                      *)

IndexTs_ExpiredByRun(t) ==
    IF t.status = "SCHEDULED" THEN t.sched
    ELSE IF t.status = "PENDING" THEN t.created
    ELSE t.execTs
IndexTs(t) ==
    IF t.status = "SCHEDULED" THEN t.sched
    ELSE IF t.status = "PENDING" THEN t.created
    ELSE IF t.status = "EXPIRED" THEN t.expiry
    ELSE t.execTs

AddrKey(id, t) == <<t.creator, id>>
TsKey(id, t)   == <<t.status, IndexTs(t), id>>
GasKey(id, t)  == <<t.status, t.price, id>>

AddrKeys(f, ids) == {AddrKey(id, f[id]) : id \in ids}
TsKeys(f, ids)   == {TsKey(id, f[id]) : id \in ids}
GasKeys(f, ids)  == {GasKey(id, f[id]) : id \in ids}

\* the tasks whose previous version SetTask finds
Replaced_NotLooked(set) == {}
Replaced(set) == DOMAIN set \cap DOMAIN tasks

\* SetTask of every record of `set' (the keys of the version it replaces go
\* first), then the deletions `del' that a cached context commits on top.  A
\* deletion in the cache saw the records as they were before `set'.
Write(set, del) ==
    LET over == Replaced(set) IN
    /\ tasks' = [id \in (DOMAIN tasks \cup DOMAIN set) \ del |->
                    IF id \in DOMAIN set THEN set[id] ELSE tasks[id]]
    /\ addrIndex' = ((addrIndex \ AddrKeys(tasks, over)) \cup AddrKeys(set, DOMAIN set))
                        \ AddrKeys(tasks, del)
    /\ tsIndex' = ((tsIndex \ TsKeys(tasks, over)) \cup TsKeys(set, DOMAIN set))
                        \ TsKeys(tasks, del)
    /\ gasIndex' = ((gasIndex \ GasKeys(tasks, over)) \cup GasKeys(set, DOMAIN set))
                        \ GasKeys(tasks, del)

SetTasks(set)    == Write(set, {})

RemoveTasks_RecordOnly(ids) ==
    /\ tasks' = [id \in DOMAIN tasks \ ids |-> tasks[id]]
    /\ UNCHANGED <<addrIndex, tsIndex, gasIndex>>
RemoveTasks(ids) == Write([id \in {} |-> {}], ids)

\* the records of `ids' with the status a block gives them without running them
Marked_TimeOnly(ids, status) ==
    [id \in ids |-> [tasks[id] EXCEPT !.execTs = now]]
Marked(ids, status) ==
    [id \in ids |-> [tasks[id] EXCEPT !.status = status, !.execTs = now]]

-----------------------------------------------------------------------------
(* MsgCreateTask, MsgDeleteTask, MsgUpdateParams                           *)

\* the checks of CreateTask: schedule, expiry, gas limit, fee
Accepts(a) ==
    /\ a.delay <= params.maxScheduledTime
    /\ a.limit > 0 /\ a.limit <= params.blockGasLimit
    /\ a.fee > 0

\* TaskGasPrice as the index key carries it: scaled, truncated, capped
IndexPrice(fee, limit) ==
    LET scaled == (fee * PriceScale) \div limit
    IN IF scaled <= PriceCap THEN scaled ELSE PriceCap

NewTask(a) ==
    LET sched == now + a.delay IN
    [creator |-> a.creator, sched |-> sched,
     expiry |-> sched + (IF a.life = 0 THEN params.expiryLimit ELSE a.life),
     limit |-> a.limit, fee |-> a.fee, price |-> IndexPrice(a.fee, a.limit),
     status |-> "SCHEDULED", created |-> now, execTs |-> 0]

\* the functions {nextTaskId -> a new task} that the bounds leave room for
NewRecords ==
    {[id \in {nextTaskId} |-> NewTask(a)] :
        a \in {b \in TaskArgs : /\ Accepts(b)
                                /\ nextTaskId <= MaxTaskId
                                /\ NewTask(b).expiry <= MaxTime}}

CreateTask ==
    /\ phase = "deliver"
    /\ \E new \in NewRecords : SetTasks(new)
    /\ nextTaskId' = nextTaskId + 1
    /\ UNCHANGED <<params, metrics, bal, now, phase, local>>

\* only the creator may delete, whatever the task's status
DeleteTask(caller, id) ==
    /\ phase = "deliver"
    /\ id \in DOMAIN tasks
    /\ tasks[id].creator = caller
    /\ RemoveTasks({id})
    /\ UNCHANGED <<nextTaskId, params, metrics, bal, now, phase, local>>

UpdateParams ==
    /\ phase = "deliver"
    /\ params' \in ParamSet \ {params}
    /\ UNCHANGED <<store, nextTaskId, metrics, bal, now, phase, local>>

Spendable(b, a) == b[a] - Locked[a]

\* the rest of the chain moves coins between the accounts of the model
Pay(from, to, amount) ==
    [bal EXCEPT ![from] = @ - amount, ![to] = @ + amount]

Transfer ==
    /\ phase = "deliver"
    /\ \E from \in Creators, to \in Creators, amount \in 1..MaxPay :
          /\ from # to /\ amount <= Spendable(bal, from)
          /\ bal' = Pay(from, to, amount)
    /\ UNCHANGED <<store, nextTaskId, params, metrics, now, phase, local>>

-----------------------------------------------------------------------------
(* BeginBlocker                                                            *)

\* checkExpiredTasks: found by index entry, judged by record
Overdue_ScheduledOnly ==
    {id \in DOMAIN tasks : tasks[id].status = "SCHEDULED" /\ tasks[id].expiry <= now}
Overdue ==
    {id \in DOMAIN tasks :
        /\ \E k \in tsIndex : k[1] \in Active /\ k[3] = id
        /\ tasks[id].expiry <= now}

CheckExpiredTasks ==
    /\ phase = "expire"
    /\ SetTasks(Marked(Overdue, "EXPIRED"))
    /\ phase' = "due"
    /\ UNCHANGED <<nextTaskId, params, metrics, bal, now, local>>

Due_Early == {id \in DOMAIN tasks : tasks[id].status = "SCHEDULED"}
Due ==
    {id \in DOMAIN tasks :
        /\ \E k \in tsIndex : k[1] = "SCHEDULED" /\ k[2] <= now /\ k[3] = id
        /\ tasks[id].sched <= now}

\* moveDueTasks, then the scan of the gas price index that collects pendingIDs
MoveDueTasks ==
    /\ phase = "due"
    /\ SetTasks([id \in Due |-> [tasks[id] EXCEPT !.status = "PENDING"]])
    /\ queue' = {<<k[2], k[3]>> : k \in {g \in gasIndex' : g[1] = "PENDING"}}
    /\ phase' = "exec"
    /\ UNCHANGED <<nextTaskId, params, metrics, bal, now, cronGasUsed, selected, skipped>>

\* the reverse iterator: price first, then id, both descending
Before(p, q) == p[1] > q[1] \/ (p[1] = q[1] /\ p[2] > q[2])

IsHead_AnyOrder(p) == p \in queue
IsHead(p) == p \in queue /\ \A q \in queue \ {p} : Before(p, q)

Fits(t) ==
    /\ t.limit <= MaxBlockGas - cronGasUsed
    /\ t.limit <= params.blockGasLimit - cronGasUsed

\* deleted since it was collected
PassGone(p) ==
    /\ phase = "exec" /\ IsHead(p)
    /\ p[2] \notin DOMAIN tasks
    /\ queue' = queue \ {p}
    /\ UNCHANGED <<store, nextTaskId, params, metrics, bal, now, phase,
                   cronGasUsed, selected, skipped>>

\* no room left in the block: the task stays PENDING
PassTooBig(p) ==
    /\ phase = "exec" /\ IsHead(p)
    /\ p[2] \in DOMAIN tasks
    /\ tasks[p[2]].expiry > now
    /\ ~Fits(tasks[p[2]])
    /\ queue' = queue \ {p}
    /\ skipped' = skipped \cup {p[2]}
    /\ UNCHANGED <<store, nextTaskId, params, metrics, bal, now, phase,
                   cronGasUsed, selected>>

\* settled without running: overdue after all, or the fee cannot be collected
Reject(p) ==
    /\ phase = "exec" /\ IsHead(p)
    /\ p[2] \in DOMAIN tasks
    /\ LET t    == tasks[p[2]]
           late == t.expiry <= now
       IN /\ late \/ (Fits(t) /\ Spendable(bal, t.creator) < t.fee)
          /\ SetTasks(Marked({p[2]}, IF late THEN "EXPIRED" ELSE "FAILED"))
          /\ selected' = IF late THEN selected ELSE selected \cup {p[2]}
    /\ queue' = queue \ {p}
    /\ UNCHANGED <<nextTaskId, params, metrics, bal, now, phase, cronGasUsed, skipped>>

\* the fee is collected and `gas' consumed; past the consensus limit the block
\* gas meter panics and the node makes no further step
StartRun(p, gas) ==
    /\ phase = "exec" /\ IsHead(p)
    /\ p[2] \in DOMAIN tasks
    /\ LET t == tasks[p[2]] IN
          /\ t.expiry > now
          /\ Fits(t)
          /\ Spendable(bal, t.creator) >= t.fee
    /\ cronGasUsed + gas <= MaxBlockGas
    /\ cronGasUsed' = cronGasUsed + gas
    /\ selected' = selected \cup {p[2]}
    /\ queue' = queue \ {p}
    /\ UNCHANGED <<params, metrics, now, phase, skipped>>

FeePaid_ByPrice(id) == Pay(tasks[id].creator, Collector, tasks[id].price)
FeePaid(id) == Pay(tasks[id].creator, Collector, tasks[id].fee)

\* balances the messages may leave: none moved, or one payment between accounts
Payments_Overdrawn(b) ==
    {[b EXCEPT ![x[1]] = @ - MaxPay, ![x[2]] = @ + MaxPay] : x \in Creators \X Creators}
Payments(b) ==
    {b} \cup {[b EXCEPT ![x[1]] = @ - x[3], ![x[2]] = @ + x[3]] :
                  x \in {y \in Creators \X Creators \X (1..MaxPay) :
                            y[1] # y[2] /\ y[3] <= Spendable(b, y[1])}}

\* every message succeeded: SetTask in the block's context, then the cache is
\* written on top of it.  The messages ran when the task was still PENDING;
\* they may have deleted any task, this one included, and created one.
RunDone(p) ==
    \E gas \in 1..tasks[p[2]].limit, del \in SUBSET DOMAIN tasks,
       new \in NewRecords \cup {[id \in {} |-> {}]} :
        /\ StartRun(p, gas)
        /\ LET ran == Marked({p[2]}, "DONE") IN
           Write([id \in {p[2]} \cup DOMAIN new |->
                     IF id \in DOMAIN new THEN new[id] ELSE ran[id]], del)
        /\ nextTaskId' = IF DOMAIN new = {} THEN nextTaskId ELSE nextTaskId + 1
        /\ bal' \in Payments(FeePaid(p[2]))

\* a message failed, panicked or ran out of gas: the cache is dropped, the fee
\* stays collected.  The meter reads past the limit after running out of gas.
RunFailed(p) ==
    \E gas \in 1..(tasks[p[2]].limit + MaxOvershoot) :
        /\ StartRun(p, gas)
        /\ SetTasks(Marked({p[2]}, "FAILED"))
        /\ bal' = FeePaid(p[2])
        /\ UNCHANGED nextTaskId

ExecPending ==
    \E p \in queue :
        \/ PassGone(p)
        \/ PassTooBig(p)
        \/ Reject(p)
        \/ p[2] \in DOMAIN tasks /\ RunDone(p)
        \/ p[2] \in DOMAIN tasks /\ RunFailed(p)

\* removeOldTasks: found by index entry alone, the timestamp is the key's
Old ==
    {id \in DOMAIN tasks :
        /\ params.cleanUpTime # 0
        /\ \E k \in tsIndex :
              k[1] \in Terminal /\ k[2] <= now - params.cleanUpTime /\ k[3] = id}

\* SetMetrics, removeOldTasks, and BeginBlocker's local variables end
FinishBeginBlock ==
    /\ phase = "exec" /\ queue = {}
    /\ metrics' = [gas |-> cronGasUsed, executed |-> Cardinality(selected),
                   pending |-> Cardinality(skipped)]
    /\ RemoveTasks(Old)
    /\ phase' = "deliver"
    /\ cronGasUsed' = 0 /\ selected' = {} /\ skipped' = {}
    /\ UNCHANGED <<nextTaskId, params, bal, now, queue>>

NoMetrics == [gas |-> 0, executed |-> 0, pending |-> 0]

BeginBlocker == CheckExpiredTasks \/ MoveDueTasks \/ ExecPending \/ FinishBeginBlock

\* the next block's header carries a later, or in whole seconds the same, time
NextHeader(step) ==
    /\ now + step <= MaxTime
    /\ now' = now + step
    /\ phase' = "expire"
    /\ UNCHANGED <<store, nextTaskId, params, metrics, bal, local>>

EndBlock(step) == phase = "deliver" /\ NextHeader(step)

\* The chain is exported and starts again from the export: InitGenesis takes the
\* tasks only if ValidateGenesis does, and files them anew; metrics are not kept.
ValidTask(t) == t.sched > 0 /\ t.expiry > t.sched /\ t.price > 0

Restart ==
    /\ phase = "deliver"
    /\ \A id \in DOMAIN tasks : ValidTask(tasks[id])
    /\ addrIndex' = AddrKeys(tasks, DOMAIN tasks)
    /\ tsIndex' = TsKeys(tasks, DOMAIN tasks)
    /\ gasIndex' = GasKeys(tasks, DOMAIN tasks)
    /\ metrics' = NoMetrics
    /\ UNCHANGED <<tasks, nextTaskId, params, bal, now, phase, local>>

-----------------------------------------------------------------------------
Init ==
    /\ tasks = [id \in {} |-> {}]
    /\ nextTaskId = 1
    /\ addrIndex = {} /\ tsIndex = {} /\ gasIndex = {}
    /\ params \in ParamSet
    /\ metrics = NoMetrics
    /\ bal = [a \in Accounts |-> IF a = Collector THEN 0 ELSE InitBalance]
    /\ now = 1
    /\ phase = "deliver"
    /\ queue = {} /\ cronGasUsed = 0 /\ selected = {} /\ skipped = {}

Deliver ==
    \/ CreateTask
    \/ \E caller \in Creators, id \in DOMAIN tasks : DeleteTask(caller, id)
    \/ UpdateParams
    \/ Transfer
    \/ Restart

Next ==
    \/ BeginBlocker
    \/ Deliver
    \/ \E step \in TimeSteps : EndBlock(step)

Spec == Init /\ [][Next]_vars

\* blocks keep coming, and their times grow
Fairness ==
    /\ WF_vars(BeginBlocker)
    /\ WF_vars(\E step \in TimeSteps : EndBlock(step))
    /\ SF_vars(\E step \in TimeSteps \ {0} : EndBlock(step))

FairSpec == Spec /\ Fairness

-----------------------------------------------------------------------------
(* Properties                                                              *)

\* Every variable has its type, the three indexes hold keys of their shape.
StoreOK ==
    /\ nextTaskId \in 1..(MaxTaskId + 1)
    /\ DOMAIN tasks \subseteq 1..(nextTaskId - 1)
    /\ \A id \in DOMAIN tasks : tasks[id] \in Task
    /\ addrIndex \subseteq Creators \X Nat
    /\ tsIndex \subseteq Status \X Nat \X Nat
    /\ gasIndex \subseteq Status \X Nat \X Nat
TypeOK ==
    /\ StoreOK
    /\ params \in ParamSet
    /\ metrics \in [gas: Nat, executed: Nat, pending: Nat]
    /\ bal \in [Accounts -> Nat]
    /\ now \in 1..MaxTime
    /\ phase \in Phases
    /\ queue \subseteq Nat \X Nat
    /\ cronGasUsed \in 0..MaxBlockGas
    /\ selected \subseteq 1..MaxTaskId /\ skipped \subseteq 1..MaxTaskId

\* No task can be lost to the scheduler or listed twice: every record is under
\* its three current keys, and an entry of a live task is never a stale one
\* (addIndexes, removeIndexes and the cached write of executeTask).
IndexExact ==
    /\ AddrKeys(tasks, DOMAIN tasks) \subseteq addrIndex
    /\ TsKeys(tasks, DOMAIN tasks) \subseteq tsIndex
    /\ GasKeys(tasks, DOMAIN tasks) \subseteq gasIndex
    /\ \A k \in addrIndex : k[2] \in DOMAIN tasks /\ k = AddrKey(k[2], tasks[k[2]])
    /\ \A k \in tsIndex : k[3] \in DOMAIN tasks => k = TsKey(k[3], tasks[k[3]])
    /\ \A k \in gasIndex : k[3] \in DOMAIN tasks => k = GasKey(k[3], tasks[k[3]])

\* An entry whose record is gone is harmless to the scheduler: it belongs to a
\* task that deleted itself while it ran, is filed under DONE, and its id is
\* never given to another task.
OrphansAreDone ==
    /\ \A k \in tsIndex : k[3] \in DOMAIN tasks \/ (k[1] = "DONE" /\ k[3] < nextTaskId)
    /\ \A k \in gasIndex : k[3] \in DOMAIN tasks \/ (k[1] = "DONE" /\ k[3] < nextTaskId)

\* What BeginBlocker collected stays true until it is used, whatever the
\* messages of earlier tasks do: a collected task that still exists is PENDING
\* at that price, due, and not overdue.
QueueSound ==
    \A p \in queue : p[2] \in DOMAIN tasks =>
        /\ tasks[p[2]].status = "PENDING"
        /\ tasks[p[2]].price = p[1]
        /\ tasks[p[2]].sched <= now /\ now < tasks[p[2]].expiry

\* A task is settled by running only inside its window, and expired only after it.
SettledInWindow ==
    \A id \in DOMAIN tasks :
        LET t == tasks[id] IN
        /\ t.status \in {"DONE", "FAILED"} => t.sched <= t.execTs /\ t.execTs < t.expiry
        /\ t.status = "EXPIRED" => t.expiry <= t.execTs

\* A task that was passed over for lack of gas is overtaken, in that block,
\* only by tasks with a smaller gas limit.
NoPriorityInversion ==
    \A i \in skipped \cap DOMAIN tasks, j \in selected \cap DOMAIN tasks :
        Before(<<tasks[i].price, i>>, <<tasks[j].price, j>>)
            => tasks[j].limit < tasks[i].limit

\* Tasks of one block consume at most the module's limit and one overshoot.
GasBound == cronGasUsed <= params.blockGasLimit + MaxOvershoot

\* What the block's progress means for the data, which the properties above rest
\* on: BeginBlocker's variables are fresh outside its loop, a PENDING task is due,
\* an overdue one has been expired before the due ones move, a task processed in
\* this block came before those still queued, and one that was passed over has
\* no room for the rest of the block.
BlockInv ==
    /\ phase # "exec" => queue = {} /\ cronGasUsed = 0 /\ selected = {} /\ skipped = {}
    /\ \A id \in DOMAIN tasks : tasks[id].status = "PENDING" => tasks[id].sched <= now
    /\ phase = "due" =>
          \A id \in DOMAIN tasks : tasks[id].status \in Active => now < tasks[id].expiry
    /\ \A p \in queue : p[2] \in 1..(nextTaskId - 1)
    /\ selected \cup skipped \subseteq 1..(nextTaskId - 1)
    /\ \A id \in (selected \cup skipped) \cap DOMAIN tasks, p \in queue :
          Before(<<tasks[id].price, id>>, p)
    /\ \A id \in skipped \cap DOMAIN tasks : ~Fits(tasks[id])

\* A settled task is never run, charged or rewritten again: a record only moves
\* forward, SCHEDULED to PENDING to settled, and nothing but its status and its
\* execution time ever changes.
Forward(s, t) ==
    \/ t = s
    \/ s.status = "SCHEDULED" /\ t.status \in {"PENDING", "EXPIRED"}
    \/ s.status = "PENDING" /\ t.status \in Terminal
LifecycleStep ==
    /\ \A id \in DOMAIN tasks \cap DOMAIN tasks' :
          /\ Forward(tasks[id], tasks'[id])
          /\ tasks'[id] = [tasks[id] EXCEPT !.status = tasks'[id].status,
                                            !.execTs = tasks'[id].execTs]
    /\ \A id \in DOMAIN tasks' \ DOMAIN tasks :
          id = nextTaskId /\ nextTaskId' = nextTaskId + 1 /\ tasks'[id].status = "SCHEDULED"
Lifecycle == [][LifecycleStep]_vars

\* The fee collector is paid only for one task at a time: one that was PENDING
\* and that this very step selects and settles or deletes, and it is paid the fee once.
FeeStep ==
    bal'[Collector] # bal[Collector] =>
        \E id \in selected' \ selected :
            /\ id \in DOMAIN tasks
            /\ tasks[id].status = "PENDING"
            /\ bal'[Collector] = bal[Collector] + tasks[id].fee
            /\ id \in DOMAIN tasks' => tasks'[id].status \in {"DONE", "FAILED"}
FeeOncePerRun == [][FeeStep]_vars

\* The clean-up goes by index entries, yet removes exactly the settled tasks
\* whose retention is over: never a live one, and none is left behind.
CleanStep ==
    phase = "exec" /\ phase' = "deliver" =>
        \A id \in DOMAIN tasks :
            LET t == tasks[id] IN
            (id \notin DOMAIN tasks') <=>
                /\ t.status \in Terminal
                /\ params.cleanUpTime # 0
                /\ (IF t.status = "EXPIRED" THEN t.expiry ELSE t.execTs)
                       + params.cleanUpTime <= now
CleanUpExact == [][CleanStep]_vars

\* Every task that is created is run, expired or deleted in the end, however
\* many better paying tasks keep arriving.
Waiting(id) == id \in DOMAIN tasks /\ tasks[id].status \in Active
EventuallySettled == \A id \in 1..MaxTaskId : Waiting(id) ~> ~Waiting(id)
=============================================================================
