------------------------------ MODULE CronProofs ------------------------------
(***************************************************************************)
(* Proofs about CronTask for every number of tasks, creators and gas units *)
(* and every bound, not only the checked ones, and about CronSubs for any  *)
(* creators, parameters and stake levels too.  The inductive invariant of  *)
(* the tasks is the conjunction IInv; the store is handled once, by        *)
(* WriteStore, for every way in which the code writes tasks.  From it      *)
(* follow what a step may do to a task, to the fee collector and to the    *)
(* settled tasks, and that CronTask, seen through Entries, is a TaskBook.  *)
(* With subscriptions the tasks keep IInv; a subscription is lost half way *)
(* only to locked coins, and the events of a block charge one fee for each *)
(* task they add.                                                          *)
(***************************************************************************)
EXTENDS CronSubs, FiniteSetTheorems, TLAPS

IInv ==
    /\ TypeOK /\ IndexExact /\ OrphansAreDone
    /\ BlockInv /\ QueueSound /\ SettledInWindow /\ NoPriorityInversion /\ GasBound

-----------------------------------------------------------------------------
(* The store                                                               *)

\* what the callers of Write guarantee: known or fresh ids, well-formed records
\* with the creators they had, and a record that is written and then deleted is DONE
Writable(set, del) ==
    /\ del \subseteq DOMAIN tasks
    /\ \A id \in DOMAIN set \ DOMAIN tasks : nextTaskId <= id
    /\ \A id \in DOMAIN set : set[id] \in Task
    /\ \A id \in DOMAIN set \cap DOMAIN tasks : set[id].creator = tasks[id].creator
    /\ \A id \in DOMAIN set \cap del : set[id].status = "DONE"
    /\ nextTaskId' \in nextTaskId..(MaxTaskId + 1)
    /\ DOMAIN set \subseteq 1..(nextTaskId' - 1)

\* Every key of a record has the type of its index.
LEMMA KeyTypes ==
    ASSUME NEW t \in Task, NEW id \in Nat
    PROVE  /\ AddrKey(id, t) \in Creators \X Nat
           /\ TsKey(id, t) \in Status \X Nat \X Nat
           /\ GasKey(id, t) \in Status \X Nat \X Nat
BY DEF AddrKey, TsKey, GasKey, IndexTs, Task

\* After Write a record is the new one if there is one, else the old one.
LEMMA WriteRecords ==
    ASSUME NEW set, NEW del, Write(set, del)
    PROVE  /\ DOMAIN tasks' = (DOMAIN tasks \cup DOMAIN set) \ del
           /\ \A id \in DOMAIN tasks' :
                 tasks'[id] = IF id \in DOMAIN set THEN set[id] ELSE tasks[id]
BY DEF Write

(* A write of tasks and index entries keeps the store in order. *)
LEMMA WriteTypes ==
    ASSUME StoreOK, NEW set, NEW del, Writable(set, del), Write(set, del)
    PROVE  StoreOK'
<1>0. /\ DOMAIN tasks' = (DOMAIN tasks \cup DOMAIN set) \ del
      /\ \A id \in DOMAIN tasks' :
            tasks'[id] = IF id \in DOMAIN set THEN set[id] ELSE tasks[id]
  BY WriteRecords
<1>1. /\ DOMAIN tasks' \subseteq 1..(nextTaskId' - 1)
      /\ nextTaskId' \in 1..(MaxTaskId + 1)
  BY <1>0, BoundsAssumption DEF StoreOK, Writable
<1>2. \A id \in DOMAIN tasks' : tasks'[id] \in Task
  BY <1>0 DEF StoreOK, Writable
<1>3. \A id \in DOMAIN set : id \in Nat /\ set[id] \in Task
  BY BoundsAssumption DEF Writable, StoreOK
<1>4. /\ AddrKeys(set, DOMAIN set) \subseteq Creators \X Nat
      /\ TsKeys(set, DOMAIN set) \subseteq Status \X Nat \X Nat
      /\ GasKeys(set, DOMAIN set) \subseteq Status \X Nat \X Nat
  BY <1>3, KeyTypes DEF AddrKeys, TsKeys, GasKeys
<1>5. /\ addrIndex' \subseteq Creators \X Nat
      /\ tsIndex' \subseteq Status \X Nat \X Nat
      /\ gasIndex' \subseteq Status \X Nat \X Nat
  BY <1>4 DEF Write, StoreOK
<1>6. QED BY <1>1, <1>2, <1>5 DEF StoreOK

\* Write keeps the indexes exact, and leaves no entry of a removed record but the
\* one of a task that finished and deleted itself in the same transaction.
LEMMA WriteIndexes ==
    ASSUME StoreOK, IndexExact, OrphansAreDone,
           NEW set, NEW del, Writable(set, del), Write(set, del)
    PROVE  IndexExact' /\ OrphansAreDone'
<1> DEFINE over == DOMAIN set \cap DOMAIN tasks
<1>0. /\ DOMAIN tasks' = (DOMAIN tasks \cup DOMAIN set) \ del
      /\ \A id \in DOMAIN tasks' :
            tasks'[id] = IF id \in DOMAIN set THEN set[id] ELSE tasks[id]
  BY WriteRecords
<1>1. /\ nextTaskId \in Nat /\ nextTaskId' \in Nat /\ nextTaskId <= nextTaskId'
      /\ \A id \in DOMAIN tasks : id \in Nat /\ id < nextTaskId
      /\ nextTaskId \notin DOMAIN tasks
  BY BoundsAssumption DEF Writable, StoreOK
<1>2. /\ AddrKeys(tasks', DOMAIN tasks') \subseteq addrIndex'
      /\ \A k \in addrIndex' : k[2] \in DOMAIN tasks' /\ k = AddrKey(k[2], tasks'[k[2]])
  <2>1. addrIndex' = ((addrIndex \ AddrKeys(tasks, over)) \cup AddrKeys(set, DOMAIN set))
                         \ AddrKeys(tasks, del)
    BY DEF Write, Replaced
  <2>2. \A id \in DOMAIN tasks' : AddrKey(id, tasks'[id]) \in addrIndex'
    BY <1>0, <2>1, <1>1 DEF AddrKeys, AddrKey, IndexExact, Writable
  <2>3. \A k \in addrIndex' : k[2] \in DOMAIN tasks' /\ k = AddrKey(k[2], tasks'[k[2]])
    BY <1>0, <2>1, <1>1 DEF AddrKeys, AddrKey, IndexExact, Writable
  <2>4. QED BY <2>2, <2>3 DEF AddrKeys
<1>3. /\ TsKeys(tasks', DOMAIN tasks') \subseteq tsIndex'
      /\ \A k \in tsIndex' : k[3] \in DOMAIN tasks' => k = TsKey(k[3], tasks'[k[3]])
      /\ \A k \in tsIndex' :
            k[3] \in DOMAIN tasks' \/ (k[1] = "DONE" /\ k[3] < nextTaskId')
  <2>1. tsIndex' = ((tsIndex \ TsKeys(tasks, over)) \cup TsKeys(set, DOMAIN set))
                       \ TsKeys(tasks, del)
    BY DEF Write, Replaced
  <2>2. \A id \in DOMAIN tasks' : TsKey(id, tasks'[id]) \in tsIndex'
    BY <1>0, <2>1 DEF TsKeys, TsKey, IndexExact
  <2>3. \A k \in tsIndex' :
           \/ k[3] \in DOMAIN set /\ k = TsKey(k[3], set[k[3]])
           \/ k \in tsIndex /\ k \notin TsKeys(tasks, over)
    BY <2>1 DEF TsKeys, TsKey
  <2>4. \A k \in tsIndex :
           \/ k[3] \in DOMAIN tasks /\ k = TsKey(k[3], tasks[k[3]])
           \/ k[3] \notin DOMAIN tasks /\ k[1] = "DONE" /\ k[3] < nextTaskId
    BY DEF IndexExact, OrphansAreDone
  <2>5. \A k \in tsIndex' : k[3] \in DOMAIN tasks' => k = TsKey(k[3], tasks'[k[3]])
    BY <1>0, <1>1, <2>3, <2>4 DEF TsKeys, Writable
  <2>6. \A k \in tsIndex' : k[3] \in DOMAIN tasks' \/ (k[1] = "DONE" /\ k[3] < nextTaskId')
    <3> SUFFICES ASSUME NEW k \in tsIndex', k[3] \notin DOMAIN tasks'
                 PROVE  k[1] = "DONE" /\ k[3] < nextTaskId'
      OBVIOUS
    <3>1. CASE k[3] \in DOMAIN set /\ k = TsKey(k[3], set[k[3]])
      BY <3>1, <1>0, <1>1 DEF Writable, TsKey
    <3>2. CASE k \in tsIndex /\ k[3] \in DOMAIN tasks /\ k = TsKey(k[3], tasks[k[3]])
      BY <3>2, <1>0, <2>1 DEF TsKeys
    <3>3. CASE k[1] = "DONE" /\ k[3] \in Nat /\ k[3] < nextTaskId
      BY <3>3, <1>1
    <3>4. QED BY <2>3, <2>4, <3>1, <3>2, <3>3 DEF StoreOK
  <2>7. QED BY <2>2, <2>5, <2>6 DEF TsKeys
<1>4. /\ GasKeys(tasks', DOMAIN tasks') \subseteq gasIndex'
      /\ \A k \in gasIndex' : k[3] \in DOMAIN tasks' => k = GasKey(k[3], tasks'[k[3]])
      /\ \A k \in gasIndex' :
            k[3] \in DOMAIN tasks' \/ (k[1] = "DONE" /\ k[3] < nextTaskId')
  <2>1. gasIndex' = ((gasIndex \ GasKeys(tasks, over)) \cup GasKeys(set, DOMAIN set))
                       \ GasKeys(tasks, del)
    BY DEF Write, Replaced
  <2>2. \A id \in DOMAIN tasks' : GasKey(id, tasks'[id]) \in gasIndex'
    BY <1>0, <2>1 DEF GasKeys, GasKey, IndexExact
  <2>3. \A k \in gasIndex' :
           \/ k[3] \in DOMAIN set /\ k = GasKey(k[3], set[k[3]])
           \/ k \in gasIndex /\ k \notin GasKeys(tasks, over)
    BY <2>1 DEF GasKeys, GasKey
  <2>4. \A k \in gasIndex :
           \/ k[3] \in DOMAIN tasks /\ k = GasKey(k[3], tasks[k[3]])
           \/ k[3] \notin DOMAIN tasks /\ k[1] = "DONE" /\ k[3] < nextTaskId
    BY DEF IndexExact, OrphansAreDone
  <2>5. \A k \in gasIndex' : k[3] \in DOMAIN tasks' => k = GasKey(k[3], tasks'[k[3]])
    BY <1>0, <1>1, <2>3, <2>4 DEF GasKeys, Writable
  <2>6. \A k \in gasIndex' : k[3] \in DOMAIN tasks' \/ (k[1] = "DONE" /\ k[3] < nextTaskId')
    <3> SUFFICES ASSUME NEW k \in gasIndex', k[3] \notin DOMAIN tasks'
                 PROVE  k[1] = "DONE" /\ k[3] < nextTaskId'
      OBVIOUS
    <3>1. CASE k[3] \in DOMAIN set /\ k = GasKey(k[3], set[k[3]])
      BY <3>1, <1>0, <1>1 DEF Writable, GasKey
    <3>2. CASE k \in gasIndex /\ k[3] \in DOMAIN tasks /\ k = GasKey(k[3], tasks[k[3]])
      BY <3>2, <1>0, <2>1 DEF GasKeys
    <3>3. CASE k[1] = "DONE" /\ k[3] \in Nat /\ k[3] < nextTaskId
      BY <3>3, <1>1
    <3>4. QED BY <2>3, <2>4, <3>1, <3>2, <3>3 DEF StoreOK
  <2>7. QED BY <2>2, <2>5, <2>6 DEF GasKeys
<1>5. QED BY <1>2, <1>3, <1>4 DEF IndexExact, OrphansAreDone

\* A block changes nothing of a record but its status and its execution time.
LEMMA MarkedRecord ==
    ASSUME NEW t \in Task, NEW s \in Status, NEW n \in Nat, NEW r,
           r = [t EXCEPT !.status = s, !.execTs = n]
    PROVE  /\ r \in Task /\ r.status = s /\ r.execTs = n
           /\ r.creator = t.creator /\ r.sched = t.sched /\ r.expiry = t.expiry
           /\ r.limit = t.limit /\ r.fee = t.fee /\ r.price = t.price
BY DEF Task

-----------------------------------------------------------------------------
(* The loop over the collected tasks                                       *)

\* The head of the queue, when its record is there, is a PENDING task with the
\* price it was collected under, and no other entry of the queue has its id.
LEMMA HeadOfQueue ==
    ASSUME TypeOK, QueueSound, BlockInv, NEW p \in queue, p[2] \in DOMAIN tasks
    PROVE  /\ p[1] \in Nat /\ p[2] \in Nat /\ p[2] < nextTaskId
           /\ p = <<tasks[p[2]].price, p[2]>>
           /\ tasks[p[2]] \in Task /\ tasks[p[2]].status = "PENDING"
           /\ tasks[p[2]].sched <= now /\ now < tasks[p[2]].expiry
           /\ \A q \in queue : q[2] = p[2] => q = p
<1>1. \A q \in queue : q \in Nat \X Nat /\ q = <<q[1], q[2]>>
  BY DEF TypeOK
<1>2. p[2] \in 1..(nextTaskId - 1) /\ nextTaskId \in Nat
  BY BoundsAssumption DEF TypeOK, StoreOK, BlockInv
<1>3. tasks[p[2]] \in Task /\ tasks[p[2]].price = p[1]
  BY DEF TypeOK, StoreOK, QueueSound
<1>4. \A q \in queue : q[2] = p[2] => q[1] = p[1]
  BY <1>3 DEF QueueSound
<1>5. QED BY <1>1, <1>2, <1>3, <1>4 DEF QueueSound

\* How Reject, RunDone and RunFailed treat the head p of the queue: p's record
\* is written settled, with one new task at most, and records are deleted.
Settles(p, set, del) ==
    /\ phase = "exec" /\ IsHead(p) /\ p[2] \in DOMAIN tasks
    /\ Writable(set, del) /\ Write(set, del)
    /\ DOMAIN set \subseteq {p[2], nextTaskId} /\ p[2] \in DOMAIN set
    /\ \E s \in {"DONE", "FAILED"} :
          set[p[2]] = [tasks[p[2]] EXCEPT !.status = s, !.execTs = now]
    /\ nextTaskId \in DOMAIN set => set[nextTaskId].status = "SCHEDULED"
    /\ Fits(tasks[p[2]])
    /\ queue' = queue \ {p} /\ selected' = selected \cup {p[2]}
    /\ cronGasUsed' \in Nat /\ cronGasUsed <= cronGasUsed'
    /\ UNCHANGED <<now, params, phase, skipped>>

(* Settling a task of the queue keeps what the block promises of the rest of it. *)
LEMMA SettleKeeps ==
    ASSUME IInv, NEW p, NEW set, NEW del, Settles(p, set, del)
    PROVE  BlockInv' /\ QueueSound' /\ SettledInWindow' /\ NoPriorityInversion'
<1>0. /\ p \in queue /\ p[2] \in DOMAIN tasks /\ \A q \in queue \ {p} : Before(p, q)
      /\ Write(set, del) /\ Writable(set, del)
      /\ queue' = queue \ {p} /\ selected' = selected \cup {p[2]}
      /\ Fits(tasks[p[2]]) /\ cronGasUsed' \in Nat /\ cronGasUsed <= cronGasUsed'
      /\ phase = "exec" /\ UNCHANGED <<now, params, phase, skipped>>
      /\ DOMAIN set \subseteq {p[2], nextTaskId}
      /\ nextTaskId \in DOMAIN set => set[nextTaskId].status = "SCHEDULED"
  BY DEF Settles, IsHead
<1>1. /\ p = <<tasks[p[2]].price, p[2]>> /\ tasks[p[2]] \in Task
      /\ p[2] \in Nat /\ p[2] < nextTaskId
      /\ tasks[p[2]].sched <= now /\ now < tasks[p[2]].expiry
      /\ \A q \in queue : q[2] = p[2] => q = p
  BY <1>0, HeadOfQueue DEF IInv
<1>2. /\ DOMAIN tasks' = (DOMAIN tasks \cup DOMAIN set) \ del
      /\ \A id \in DOMAIN tasks' :
            tasks'[id] = IF id \in DOMAIN set THEN set[id] ELSE tasks[id]
  BY <1>0, WriteRecords
<1>3. /\ nextTaskId \in Nat /\ nextTaskId' \in Nat /\ nextTaskId <= nextTaskId'
      /\ now \in Nat /\ params \in Params /\ cronGasUsed \in Nat
      /\ \A id \in DOMAIN tasks : tasks[id] \in Task
      /\ queue \subseteq Nat \X Nat
  BY <1>0, BoundsAssumption, ParamsAssumption DEF IInv, TypeOK, StoreOK, Writable
\* the other tasks that were there stay as they are; p's task is settled
<1>4. \A id \in DOMAIN tasks' :
         \/ /\ id = p[2] /\ tasks'[id].status \in {"DONE", "FAILED"}
            /\ tasks'[id].execTs = now
            /\ tasks'[id].sched = tasks[id].sched /\ tasks'[id].expiry = tasks[id].expiry
            /\ tasks'[id].price = tasks[id].price /\ tasks'[id].limit = tasks[id].limit
         \/ id = nextTaskId /\ tasks'[id].status = "SCHEDULED"
         \/ id # p[2] /\ id \in DOMAIN tasks /\ tasks'[id] = tasks[id]
  <2>1. PICK s \in {"DONE", "FAILED"} :
           set[p[2]] = [tasks[p[2]] EXCEPT !.status = s, !.execTs = now]
    BY DEF Settles
  <2>2. /\ set[p[2]].status = s /\ set[p[2]].execTs = now
        /\ set[p[2]].sched = tasks[p[2]].sched /\ set[p[2]].expiry = tasks[p[2]].expiry
        /\ set[p[2]].price = tasks[p[2]].price /\ set[p[2]].limit = tasks[p[2]].limit
    <3>1. tasks[p[2]] \in Task
      BY <1>1
    <3>2. QED BY <2>1, <3>1 DEF Task
  <2>3. QED
    <3> TAKE id \in DOMAIN tasks'
    <3>1. CASE id = p[2]
      <4>1. tasks'[id] = IF id \in DOMAIN set THEN set[id] ELSE tasks[id]
        BY <1>2
      <4>2. p[2] \in DOMAIN set
        BY DEF Settles
      <4>3. tasks'[id] = set[p[2]]
        BY <3>1, <4>1, <4>2
      <4>4. QED BY <2>2, <3>1, <4>3
    <3>2. CASE id # p[2] /\ id = nextTaskId
      BY <3>2, <1>0, <1>2
    <3>3. CASE id # p[2] /\ id \notin DOMAIN set
      BY <3>3, <1>2
    <3>4. QED BY <1>0, <3>1, <3>2, <3>3
<1>5. \A id \in DOMAIN tasks' : id < nextTaskId =>
         /\ id \in DOMAIN tasks
         /\ tasks'[id].price = tasks[id].price /\ tasks'[id].limit = tasks[id].limit
  BY <1>0, <1>3, <1>4
<1>6. QueueSound'
  <2> SUFFICES ASSUME NEW q \in queue', q[2] \in DOMAIN tasks'
               PROVE  q[2] \in DOMAIN tasks /\ tasks'[q[2]] = tasks[q[2]]
    BY <1>0 DEF QueueSound, IInv
  <2>1. q \in queue /\ q[2] # p[2] /\ q[2] < nextTaskId
    BY <1>0, <1>1, <1>3 DEF IInv, BlockInv
  <2>2. QED BY <2>1, <1>3, <1>4
<1>7. SettledInWindow'
  BY <1>1, <1>3, <1>4 DEF SettledInWindow, IInv
<1>8. \A id \in selected \cup skipped : id \in Nat /\ id < nextTaskId
  BY <1>3 DEF IInv, BlockInv
<1>9. BlockInv'
  <2>1. \A id \in DOMAIN tasks' : tasks'[id].status = "PENDING" => tasks'[id].sched <= now'
    BY <1>0, <1>4 DEF IInv, BlockInv
  <2>2. \A q \in queue' : q[2] \in 1..(nextTaskId' - 1)
    BY <1>0, <1>3 DEF IInv, BlockInv
  <2>3. selected' \cup skipped' \subseteq 1..(nextTaskId' - 1)
    BY <1>0, <1>1, <1>3 DEF IInv, BlockInv
  <2>4. \A id \in (selected' \cup skipped') \cap DOMAIN tasks', q \in queue' :
           Before(<<tasks'[id].price, id>>, q)
    <3> SUFFICES ASSUME NEW id \in (selected' \cup skipped') \cap DOMAIN tasks',
                        NEW q \in queue'
                 PROVE  Before(<<tasks'[id].price, id>>, q)
      OBVIOUS
    <3>1. q \in queue /\ q # p /\ Before(p, q)
      BY <1>0
    <3>2. CASE id = p[2]
      BY <3>1, <3>2, <1>1, <1>5
    <3>3. CASE id \in selected \cup skipped
      BY <3>1, <3>3, <1>0, <1>5, <1>8 DEF IInv, BlockInv
    <3>4. QED BY <1>0, <3>2, <3>3
  <2>5. \A id \in skipped' \cap DOMAIN tasks' : ~Fits(tasks[id])'
    BY <1>0, <1>3, <1>5, <1>8, BoundsAssumption DEF IInv, BlockInv, Fits, Task, Params
  <2>6. QED BY <1>0, <2>1, <2>2, <2>3, <2>4, <2>5 DEF BlockInv
<1>10. NoPriorityInversion'
  <2> SUFFICES ASSUME NEW i \in skipped' \cap DOMAIN tasks',
                      NEW j \in selected' \cap DOMAIN tasks',
                      Before(<<tasks'[i].price, i>>, <<tasks'[j].price, j>>)
               PROVE  tasks'[j].limit < tasks'[i].limit
    BY DEF NoPriorityInversion
  <2>1. CASE j = p[2]
    BY <2>1, <1>0, <1>1, <1>3, <1>5, <1>8, BoundsAssumption
       DEF IInv, BlockInv, Fits, Task, Params
  <2>2. CASE j \in selected
    BY <2>2, <1>0, <1>5, <1>8 DEF IInv, NoPriorityInversion
  <2>3. QED BY <1>0, <2>1, <2>2
<1>11. QED BY <1>6, <1>7, <1>9, <1>10

-----------------------------------------------------------------------------
(* Values                                                                  *)

\* A created task is a record under the next id, SCHEDULED.
LEMMA NewRecord ==
    ASSUME TypeOK, NEW new \in NewRecords
    PROVE  /\ DOMAIN new = {nextTaskId} /\ nextTaskId \in 1..MaxTaskId
           /\ new[nextTaskId] \in Task /\ new[nextTaskId].status = "SCHEDULED"
<1>1. PICK a \in TaskArgs : /\ Accepts(a) /\ nextTaskId <= MaxTaskId
                            /\ new = [id \in {nextTaskId} |-> NewTask(a)]
  BY DEF NewRecords
<1>2. /\ a.creator \in Creators /\ a.delay \in Nat /\ a.life \in Nat
      /\ a.fee \in Nat /\ a.limit \in Nat \ {0}
  BY <1>1, ArgsAssumption DEF Accepts
<1>3. now \in Nat /\ params.expiryLimit \in Nat /\ PriceScale \in Nat /\ PriceCap \in Nat
  BY BoundsAssumption, ParamsAssumption DEF TypeOK, Params
<1>4. IndexPrice(a.fee, a.limit) \in Nat
  <2>1. a.fee * PriceScale \in Nat
    BY <1>2, <1>3
  <2>2. \A m \in Nat, n \in Nat \ {0} : m \div n \in Nat
    OBVIOUS
  <2>3. (a.fee * PriceScale) \div a.limit \in Nat
    BY <1>2, <2>1, <2>2
  <2>4. QED BY <1>3, <2>3 DEF IndexPrice
<1>5. now + a.delay \in Nat
  BY <1>2, <1>3
<1>6. now + a.delay + (IF a.life = 0 THEN params.expiryLimit ELSE a.life) \in Nat
  BY <1>2, <1>3
<1>7. NewTask(a) \in Task /\ NewTask(a).status = "SCHEDULED"
  BY <1>2, <1>3, <1>4, <1>5, <1>6 DEF NewTask, Task, Status, Active
<1>8. nextTaskId \in 1..MaxTaskId
  BY <1>1, BoundsAssumption DEF TypeOK, StoreOK
<1>9. QED BY <1>1, <1>7, <1>8

\* Moving coins that are there keeps every balance a natural number.
LEMMA PaymentType ==
    ASSUME NEW b \in [Accounts -> Nat], NEW from \in Accounts, NEW to \in Accounts,
           NEW n \in Nat, b[from] >= n
    PROVE  [b EXCEPT ![from] = @ - n, ![to] = @ + n] \in [Accounts -> Nat]
OBVIOUS

(* Balances stay natural numbers when the creator of a task, who has its fee, pays it. *)
LEMMA FeeType ==
    ASSUME TypeOK, NEW id \in DOMAIN tasks,
           Spendable(bal, tasks[id].creator) >= tasks[id].fee
    PROVE  FeePaid(id) \in [Accounts -> Nat]
<1>1. /\ tasks[id].creator \in Creators /\ tasks[id].fee \in Nat
      /\ bal \in [Accounts -> Nat] /\ Collector \in Accounts
      /\ tasks[id].creator \in Accounts
  BY DEF TypeOK, StoreOK, Task, Accounts
<1>2. Locked[tasks[id].creator] \in Nat
  BY <1>1, BoundsAssumption
<1>3. bal[tasks[id].creator] >= tasks[id].fee
  BY <1>1, <1>2 DEF Spendable
<1>4. QED BY <1>1, <1>3, PaymentType DEF FeePaid, Pay

(* So do they under the payments a script makes. *)
LEMMA PaymentsType ==
    ASSUME NEW b \in [Accounts -> Nat]
    PROVE  Payments(b) \subseteq [Accounts -> Nat]
<1> SUFFICES ASSUME NEW x \in Creators \X Creators \X (1..MaxPay),
                    x[3] <= Spendable(b, x[1])
             PROVE  [b EXCEPT ![x[1]] = @ - x[3], ![x[2]] = @ + x[3]] \in [Accounts -> Nat]
  BY DEF Payments
<1>1. x[1] \in Creators /\ x[2] \in Creators /\ x[3] \in Nat
  BY BoundsAssumption
<1>2. x[1] \in Accounts /\ x[2] \in Accounts /\ Locked[x[1]] \in Nat
  BY <1>1, BoundsAssumption DEF Accounts
<1>3. b[x[1]] >= x[3]
  BY <1>1, <1>2 DEF Spendable
<1>4. QED BY <1>1, <1>2, <1>3, PaymentType

-----------------------------------------------------------------------------
(* One lemma per action: it keeps the inductive invariant.                 *)

(* The invariant holds at first. *)
THEOREM InitInv == Init => IInv
<1> SUFFICES ASSUME Init PROVE IInv
  OBVIOUS
<1>1. TypeOK
  <2>1. StoreOK
    BY BoundsAssumption DEF Init, StoreOK
  <2>2. bal \in [Accounts -> Nat]
    BY BoundsAssumption DEF Init, Accounts
  <2>3. metrics \in [gas: Nat, executed: Nat, pending: Nat]
    BY DEF Init, NoMetrics
  <2>4. QED BY <2>1, <2>2, <2>3, BoundsAssumption DEF Init, TypeOK, Phases
<1>2. IndexExact /\ OrphansAreDone
  BY DEF Init, IndexExact, OrphansAreDone, AddrKeys, TsKeys, GasKeys
<1>3. BlockInv /\ QueueSound /\ SettledInWindow /\ NoPriorityInversion
  BY DEF Init, BlockInv, QueueSound, SettledInWindow, NoPriorityInversion
<1>4. params.blockGasLimit \in Nat /\ MaxOvershoot \in Nat
  BY BoundsAssumption, ParamsAssumption DEF Init, Params
<1>5. GasBound
  BY <1>4 DEF Init, GasBound
<1>6. QED BY <1>1, <1>2, <1>3, <1>5 DEF IInv

\* A write that at most adds new tasks and removes some, outside the loop.
LEMMA CalmWrite ==
    ASSUME IInv, NEW set, NEW del, Writable(set, del), Write(set, del),
           \A id \in DOMAIN set : set[id].status = "SCHEDULED",
           now' = now, params' = params, phase' \in {"deliver", "events"},
           queue' = {}, cronGasUsed' = 0, selected' = {}, skipped' = {}
    PROVE  /\ StoreOK' /\ IndexExact' /\ OrphansAreDone'
           /\ BlockInv' /\ QueueSound' /\ SettledInWindow'
           /\ NoPriorityInversion' /\ GasBound'
<1>1. StoreOK /\ IndexExact /\ OrphansAreDone
  BY DEF IInv, TypeOK
<1>2. StoreOK'
  BY <1>1, WriteTypes
<1>3. IndexExact' /\ OrphansAreDone'
  BY <1>1, WriteIndexes
<1>4. /\ DOMAIN tasks' = (DOMAIN tasks \cup DOMAIN set) \ del
      /\ \A id \in DOMAIN tasks' :
            tasks'[id] = IF id \in DOMAIN set THEN set[id] ELSE tasks[id]
  BY WriteRecords
<1>5. \A id \in DOMAIN tasks' :
         \/ tasks'[id].status = "SCHEDULED"
         \/ id \in DOMAIN tasks /\ tasks'[id] = tasks[id]
  BY <1>4
<1>6. BlockInv'
  BY <1>5 DEF IInv, BlockInv
<1>7. SettledInWindow'
  BY <1>5 DEF IInv, SettledInWindow
<1>8. QueueSound' /\ NoPriorityInversion'
  BY DEF QueueSound, NoPriorityInversion
<1>9. GasBound'
  BY BoundsAssumption, ParamsAssumption DEF IInv, TypeOK, GasBound, Params
<1>10. QED BY <1>2, <1>3, <1>6, <1>7, <1>8, <1>9

(* Creating a task keeps the invariant, whether the id and the times are new or not. *)
LEMMA CreateTaskInv == ASSUME IInv, CreateTask PROVE IInv'
<1>1. PICK new \in NewRecords : Write(new, {})
  BY DEF CreateTask, SetTasks
<1>2. /\ DOMAIN new = {nextTaskId} /\ nextTaskId \in 1..MaxTaskId
      /\ new[nextTaskId] \in Task /\ new[nextTaskId].status = "SCHEDULED"
  BY NewRecord DEF IInv
<1>3. /\ UNCHANGED <<params, metrics, bal, now, phase, local>> /\ phase = "deliver"
      /\ nextTaskId' = nextTaskId + 1
  BY DEF CreateTask
<1>4. nextTaskId \notin DOMAIN tasks
  BY <1>2 DEF IInv, TypeOK, StoreOK
<1>5. Writable(new, {})
  BY <1>2, <1>3, <1>4, BoundsAssumption DEF Writable
<1>6. queue' = {} /\ cronGasUsed' = 0 /\ selected' = {} /\ skipped' = {}
  BY <1>3 DEF IInv, BlockInv, local
<1>7. now' = now /\ params' = params /\ phase' = "deliver"
  BY <1>3
<1>8. /\ StoreOK' /\ IndexExact' /\ OrphansAreDone'
      /\ BlockInv' /\ QueueSound' /\ SettledInWindow'
      /\ NoPriorityInversion' /\ GasBound'
  BY <1>1, <1>2, <1>5, <1>6, <1>7, CalmWrite
<1>9. TypeOK'
  BY <1>3, <1>8 DEF IInv, TypeOK, local
<1>10. QED BY <1>8, <1>9 DEF IInv

\* The empty record function, which RemoveTasks writes.
LEMMA RemoveIsWritable ==
    ASSUME IInv, NEW del, del \subseteq DOMAIN tasks, nextTaskId' = nextTaskId
    PROVE  Writable([id \in {} |-> {}], del)
BY BoundsAssumption DEF Writable, IInv, TypeOK, StoreOK

(* So does deleting one, by its creator and in a status that allows it. *)
LEMMA DeleteTaskInv ==
    ASSUME IInv, NEW caller \in Creators, NEW id \in DOMAIN tasks, DeleteTask(caller, id)
    PROVE  IInv'
<1> DEFINE none == [i \in {} |-> {}]
<1>1. /\ UNCHANGED <<nextTaskId, params, metrics, bal, now, phase, local>>
      /\ phase = "deliver" /\ Write(none, {id})
  BY DEF DeleteTask, RemoveTasks
<1>2. Writable(none, {id})
  BY <1>1, RemoveIsWritable
<1>3. queue' = {} /\ cronGasUsed' = 0 /\ selected' = {} /\ skipped' = {}
  BY <1>1 DEF IInv, BlockInv, local
<1>4. now' = now /\ params' = params /\ phase' = "deliver" /\ DOMAIN none = {}
  BY <1>1
<1> HIDE DEF none
<1>5. /\ StoreOK' /\ IndexExact' /\ OrphansAreDone'
      /\ BlockInv' /\ QueueSound' /\ SettledInWindow'
      /\ NoPriorityInversion' /\ GasBound'
  BY <1>1, <1>2, <1>3, <1>4, CalmWrite
<1>6. TypeOK'
  BY <1>1, <1>5 DEF IInv, TypeOK, local
<1>7. QED BY <1>5, <1>6 DEF IInv

(* So does a change of the parameters. *)
LEMMA UpdateParamsInv == ASSUME IInv, UpdateParams PROVE IInv'
<1>1. /\ UNCHANGED <<tasks, addrIndex, tsIndex, gasIndex, nextTaskId>>
      /\ UNCHANGED <<metrics, bal, now, phase, queue, cronGasUsed, selected, skipped>>
      /\ phase = "deliver" /\ params' \in ParamSet
  BY DEF UpdateParams, store, local
<1>2. queue = {} /\ cronGasUsed = 0 /\ selected = {} /\ skipped = {}
  BY <1>1 DEF IInv, BlockInv
<1>3. TypeOK'
  BY <1>1 DEF IInv, TypeOK, StoreOK
<1>4. IndexExact' /\ OrphansAreDone'
  BY <1>1 DEF IInv, IndexExact, OrphansAreDone, AddrKeys, TsKeys, GasKeys
<1>5. BlockInv' /\ QueueSound' /\ SettledInWindow' /\ NoPriorityInversion'
  BY <1>1, <1>2 DEF IInv, BlockInv, QueueSound, SettledInWindow, NoPriorityInversion
<1>6. GasBound'
  BY <1>1, <1>2, BoundsAssumption, ParamsAssumption DEF GasBound, Params
<1>7. QED BY <1>3, <1>4, <1>5, <1>6 DEF IInv

\* Coins may move freely as long as nobody is overdrawn.
LEMMA CoinsMoveInv ==
    ASSUME IInv, bal' \in [Accounts -> Nat],
           UNCHANGED <<store, nextTaskId, params, metrics, now, phase, local>>
    PROVE  IInv'
<1>1. /\ UNCHANGED <<tasks, addrIndex, tsIndex, gasIndex, nextTaskId, params>>
      /\ UNCHANGED <<metrics, now, phase, queue, cronGasUsed, selected, skipped>>
  BY DEF store, local
<1>3. TypeOK'
  BY <1>1 DEF IInv, TypeOK, StoreOK
<1>4. IndexExact' /\ OrphansAreDone'
  BY <1>1 DEF IInv, IndexExact, OrphansAreDone, AddrKeys, TsKeys, GasKeys
<1>5. BlockInv' /\ QueueSound' /\ SettledInWindow' /\ NoPriorityInversion' /\ GasBound'
  BY <1>1 DEF IInv, BlockInv, QueueSound, SettledInWindow, NoPriorityInversion,
              GasBound, Fits
<1>6. QED BY <1>3, <1>4, <1>5 DEF IInv

(* So does any transfer of coins. *)
LEMMA TransferInv == ASSUME IInv, Transfer PROVE IInv'
<1>1. UNCHANGED <<store, nextTaskId, params, metrics, now, phase, local>>
  BY DEF Transfer
<1>2. bal' \in [Accounts -> Nat]
  <2>1. PICK from \in Creators, to \in Creators, amount \in 1..MaxPay :
           amount <= Spendable(bal, from) /\ bal' = Pay(from, to, amount)
    BY DEF Transfer
  <2>2. /\ from \in Accounts /\ to \in Accounts /\ amount \in Nat
        /\ bal \in [Accounts -> Nat] /\ Locked[from] \in Nat
    BY BoundsAssumption DEF Accounts, IInv, TypeOK
  <2>3. bal[from] >= amount
    BY <2>1, <2>2 DEF Spendable
  <2>4. QED BY <2>1, <2>2, <2>3, PaymentType DEF Pay
<1>3. QED BY <1>1, <1>2, CoinsMoveInv

(* So does a restart from an export, which builds the indexes anew. *)
LEMMA RestartInv == ASSUME IInv, Restart PROVE IInv'
<1>1. /\ UNCHANGED <<tasks, nextTaskId, params, bal, now, phase>>
      /\ UNCHANGED <<queue, cronGasUsed, selected, skipped>>
      /\ metrics' = NoMetrics
      /\ addrIndex' = AddrKeys(tasks, DOMAIN tasks)
      /\ tsIndex' = TsKeys(tasks, DOMAIN tasks)
      /\ gasIndex' = GasKeys(tasks, DOMAIN tasks)
  BY DEF Restart, local
<1>2. StoreOK'
  <2>1. \A id \in DOMAIN tasks : id \in Nat /\ tasks[id] \in Task
    BY BoundsAssumption DEF IInv, TypeOK, StoreOK
  <2>2. /\ addrIndex' \subseteq Creators \X Nat
        /\ tsIndex' \subseteq Status \X Nat \X Nat
        /\ gasIndex' \subseteq Status \X Nat \X Nat
    BY <1>1, <2>1, KeyTypes DEF AddrKeys, TsKeys, GasKeys
  <2>3. QED BY <1>1, <2>2 DEF IInv, TypeOK, StoreOK
<1>3. TypeOK'
  BY <1>1, <1>2 DEF IInv, TypeOK, NoMetrics
<1>4. IndexExact' /\ OrphansAreDone'
  BY <1>1 DEF IndexExact, OrphansAreDone, AddrKeys, TsKeys, GasKeys, AddrKey, TsKey, GasKey
<1>5. BlockInv' /\ QueueSound' /\ SettledInWindow' /\ NoPriorityInversion' /\ GasBound'
  BY <1>1 DEF IInv, BlockInv, QueueSound, SettledInWindow, NoPriorityInversion,
              GasBound, Fits
<1>6. QED BY <1>3, <1>4, <1>5 DEF IInv

(* So does the header of the next block, with any step of time. *)
LEMMA NextHeaderInv ==
    ASSUME IInv, NEW step \in TimeSteps, phase # "exec", NextHeader(step)
    PROVE  IInv'
<1>1. /\ UNCHANGED <<tasks, addrIndex, tsIndex, gasIndex, nextTaskId, params>>
      /\ UNCHANGED <<metrics, bal, queue, cronGasUsed, selected, skipped>>
      /\ phase' = "expire" /\ now + step <= MaxTime /\ now' = now + step
  BY DEF NextHeader, store, local
<1>2. now \in Nat /\ step \in Nat /\ now' \in 1..MaxTime /\ now <= now'
  BY <1>1, BoundsAssumption DEF IInv, TypeOK
<1>3. queue = {} /\ selected = {} /\ skipped = {}
  BY <1>1 DEF IInv, BlockInv
<1>4. TypeOK'
  BY <1>1, <1>2 DEF IInv, TypeOK, StoreOK, Phases
<1>5. IndexExact' /\ OrphansAreDone'
  BY <1>1 DEF IInv, IndexExact, OrphansAreDone, AddrKeys, TsKeys, GasKeys
<1>6. \A id \in DOMAIN tasks : tasks[id].sched \in Nat
  BY DEF IInv, TypeOK, StoreOK, Task
<1>7. BlockInv'
  BY <1>1, <1>2, <1>3, <1>6 DEF IInv, BlockInv
<1>8. QueueSound' /\ SettledInWindow' /\ NoPriorityInversion' /\ GasBound'
  BY <1>1, <1>3 DEF IInv, QueueSound, SettledInWindow, NoPriorityInversion, GasBound
<1>9. QED BY <1>4, <1>5, <1>7, <1>8 DEF IInv

(* So does the end of the passes of a block, which removes the tasks that are old. *)
LEMMA FinishInv == ASSUME IInv, FinishBeginBlock PROVE IInv'
<1> DEFINE none == [i \in {} |-> {}]
<1>1. /\ UNCHANGED <<nextTaskId, params, bal, now, queue>> /\ queue = {}
      /\ phase' = "deliver" /\ cronGasUsed' = 0 /\ selected' = {} /\ skipped' = {}
      /\ metrics' = [gas |-> cronGasUsed, executed |-> Cardinality(selected),
                     pending |-> Cardinality(skipped)]
      /\ Write(none, Old)
  BY DEF FinishBeginBlock, RemoveTasks
<1>2. Writable(none, Old)
  BY <1>1, RemoveIsWritable DEF Old
<1>3. now' = now /\ params' = params /\ queue' = {} /\ DOMAIN none = {}
  BY <1>1
<1> HIDE DEF none
<1>4. /\ StoreOK' /\ IndexExact' /\ OrphansAreDone'
      /\ BlockInv' /\ QueueSound' /\ SettledInWindow'
      /\ NoPriorityInversion' /\ GasBound'
  BY <1>1, <1>2, <1>3, CalmWrite
<1>5. Cardinality(selected) \in Nat /\ Cardinality(skipped) \in Nat
  <2>1. /\ selected \subseteq 1..MaxTaskId /\ skipped \subseteq 1..MaxTaskId
        /\ MaxTaskId \in Int /\ 1 \in Int
    BY BoundsAssumption DEF IInv, TypeOK
  <2>2. IsFiniteSet(1..MaxTaskId)
    BY <2>1, FS_Interval
  <2>3. IsFiniteSet(selected) /\ IsFiniteSet(skipped)
    BY <2>1, <2>2, FS_Subset
  <2>4. QED BY <2>3, FS_CardinalityType
<1>6. metrics' \in [gas: Nat, executed: Nat, pending: Nat]
  BY <1>1, <1>5, BoundsAssumption DEF IInv, TypeOK
<1>7. TypeOK'
  BY <1>1, <1>4, <1>6, BoundsAssumption DEF IInv, TypeOK, Phases
<1>8. QED BY <1>4, <1>7 DEF IInv

\* The scans for overdue and for due tasks go by index entries and find exactly the
\* records they are after; the scan for old ones goes by the entry's timestamp alone.
LEMMA OverdueExact ==
    ASSUME IInv, NEW id \in DOMAIN tasks
    PROVE  id \in Overdue <=> tasks[id].status \in Active /\ tasks[id].expiry <= now
<1>1. TsKey(id, tasks[id]) \in tsIndex
  BY DEF IInv, IndexExact, TsKeys
<1>2. \A k \in tsIndex : k[3] = id => k = TsKey(id, tasks[id])
  BY DEF IInv, IndexExact
<1>3. QED BY <1>1, <1>2 DEF TsKey, Overdue

(* A task found to be due by the index is scheduled for now or before. *)
LEMMA DueScheduled ==
    ASSUME IInv, NEW id \in Due
    PROVE  id \in DOMAIN tasks /\ tasks[id].status = "SCHEDULED" /\ tasks[id].sched <= now
<1>1. PICK k \in tsIndex : k[1] = "SCHEDULED" /\ k[3] = id
  BY DEF Due
<1>2. id \in DOMAIN tasks /\ tasks[id].sched <= now
  BY DEF Due
<1>3. QED BY <1>1, <1>2 DEF IInv, IndexExact, TsKey

\* The expired ones are the overdue SCHEDULED and PENDING tasks, all of them:
\* this is where the scan relies on the timestamp index.
LEMMA CheckExpiredInv == ASSUME IInv, CheckExpiredTasks PROVE IInv'
<1> DEFINE set == Marked(Overdue, "EXPIRED")
<1>1. /\ UNCHANGED <<nextTaskId, params, metrics, bal, now>>
      /\ UNCHANGED <<queue, cronGasUsed, selected, skipped>>
      /\ phase = "expire" /\ phase' = "due" /\ Write(set, {})
  BY DEF CheckExpiredTasks, SetTasks, local
<1>2. /\ now \in Nat /\ nextTaskId \in Nat
      /\ \A id \in DOMAIN tasks : id \in 1..(nextTaskId - 1) /\ tasks[id] \in Task
  BY BoundsAssumption DEF IInv, TypeOK, StoreOK
<1>3. \A id \in DOMAIN tasks :
         id \in Overdue <=> tasks[id].status \in Active /\ tasks[id].expiry <= now
  BY OverdueExact
<1>4. DOMAIN set = Overdue /\ Overdue \subseteq DOMAIN tasks
  BY DEF Marked, Overdue
<1>5. \A id \in Overdue :
         /\ set[id] \in Task /\ set[id].status = "EXPIRED" /\ set[id].execTs = now
         /\ set[id].creator = tasks[id].creator
         /\ set[id].sched = tasks[id].sched /\ set[id].expiry = tasks[id].expiry
         /\ set[id].expiry <= now
  <2> TAKE id \in Overdue
  <2>1. set[id] = [tasks[id] EXCEPT !.status = "EXPIRED", !.execTs = now]
    BY DEF Marked
  <2>2. tasks[id] \in Task /\ tasks[id].expiry <= now
    BY <1>2, <1>3, <1>4
  <2> HIDE DEF set
  <2>3. set[id] \in Task
    <3> DEFINE was == tasks[id]
    <3>1. set[id] = [was EXCEPT !.status = "EXPIRED", !.execTs = now] /\ was \in Task /\ now \in Nat
      BY <1>2, <2>1, <2>2
    <3>2. "EXPIRED" \in Status
      BY DEF Status, Terminal
    <3> HIDE DEF was
    <3>3. QED BY <3>1, <3>2 DEF Task
  <2>4. /\ set[id].status = "EXPIRED" /\ set[id].execTs = now
        /\ set[id].creator = tasks[id].creator
        /\ set[id].sched = tasks[id].sched /\ set[id].expiry = tasks[id].expiry
    BY <2>1, <2>2 DEF Task
  <2>5. QED BY <2>2, <2>3, <2>4
<1>6. Writable(set, {})
  BY <1>1, <1>2, <1>4, <1>5, BoundsAssumption DEF Writable, IInv, TypeOK, StoreOK
<1> HIDE DEF set
<1>7. /\ DOMAIN tasks' = (DOMAIN tasks \cup DOMAIN set) \ {}
      /\ \A id \in DOMAIN tasks' :
            tasks'[id] = IF id \in DOMAIN set THEN set[id] ELSE tasks[id]
  BY <1>1, WriteRecords
<1>8. StoreOK' /\ IndexExact' /\ OrphansAreDone'
  BY <1>1, <1>6, WriteTypes, WriteIndexes DEF IInv, TypeOK
<1>9. \A id \in DOMAIN tasks' :
         \/ /\ tasks'[id].status = "EXPIRED" /\ tasks'[id].execTs = now
            /\ tasks'[id].expiry <= now
         \/ /\ id \in DOMAIN tasks /\ tasks'[id] = tasks[id]
            /\ tasks[id].status \in Active => ~(tasks[id].expiry <= now)
  BY <1>3, <1>4, <1>5, <1>7
<1>10. queue = {} /\ cronGasUsed = 0 /\ selected = {} /\ skipped = {}
  BY <1>1 DEF IInv, BlockInv
<1>11. TypeOK'
  BY <1>1, <1>8 DEF IInv, TypeOK, Phases
<1>12. BlockInv'
  <2>1. \A id \in DOMAIN tasks' : tasks'[id].status = "PENDING" => tasks'[id].sched <= now'
    BY <1>1, <1>9 DEF IInv, BlockInv
  <2>2. \A id \in DOMAIN tasks' : tasks'[id].status \in Active => now' < tasks'[id].expiry
    <3>1. \A id \in DOMAIN tasks' : tasks'[id].expiry \in Nat
      BY <1>8 DEF StoreOK, Task
    <3>2. QED BY <1>1, <1>2, <1>9, <3>1 DEF Active
  <2>3. QED BY <1>1, <1>10, <2>1, <2>2 DEF BlockInv
<1>13. SettledInWindow'
  BY <1>1, <1>9 DEF IInv, SettledInWindow
<1>14. QueueSound' /\ NoPriorityInversion' /\ GasBound'
  BY <1>1, <1>10 DEF IInv, QueueSound, NoPriorityInversion, GasBound
<1>15. QED BY <1>8, <1>11, <1>12, <1>13, <1>14 DEF IInv

\* What is collected are PENDING tasks that are due and, since the overdue ones
\* have just been expired, not overdue.
LEMMA MoveDueInv == ASSUME IInv, MoveDueTasks PROVE IInv'
<1> DEFINE set == [id \in Due |-> [tasks[id] EXCEPT !.status = "PENDING"]]
<1>1. /\ UNCHANGED <<nextTaskId, params, metrics, bal, now>>
      /\ UNCHANGED <<cronGasUsed, selected, skipped>>
      /\ phase = "due" /\ phase' = "exec" /\ Write(set, {})
      /\ queue' = {<<k[2], k[3]>> : k \in {g \in gasIndex' : g[1] = "PENDING"}}
  BY DEF MoveDueTasks, SetTasks
<1>2. /\ now \in Nat /\ nextTaskId \in Nat
      /\ \A id \in DOMAIN tasks : id \in 1..(nextTaskId - 1) /\ tasks[id] \in Task
      /\ \A id \in DOMAIN tasks : tasks[id].status \in Active => now < tasks[id].expiry
  BY <1>1, BoundsAssumption DEF IInv, TypeOK, StoreOK, BlockInv
<1>3. \A id \in Due : /\ id \in DOMAIN tasks /\ tasks[id].status = "SCHEDULED"
                       /\ tasks[id].sched <= now
  BY DueScheduled
<1>4. DOMAIN set = Due
  OBVIOUS
<1>5. \A id \in Due :
         /\ set[id] \in Task /\ set[id].status = "PENDING"
         /\ set[id].creator = tasks[id].creator
         /\ set[id].sched <= now /\ now < set[id].expiry
  <2> TAKE id \in Due
  <2>1. set[id] = [tasks[id] EXCEPT !.status = "PENDING"]
    OBVIOUS
  <2>2. tasks[id] \in Task /\ tasks[id].sched <= now /\ now < tasks[id].expiry
    BY <1>2, <1>3 DEF Active
  <2> HIDE DEF set
  <2>3. QED BY <1>2, <2>1, <2>2 DEF Task, Status, Active
<1>6. Writable(set, {})
  BY <1>1, <1>2, <1>3, <1>4, <1>5, BoundsAssumption DEF Writable, IInv, TypeOK, StoreOK
<1> HIDE DEF set
<1>7. /\ DOMAIN tasks' = (DOMAIN tasks \cup DOMAIN set) \ {}
      /\ \A id \in DOMAIN tasks' :
            tasks'[id] = IF id \in DOMAIN set THEN set[id] ELSE tasks[id]
  BY <1>1, WriteRecords
<1>8. StoreOK' /\ IndexExact' /\ OrphansAreDone'
  BY <1>1, <1>6, WriteTypes, WriteIndexes DEF IInv, TypeOK
<1>9. \A id \in DOMAIN tasks' :
         \/ /\ tasks'[id].status = "PENDING"
            /\ tasks'[id].sched <= now /\ now < tasks'[id].expiry
         \/ id \in DOMAIN tasks /\ tasks'[id] = tasks[id]
  BY <1>3, <1>4, <1>5, <1>7
<1>10. cronGasUsed = 0 /\ selected = {} /\ skipped = {}
  BY <1>1 DEF IInv, BlockInv
<1>11. \A q \in queue' : /\ q \in Nat \X Nat /\ q[2] \in DOMAIN tasks'
                         /\ tasks'[q[2]].status = "PENDING" /\ tasks'[q[2]].price = q[1]
  <2> SUFFICES ASSUME NEW k \in gasIndex', k[1] = "PENDING"
               PROVE  /\ k[2] \in Nat /\ k[3] \in Nat /\ k[3] \in DOMAIN tasks'
                      /\ tasks'[k[3]].status = "PENDING" /\ tasks'[k[3]].price = k[2]
    BY <1>1
  <2>1. k[2] \in Nat /\ k[3] \in Nat
    BY <1>8 DEF StoreOK
  <2>2. k[3] \in DOMAIN tasks'
    BY <1>8 DEF OrphansAreDone
  <2>3. k = <<tasks'[k[3]].status, tasks'[k[3]].price, k[3]>>
    BY <1>8, <2>2 DEF IndexExact, GasKey
  <2>4. QED BY <2>1, <2>2, <2>3
<1>12. TypeOK'
  BY <1>1, <1>8, <1>11 DEF IInv, TypeOK, Phases
<1>13. QueueSound'
  BY <1>1, <1>2, <1>9, <1>11 DEF QueueSound, Active, IInv, BlockInv
<1>14. BlockInv'
  BY <1>1, <1>7, <1>8, <1>9, <1>10, <1>11 DEF IInv, BlockInv, StoreOK
<1>15. SettledInWindow'
  BY <1>1, <1>9 DEF IInv, SettledInWindow
<1>16. NoPriorityInversion' /\ GasBound'
  BY <1>1, <1>10 DEF IInv, NoPriorityInversion, GasBound
<1>17. QED BY <1>8, <1>12, <1>13, <1>14, <1>15, <1>16 DEF IInv

\* A task that is gone or too big leaves the queue and nothing else changes;
\* only the second is counted as skipped.
LEMMA PassInv ==
    ASSUME IInv, NEW p \in queue, PassGone(p) \/ PassTooBig(p)
    PROVE  IInv'
<1>1. /\ UNCHANGED <<tasks, addrIndex, tsIndex, gasIndex, nextTaskId, params>>
      /\ UNCHANGED <<metrics, bal, now, phase, cronGasUsed, selected>>
      /\ phase = "exec" /\ queue' = queue \ {p}
      /\ \A q \in queue \ {p} : Before(p, q)
      /\ \/ skipped' = skipped
         \/ /\ p[2] \in DOMAIN tasks /\ ~Fits(tasks[p[2]])
            /\ skipped' = skipped \cup {p[2]}
  BY DEF PassGone, PassTooBig, IsHead, store
<1>2. p[2] \in DOMAIN tasks => /\ p = <<tasks[p[2]].price, p[2]>> /\ p[2] \in Nat
                               /\ p[1] \in Nat /\ p[2] < nextTaskId
  BY HeadOfQueue DEF IInv
<1>3. /\ nextTaskId \in 1..(MaxTaskId + 1) /\ MaxTaskId \in Nat
      /\ DOMAIN tasks \subseteq 1..(nextTaskId - 1)
      /\ \A id \in DOMAIN tasks : tasks[id] \in Task
  BY BoundsAssumption DEF IInv, TypeOK, StoreOK
<1>4. TypeOK'
  <2>1. StoreOK'
    BY <1>1 DEF IInv, TypeOK, StoreOK
  <2>2. queue' \subseteq Nat \X Nat
    BY <1>1 DEF IInv, TypeOK
  <2>3. skipped' \subseteq 1..MaxTaskId
    <3>1. DOMAIN tasks \subseteq 1..MaxTaskId
      BY <1>3
    <3>2. QED BY <1>1, <3>1 DEF IInv, TypeOK
  <2>4. QED BY <1>1, <2>1, <2>2, <2>3 DEF IInv, TypeOK
<1>5. IndexExact' /\ OrphansAreDone'
  BY <1>1 DEF IInv, IndexExact, OrphansAreDone, AddrKeys, TsKeys, GasKeys
<1>6. \A id \in skipped' \cap DOMAIN tasks : ~Fits(tasks[id])
  BY <1>1 DEF IInv, BlockInv
<1>7. BlockInv'
  <2>1. \A q \in queue' : q[2] \in 1..(nextTaskId' - 1)
    BY <1>1 DEF IInv, BlockInv
  <2>2. selected' \cup skipped' \subseteq 1..(nextTaskId' - 1)
    BY <1>1, <1>3 DEF IInv, BlockInv
  <2>3. \A id \in (selected' \cup skipped') \cap DOMAIN tasks', q \in queue' :
           Before(<<tasks'[id].price, id>>, q)
    BY <1>1, <1>2 DEF IInv, BlockInv
  <2>4. \A id \in skipped' \cap DOMAIN tasks' : ~Fits(tasks[id])'
    BY <1>1, <1>6 DEF Fits
  <2>5. QED BY <1>1, <2>1, <2>2, <2>3, <2>4 DEF IInv, BlockInv
<1>8. NoPriorityInversion'
  <2> SUFFICES ASSUME NEW i \in skipped' \cap DOMAIN tasks,
                      NEW j \in selected \cap DOMAIN tasks,
                      Before(<<tasks[i].price, i>>, <<tasks[j].price, j>>)
               PROVE  tasks[j].limit < tasks[i].limit
    BY <1>1 DEF NoPriorityInversion
  <2>1. CASE i \in skipped
    BY <2>1 DEF IInv, NoPriorityInversion
  <2>2. CASE i = p[2]
    <3>1. Before(<<tasks[j].price, j>>, <<tasks[i].price, i>>)
      BY <1>2, <2>2 DEF IInv, BlockInv
    <3>2. tasks[i].price \in Nat /\ tasks[j].price \in Nat /\ i \in Nat /\ j \in Nat
      BY <1>3 DEF Task
    <3>3. QED BY <3>1, <3>2 DEF Before
  <2>3. QED BY <1>1, <2>1, <2>2
<1>9. QueueSound' /\ SettledInWindow' /\ GasBound'
  BY <1>1 DEF IInv, QueueSound, SettledInWindow, GasBound
<1>10. QED BY <1>4, <1>5, <1>7, <1>8, <1>9 DEF IInv

\* What SettleKeeps and the lemmas of the store give for a settled task.
LEMMA SettleInv ==
    ASSUME IInv, NEW p, NEW set, NEW del, Settles(p, set, del),
           UNCHANGED metrics, bal' \in [Accounts -> Nat],
           cronGasUsed' \in 0..MaxBlockGas,
           cronGasUsed' <= params.blockGasLimit + MaxOvershoot
    PROVE  IInv'
<1>1. /\ p \in queue /\ p[2] \in DOMAIN tasks
      /\ Write(set, del) /\ Writable(set, del)
      /\ queue' = queue \ {p} /\ selected' = selected \cup {p[2]}
      /\ UNCHANGED <<now, params, phase, skipped>>
  BY DEF Settles, IsHead
<1>2. StoreOK' /\ IndexExact' /\ OrphansAreDone'
  BY <1>1, WriteTypes, WriteIndexes DEF IInv, TypeOK
<1>3. BlockInv' /\ QueueSound' /\ SettledInWindow' /\ NoPriorityInversion'
  BY SettleKeeps
<1>4. DOMAIN tasks \subseteq 1..MaxTaskId
  BY BoundsAssumption DEF IInv, TypeOK, StoreOK
<1>5. TypeOK'
  <2>1. queue' \subseteq Nat \X Nat
    BY <1>1 DEF IInv, TypeOK
  <2>2. selected' \subseteq 1..MaxTaskId /\ skipped' \subseteq 1..MaxTaskId
    BY <1>1, <1>4 DEF IInv, TypeOK
  <2>3. params' \in ParamSet /\ now' \in 1..MaxTime /\ phase' \in Phases
    BY <1>1 DEF IInv, TypeOK
  <2>4. metrics' \in [gas: Nat, executed: Nat, pending: Nat]
    BY DEF IInv, TypeOK
  <2>5. QED BY <1>2, <2>1, <2>2, <2>3, <2>4 DEF TypeOK
<1>6. GasBound'
  BY <1>1 DEF GasBound
<1>7. QED BY <1>2, <1>3, <1>5, <1>6 DEF IInv

\* Writing the head's own record settled is a legal write.
LEMMA MarkedIsWritable ==
    ASSUME IInv, NEW p \in queue, p[2] \in DOMAIN tasks,
           NEW s \in {"DONE", "FAILED"}, nextTaskId' = nextTaskId
    PROVE  /\ Writable(Marked({p[2]}, s), {})
           /\ DOMAIN Marked({p[2]}, s) = {p[2]}
           /\ Marked({p[2]}, s)[p[2]] = [tasks[p[2]] EXCEPT !.status = s, !.execTs = now]
<1> DEFINE set == Marked({p[2]}, s)
<1>1. /\ DOMAIN set = {p[2]}
      /\ set[p[2]] = [tasks[p[2]] EXCEPT !.status = s, !.execTs = now]
  BY DEF Marked
<1>2. /\ tasks[p[2]] \in Task /\ now \in Nat /\ s \in Status
      /\ p[2] \in 1..(nextTaskId - 1) /\ nextTaskId \in 1..(MaxTaskId + 1)
      /\ MaxTaskId \in Nat
  BY BoundsAssumption DEF IInv, TypeOK, StoreOK, Status, Terminal
<1> HIDE DEF set
<1>3. set[p[2]] \in Task /\ set[p[2]].creator = tasks[p[2]].creator
  BY <1>1, <1>2 DEF Task
<1>4. Writable(set, {})
  <2>1. \A id \in DOMAIN set : id = p[2]
    BY <1>1
  <2>2. nextTaskId' \in nextTaskId..(MaxTaskId + 1) /\ p[2] \in 1..(nextTaskId' - 1)
    BY <1>2
  <2>3. QED BY <1>3, <2>1, <2>2 DEF Writable
<1>5. QED BY <1>1, <1>4 DEF set

(* Refusing a task whose fee cannot be paid keeps the invariant. *)
LEMMA RejectInv == ASSUME IInv, NEW p \in queue, Reject(p) PROVE IInv'
<1>1. /\ phase = "exec" /\ IsHead(p) /\ p[2] \in DOMAIN tasks
      /\ queue' = queue \ {p} /\ nextTaskId' = nextTaskId
      /\ UNCHANGED <<nextTaskId, params, metrics, bal, now, phase, cronGasUsed, skipped>>
  BY DEF Reject
<1>2. tasks[p[2]].sched <= now /\ now < tasks[p[2]].expiry
  BY <1>1, HeadOfQueue DEF IInv
<1>3. ~(tasks[p[2]].expiry <= now)
  BY <1>1, <1>2 DEF IInv, TypeOK, StoreOK, Task
<1>4. /\ Fits(tasks[p[2]]) /\ selected' = selected \cup {p[2]}
      /\ Write(Marked({p[2]}, "FAILED"), {})
  BY <1>3 DEF Reject, SetTasks
<1> DEFINE set == Marked({p[2]}, "FAILED")
<1>5. /\ Writable(set, {}) /\ DOMAIN set = {p[2]}
      /\ set[p[2]] = [tasks[p[2]] EXCEPT !.status = "FAILED", !.execTs = now]
  BY <1>1, MarkedIsWritable
<1>6. cronGasUsed \in 0..MaxBlockGas /\ nextTaskId \notin DOMAIN tasks
  BY BoundsAssumption DEF IInv, TypeOK, StoreOK
<1> HIDE DEF set
<1>7. Settles(p, set, {})
  BY <1>1, <1>4, <1>5, <1>6 DEF Settles, set
<1>8. bal' \in [Accounts -> Nat] /\ cronGasUsed' \in 0..MaxBlockGas
  BY <1>1, <1>6 DEF IInv, TypeOK
<1>9. cronGasUsed' <= params.blockGasLimit + MaxOvershoot
  BY <1>1 DEF IInv, GasBound
<1>10. metrics' = metrics
  BY <1>1
<1>11. QED BY <1>7, <1>8, <1>9, <1>10, SettleInv

(* So does a task that fails after its fee was paid. *)
LEMMA RunFailedInv ==
    ASSUME IInv, NEW p \in queue, p[2] \in DOMAIN tasks, RunFailed(p)
    PROVE  IInv'
<1>1. PICK gas \in 1..(tasks[p[2]].limit + MaxOvershoot) :
         /\ StartRun(p, gas)
         /\ Write(Marked({p[2]}, "FAILED"), {})
         /\ bal' = FeePaid(p[2])
         /\ UNCHANGED nextTaskId
  BY DEF RunFailed, SetTasks
<1>2. /\ phase = "exec" /\ IsHead(p) /\ queue' = queue \ {p}
      /\ Fits(tasks[p[2]]) /\ Spendable(bal, tasks[p[2]].creator) >= tasks[p[2]].fee
      /\ cronGasUsed' = cronGasUsed + gas /\ cronGasUsed + gas <= MaxBlockGas
      /\ selected' = selected \cup {p[2]}
      /\ UNCHANGED <<params, metrics, now, phase, skipped>> /\ nextTaskId' = nextTaskId
  BY <1>1 DEF StartRun
<1>3. /\ tasks[p[2]] \in Task /\ params \in Params
      /\ cronGasUsed \in Nat /\ gas \in Nat /\ MaxOvershoot \in Nat
      /\ gas <= tasks[p[2]].limit + MaxOvershoot /\ MaxBlockGas \in Nat
      /\ nextTaskId \notin DOMAIN tasks
  BY BoundsAssumption, ParamsAssumption DEF IInv, TypeOK, StoreOK, Task
<1> DEFINE set == Marked({p[2]}, "FAILED")
<1>4. /\ Writable(set, {}) /\ DOMAIN set = {p[2]}
      /\ set[p[2]] = [tasks[p[2]] EXCEPT !.status = "FAILED", !.execTs = now]
  BY <1>2, MarkedIsWritable
<1>5. Write(set, {})
  BY <1>1
<1> HIDE DEF set
<1>6. cronGasUsed' \in 0..MaxBlockGas /\ cronGasUsed <= cronGasUsed'
  BY <1>2, <1>3
<1>7. Settles(p, set, {})
  BY <1>2, <1>3, <1>4, <1>5, <1>6 DEF Settles
<1>8. bal' \in [Accounts -> Nat]
  BY <1>1, <1>2, FeeType DEF IInv
<1>9. cronGasUsed' <= params.blockGasLimit + MaxOvershoot
  BY <1>2, <1>3 DEF Fits, Task, Params
<1>10. UNCHANGED metrics
  BY <1>2
<1>11. QED BY <1>6, <1>7, <1>8, <1>9, <1>10, SettleInv

\* The messages of the task ran: the write holds its record, the task it
\* created, and the deletions it made, its own included.
LEMMA RunDoneInv ==
    ASSUME IInv, NEW p \in queue, p[2] \in DOMAIN tasks, RunDone(p)
    PROVE  IInv'
<1> DEFINE none == [id \in {} |-> {}]
           ran == Marked({p[2]}, "DONE")
<1>1. PICK gas \in 1..tasks[p[2]].limit, del \in SUBSET DOMAIN tasks,
           new \in NewRecords \cup {none} :
         /\ StartRun(p, gas)
         /\ Write([id \in {p[2]} \cup DOMAIN new |->
                      IF id \in DOMAIN new THEN new[id] ELSE ran[id]], del)
         /\ nextTaskId' = IF DOMAIN new = {} THEN nextTaskId ELSE nextTaskId + 1
         /\ bal' \in Payments(FeePaid(p[2]))
  BY DEF RunDone
<1>2. /\ phase = "exec" /\ IsHead(p) /\ queue' = queue \ {p}
      /\ Fits(tasks[p[2]]) /\ Spendable(bal, tasks[p[2]].creator) >= tasks[p[2]].fee
      /\ cronGasUsed' = cronGasUsed + gas /\ cronGasUsed + gas <= MaxBlockGas
      /\ selected' = selected \cup {p[2]}
      /\ UNCHANGED <<params, metrics, now, phase, skipped>>
  BY <1>1 DEF StartRun
<1>3. /\ tasks[p[2]] \in Task /\ params \in Params /\ now \in Nat
      /\ cronGasUsed \in Nat /\ gas \in Nat /\ MaxOvershoot \in Nat
      /\ gas <= tasks[p[2]].limit /\ MaxBlockGas \in Nat /\ MaxTaskId \in Nat
      /\ nextTaskId \in 1..(MaxTaskId + 1) /\ DOMAIN tasks \subseteq 1..(nextTaskId - 1)
  <2>1. tasks[p[2]] \in Task /\ tasks[p[2]].limit \in Nat
    BY DEF IInv, TypeOK, StoreOK, Task
  <2>2. /\ params \in Params /\ now \in Nat /\ cronGasUsed \in Nat
        /\ MaxBlockGas \in Nat /\ MaxTaskId \in Nat /\ MaxOvershoot \in Nat
        /\ nextTaskId \in 1..(MaxTaskId + 1) /\ DOMAIN tasks \subseteq 1..(nextTaskId - 1)
    BY BoundsAssumption, ParamsAssumption DEF IInv, TypeOK, StoreOK
  <2>3. QED BY <2>1, <2>2
<1> DEFINE set == [id \in {p[2]} \cup DOMAIN new |->
                      IF id \in DOMAIN new THEN new[id] ELSE ran[id]]
<1>4. \/ DOMAIN new = {} /\ nextTaskId' = nextTaskId
      \/ /\ DOMAIN new = {nextTaskId} /\ nextTaskId \in 1..MaxTaskId
         /\ new[nextTaskId] \in Task /\ new[nextTaskId].status = "SCHEDULED"
         /\ nextTaskId' = nextTaskId + 1
  <2>1. CASE new \in NewRecords
    <3>1. /\ DOMAIN new = {nextTaskId} /\ nextTaskId \in 1..MaxTaskId
          /\ new[nextTaskId] \in Task /\ new[nextTaskId].status = "SCHEDULED"
      BY <2>1, NewRecord DEF IInv
    <3>2. QED BY <1>1, <3>1
  <2>2. CASE new = none
    BY <1>1, <2>2
  <2>3. QED BY <2>1, <2>2
<1>5. /\ ran[p[2]] = [tasks[p[2]] EXCEPT !.status = "DONE", !.execTs = now]
      /\ nextTaskId \notin DOMAIN tasks /\ p[2] # nextTaskId /\ p[2] \notin DOMAIN new
  <2>1. ran[p[2]] = [tasks[p[2]] EXCEPT !.status = "DONE", !.execTs = now]
    BY DEF Marked
  <2> HIDE DEF ran
  <2>2. nextTaskId \notin DOMAIN tasks /\ p[2] # nextTaskId
    BY <1>3
  <2>3. p[2] \notin DOMAIN new
    BY <1>4, <2>2
  <2>4. QED BY <2>1, <2>2, <2>3
<1>6. ran[p[2]] \in Task /\ ran[p[2]].status = "DONE" /\ ran[p[2]].creator = tasks[p[2]].creator
  <2> DEFINE was == tasks[p[2]]
  <2>1. ran[p[2]] = [was EXCEPT !.status = "DONE", !.execTs = now] /\ was \in Task /\ now \in Nat
    BY <1>3, <1>5
  <2>2. "DONE" \in Status
    BY DEF Status, Terminal
  <2> HIDE DEF ran, was
  <2>3. ran[p[2]] \in Task /\ ran[p[2]].status = "DONE" /\ ran[p[2]].creator = was.creator
    BY <2>1, <2>2 DEF Task
  <2>4. QED BY <2>3 DEF was
<1> HIDE DEF ran
<1>7. /\ DOMAIN set \subseteq {p[2], nextTaskId} /\ p[2] \in DOMAIN set
      /\ set[p[2]] = ran[p[2]]
      /\ nextTaskId \in DOMAIN set => /\ set[nextTaskId] = new[nextTaskId]
                                      /\ nextTaskId \in DOMAIN new
  BY <1>4, <1>5
<1>8. Write(set, del)
  BY <1>1
<1> HIDE DEF set
<1>9. Writable(set, del)
  <2>1. nextTaskId' \in nextTaskId..(MaxTaskId + 1) /\ DOMAIN set \subseteq 1..(nextTaskId' - 1)
    <3>1. p[2] \in 1..(nextTaskId - 1)
      BY <1>3
    <3>2. CASE DOMAIN new = {} /\ nextTaskId' = nextTaskId
      <4>1. DOMAIN set \subseteq {p[2]}
        BY <1>7, <3>2
      <4>2. QED BY <1>3, <3>1, <3>2, <4>1
    <3>3. CASE nextTaskId \in 1..MaxTaskId /\ nextTaskId' = nextTaskId + 1
      <4>1. nextTaskId' \in nextTaskId..(MaxTaskId + 1)
        BY <1>3, <3>3
      <4>2. p[2] \in 1..(nextTaskId' - 1) /\ nextTaskId \in 1..(nextTaskId' - 1)
        BY <3>1, <3>3
      <4>3. QED BY <1>7, <4>1, <4>2
    <3>4. QED BY <1>4, <3>2, <3>3
  <2>2. \A id \in DOMAIN set : set[id] \in Task
    BY <1>4, <1>6, <1>7
  <2>3. /\ \A id \in DOMAIN set \cap DOMAIN tasks : set[id].creator = tasks[id].creator
        /\ \A id \in DOMAIN set \cap del : set[id].status = "DONE"
    BY <1>5, <1>6, <1>7
  <2>4. QED BY <1>7, <2>1, <2>2, <2>3 DEF Writable
<1>10. cronGasUsed' \in 0..MaxBlockGas /\ cronGasUsed <= cronGasUsed'
  BY <1>2, <1>3
<1>11. Settles(p, set, del)
  BY <1>2, <1>4, <1>5, <1>7, <1>8, <1>9, <1>10 DEF Settles
<1>12. bal' \in [Accounts -> Nat]
  <2>1. FeePaid(p[2]) \in [Accounts -> Nat]
    BY <1>2, FeeType DEF IInv
  <2>2. QED BY <1>1, <2>1, PaymentsType
<1>13. cronGasUsed' <= params.blockGasLimit + MaxOvershoot
  <2>1. /\ tasks[p[2]].limit \in Nat /\ params.blockGasLimit \in Nat
        /\ tasks[p[2]].limit <= params.blockGasLimit - cronGasUsed
    BY <1>2, <1>3 DEF Fits, Task, Params
  <2> DEFINE limit == tasks[p[2]].limit
             bound == params.blockGasLimit
  <2>2. /\ limit \in Nat /\ bound \in Nat /\ limit <= bound - cronGasUsed /\ gas <= limit
    BY <1>3, <2>1
  <2>3. cronGasUsed \in Nat /\ gas \in Nat /\ MaxOvershoot \in Nat /\ cronGasUsed' = cronGasUsed + gas
    BY <1>2, <1>3
  <2> HIDE DEF limit, bound
  <2>4. cronGasUsed' <= bound + MaxOvershoot
    BY <2>2, <2>3
  <2>5. QED BY <2>4 DEF bound
<1>14. UNCHANGED metrics
  BY <1>2
<1>15. QED BY <1>10, <1>11, <1>12, <1>13, <1>14, SettleInv

-----------------------------------------------------------------------------
(* The theorems                                                            *)

\* Every step of the chain, and every stuttering step, keeps the invariant.
THEOREM NextInv == IInv /\ [Next]_vars => IInv'
<1> SUFFICES ASSUME IInv, [Next]_vars PROVE IInv'
  OBVIOUS
<1>1. CASE CheckExpiredTasks
  BY <1>1, CheckExpiredInv
<1>2. CASE MoveDueTasks
  BY <1>2, MoveDueInv
<1>3. CASE ExecPending
  <2>1. PICK p \in queue : \/ PassGone(p) \/ PassTooBig(p) \/ Reject(p)
                           \/ p[2] \in DOMAIN tasks /\ RunDone(p)
                           \/ p[2] \in DOMAIN tasks /\ RunFailed(p)
    BY <1>3 DEF ExecPending
  <2>2. CASE PassGone(p) \/ PassTooBig(p)
    BY <2>2, PassInv
  <2>3. CASE Reject(p)
    BY <2>3, RejectInv
  <2>4. CASE p[2] \in DOMAIN tasks /\ RunDone(p)
    BY <2>4, RunDoneInv
  <2>5. CASE p[2] \in DOMAIN tasks /\ RunFailed(p)
    BY <2>5, RunFailedInv
  <2>6. QED BY <2>1, <2>2, <2>3, <2>4, <2>5
<1>4. CASE FinishBeginBlock
  BY <1>4, FinishInv
<1>5. CASE CreateTask
  BY <1>5, CreateTaskInv
<1>6. ASSUME NEW caller \in Creators, NEW id \in DOMAIN tasks, DeleteTask(caller, id)
      PROVE  IInv'
  BY <1>6, DeleteTaskInv
<1>7. CASE UpdateParams
  BY <1>7, UpdateParamsInv
<1>8. CASE Transfer
  BY <1>8, TransferInv
<1>9. CASE Restart
  BY <1>9, RestartInv
<1>10. ASSUME NEW step \in TimeSteps, EndBlock(step) PROVE IInv'
  BY <1>10, NextHeaderInv DEF EndBlock
<1>11. CASE UNCHANGED vars
  <2>1. /\ UNCHANGED <<tasks, addrIndex, tsIndex, gasIndex, nextTaskId, params, metrics>>
        /\ UNCHANGED <<bal, now, phase, queue, cronGasUsed, selected, skipped>>
    BY <1>11 DEF vars, store, local
  <2>2. TypeOK'
    BY <2>1 DEF IInv, TypeOK, StoreOK
  <2>3. IndexExact' /\ OrphansAreDone'
    BY <2>1 DEF IInv, IndexExact, OrphansAreDone, AddrKeys, TsKeys, GasKeys
  <2>4. BlockInv' /\ QueueSound' /\ SettledInWindow' /\ NoPriorityInversion' /\ GasBound'
    BY <2>1 DEF IInv, BlockInv, QueueSound, SettledInWindow, NoPriorityInversion,
                GasBound, Fits
  <2>5. QED BY <2>2, <2>3, <2>4 DEF IInv
<1>12. QED
  BY <1>1, <1>2, <1>3, <1>4, <1>5, <1>6, <1>7, <1>8, <1>9, <1>10, <1>11
     DEF Next, BeginBlocker, Deliver

\* The inductive invariant holds in every reachable state.
THEOREM Inductive == Spec => []IInv
BY InitInv, NextInv, PTL DEF Spec

\* Every variable keeps its type: no balance is overdrawn, no gas is uncounted.
THEOREM TypeCorrect == Spec => []TypeOK
<1>1. IInv => TypeOK
  BY DEF IInv
<1>2. QED BY <1>1, Inductive, PTL

\* SetTask and RemoveTask keep the three indexes exact.
THEOREM IndexesExact == Spec => []IndexExact
<1>1. IInv => IndexExact
  BY DEF IInv
<1>2. QED BY <1>1, Inductive, PTL

\* The only entries without a record are those of tasks that finished and deleted
\* themselves, and no task is ever given their ids again.
THEOREM OrphansHold == Spec => []OrphansAreDone
<1>1. IInv => OrphansAreDone
  BY DEF IInv
<1>2. QED BY <1>1, Inductive, PTL

\* What BeginBlocker collected stays true until it is used.
THEOREM QueueStaysSound == Spec => []QueueSound
<1>1. IInv => QueueSound
  BY DEF IInv
<1>2. QED BY <1>1, Inductive, PTL

\* A task runs, or fails to, only inside its window, and expires only after it.
THEOREM WindowsAreKept == Spec => []SettledInWindow
<1>1. IInv => SettledInWindow
  BY DEF IInv
<1>2. QED BY <1>1, Inductive, PTL

\* Within a block a task without room is overtaken by smaller ones only.
THEOREM PriorityIsKept == Spec => []NoPriorityInversion
<1>1. IInv => NoPriorityInversion
  BY DEF IInv
<1>2. QED BY <1>1, Inductive, PTL

\* The tasks of a block never consume more than the limit and one overshoot.
THEOREM GasIsBounded == Spec => []GasBound
<1>1. IInv => GasBound
  BY DEF IInv
<1>2. QED BY <1>1, Inductive, PTL

-----------------------------------------------------------------------------
(* Steps: proofs of the action properties                                  *)

(* Lifecycle                                                               *)

\* a record that a block writes over the record of an existing task
Moves(s, t) ==
    /\ t = [s EXCEPT !.status = t.status, !.execTs = t.execTs]
    /\ Forward(s, t)

(* A task with another status has moved along the life cycle when the pair of them is in it. *)
LEMMA MovesForward ==
    ASSUME NEW s \in Task, NEW status \in Status, NEW n \in Nat, NEW t,
           \/ t = [s EXCEPT !.status = status]
           \/ t = [s EXCEPT !.status = status, !.execTs = n],
           \/ s.status = "SCHEDULED" /\ status \in {"PENDING", "EXPIRED"}
           \/ s.status = "PENDING" /\ status \in Terminal
    PROVE  Moves(s, t)
<1>1. t.status = status
  BY DEF Task
<1>2. t = [s EXCEPT !.status = t.status, !.execTs = t.execTs]
  BY DEF Task
<1>3. QED BY <1>1, <1>2 DEF Moves, Forward

\* The next id is that of no task.
LEMMA NextIdFresh == ASSUME StoreOK PROVE nextTaskId \notin DOMAIN tasks
BY BoundsAssumption DEF StoreOK

\* A write that moves existing records forward, and adds at most the next id.
LEMMA WriteMoves ==
    ASSUME TypeOK, NEW set, NEW del, Write(set, del),
           \A id \in DOMAIN set \cap DOMAIN tasks : Moves(tasks[id], set[id]),
           \A id \in DOMAIN set \ DOMAIN tasks :
              id = nextTaskId /\ nextTaskId' = nextTaskId + 1 /\ set[id].status = "SCHEDULED"
    PROVE  LifecycleStep
<1>1. /\ DOMAIN tasks' = (DOMAIN tasks \cup DOMAIN set) \ del
      /\ \A id \in DOMAIN tasks' :
            tasks'[id] = IF id \in DOMAIN set THEN set[id] ELSE tasks[id]
  BY WriteRecords
<1>2. ASSUME NEW id \in DOMAIN tasks \cap DOMAIN tasks'
      PROVE  Moves(tasks[id], tasks'[id])
  <2>1. CASE id \in DOMAIN set
    BY <1>1, <2>1
  <2>2. CASE id \notin DOMAIN set
    <3>1. tasks'[id] = tasks[id] /\ tasks[id] \in Task
      BY <1>1, <2>2 DEF TypeOK, StoreOK
    <3>2. tasks[id] = [tasks[id] EXCEPT !.status = tasks[id].status,
                                        !.execTs = tasks[id].execTs]
      BY <3>1 DEF Task
    <3>3. QED BY <3>1, <3>2 DEF Moves, Forward
  <2>3. QED BY <2>1, <2>2
<1>3. ASSUME NEW id \in DOMAIN tasks' \ DOMAIN tasks
      PROVE  id = nextTaskId /\ nextTaskId' = nextTaskId + 1 /\ tasks'[id].status = "SCHEDULED"
  BY <1>1
<1>4. QED BY <1>2, <1>3 DEF LifecycleStep, Moves

\* Nothing is written.
LEMMA NoWriteMoves == ASSUME TypeOK, UNCHANGED tasks PROVE LifecycleStep
<1>1. \A id \in DOMAIN tasks :
         tasks[id] = [tasks[id] EXCEPT !.status = tasks[id].status, !.execTs = tasks[id].execTs]
  BY DEF TypeOK, StoreOK, Task
<1>2. QED BY <1>1 DEF LifecycleStep, Forward

(* Removing tasks moves none of the others. *)
LEMMA RemoveMoves ==
    ASSUME TypeOK, NEW del, Write([i \in {} |-> {}], del)
    PROVE  LifecycleStep
<1> DEFINE none == [i \in {} |-> {}]
<1>1. DOMAIN none = {} /\ Write(none, del)
  OBVIOUS
<1> HIDE DEF none
<1>2. QED BY <1>1, WriteMoves

\* The head of the queue is PENDING, so settling it is a step forward.
LEMMA HeadMoves ==
    ASSUME IInv, NEW p \in queue, p[2] \in DOMAIN tasks,
           NEW s \in {"DONE", "FAILED", "EXPIRED"}
    PROVE  Moves(tasks[p[2]], Marked({p[2]}, s)[p[2]])
<1>1. /\ tasks[p[2]] \in Task /\ tasks[p[2]].status = "PENDING"
      /\ now \in Nat /\ s \in Status /\ s \in Terminal
  BY HeadOfQueue, BoundsAssumption DEF IInv, TypeOK, Status, Terminal
<1>2. Marked({p[2]}, s)[p[2]] = [tasks[p[2]] EXCEPT !.status = s, !.execTs = now]
  BY DEF Marked
<1> DEFINE t == Marked({p[2]}, s)[p[2]]
<1>3. t = [tasks[p[2]] EXCEPT !.status = s, !.execTs = now]
  BY <1>2
<1> HIDE DEF t
<1>4. Moves(tasks[p[2]], t)
  BY <1>1, <1>3, MovesForward
<1>5. QED BY <1>4 DEF t

(* The passes at the beginning of a block move tasks along the life cycle only. *)
LEMMA BlockMoves == ASSUME IInv, CheckExpiredTasks \/ MoveDueTasks PROVE LifecycleStep
<1>0. TypeOK /\ now \in Nat /\ \A id \in DOMAIN tasks : tasks[id] \in Task
  BY BoundsAssumption DEF IInv, TypeOK, StoreOK
<1>1. CASE CheckExpiredTasks
  <2> DEFINE set == Marked(Overdue, "EXPIRED")
  <2>1. Write(set, {}) /\ DOMAIN set = Overdue /\ Overdue \subseteq DOMAIN tasks
    BY <1>1 DEF CheckExpiredTasks, SetTasks, Marked, Overdue
  <2>2. \A id \in Overdue : set[id] = [tasks[id] EXCEPT !.status = "EXPIRED", !.execTs = now]
    BY DEF Marked
  <2> HIDE DEF set
  <2>3. ASSUME NEW id \in Overdue PROVE Moves(tasks[id], set[id])
    <3>1. tasks[id].status \in Active /\ tasks[id] \in Task
      BY <1>0, <2>1, OverdueExact
    <3>2. set[id] = [tasks[id] EXCEPT !.status = "EXPIRED", !.execTs = now]
      BY <2>2
    <3>3. "EXPIRED" \in Status /\ "EXPIRED" \in Terminal
      BY DEF Status, Terminal
    <3>4. QED BY <1>0, <3>1, <3>2, <3>3, MovesForward DEF Active
  <2>4. QED BY <1>0, <2>1, <2>3, WriteMoves
<1>2. CASE MoveDueTasks
  <2> DEFINE set == [id \in Due |-> [tasks[id] EXCEPT !.status = "PENDING"]]
  <2>1. Write(set, {}) /\ DOMAIN set = Due /\ Due \subseteq DOMAIN tasks
    BY <1>2 DEF MoveDueTasks, SetTasks, Due
  <2>2. \A id \in Due : set[id] = [tasks[id] EXCEPT !.status = "PENDING"]
    OBVIOUS
  <2> HIDE DEF set
  <2>3. ASSUME NEW id \in Due PROVE Moves(tasks[id], set[id])
    <3>1. tasks[id].status = "SCHEDULED" /\ tasks[id] \in Task
      BY <1>0, <2>1, DueScheduled
    <3>2. set[id] = [tasks[id] EXCEPT !.status = "PENDING"]
      BY <2>2
    <3>3. "PENDING" \in Status
      BY DEF Status, Active
    <3>4. QED BY <1>0, <3>1, <3>2, <3>3, MovesForward
  <2>4. QED BY <1>0, <2>1, <2>3, WriteMoves
<1>3. QED BY <1>1, <1>2

(* So does the execution of a queued task. *)
LEMMA ExecMoves == ASSUME IInv, ExecPending PROVE LifecycleStep
<1>0. TypeOK
  BY DEF IInv
<1>1. PICK p \in queue : \/ PassGone(p) \/ PassTooBig(p) \/ Reject(p)
                         \/ p[2] \in DOMAIN tasks /\ RunDone(p)
                         \/ p[2] \in DOMAIN tasks /\ RunFailed(p)
  BY DEF ExecPending
<1>2. CASE PassGone(p) \/ PassTooBig(p)
  <2>1. UNCHANGED tasks
    BY <1>2 DEF PassGone, PassTooBig, store
  <2>2. QED BY <1>0, <2>1, NoWriteMoves
<1>3. ASSUME p[2] \in DOMAIN tasks, NEW s \in {"DONE", "FAILED", "EXPIRED"},
             Write(Marked({p[2]}, s), {})
      PROVE  LifecycleStep
  <2> DEFINE set == Marked({p[2]}, s)
  <2>1. Write(set, {}) /\ DOMAIN set = {p[2]}
    BY <1>3 DEF Marked
  <2>2. Moves(tasks[p[2]], set[p[2]])
    BY <1>3, HeadMoves
  <2> HIDE DEF set
  <2>3. QED BY <1>0, <1>3, <2>1, <2>2, WriteMoves
<1>4. CASE Reject(p)
  BY <1>3, <1>4 DEF Reject, SetTasks
<1>5. CASE p[2] \in DOMAIN tasks /\ RunFailed(p)
  BY <1>3, <1>5 DEF RunFailed, SetTasks
<1>6. CASE p[2] \in DOMAIN tasks /\ RunDone(p)
  <2> DEFINE none == [id \in {} |-> {}]
             ran == Marked({p[2]}, "DONE")
  <2>1. PICK del \in SUBSET DOMAIN tasks, new \in NewRecords \cup {none} :
           /\ Write([id \in {p[2]} \cup DOMAIN new |->
                        IF id \in DOMAIN new THEN new[id] ELSE ran[id]], del)
           /\ nextTaskId' = IF DOMAIN new = {} THEN nextTaskId ELSE nextTaskId + 1
    BY <1>6 DEF RunDone
  <2>2. \/ DOMAIN new = {}
        \/ /\ DOMAIN new = {nextTaskId} /\ new[nextTaskId].status = "SCHEDULED"
           /\ nextTaskId' = nextTaskId + 1 /\ nextTaskId \in 1..MaxTaskId
    <3>1. CASE new \in NewRecords
      <4>1. DOMAIN new = {nextTaskId} /\ new[nextTaskId].status = "SCHEDULED"
            /\ nextTaskId \in 1..MaxTaskId
        BY <1>0, <3>1, NewRecord
      <4>2. QED BY <2>1, <4>1
    <3>2. CASE new = none
      BY <3>2
    <3>3. QED BY <3>1, <3>2
  <2>3. nextTaskId \notin DOMAIN tasks
    BY NextIdFresh DEF IInv, TypeOK
  <2>4. Moves(tasks[p[2]], ran[p[2]])
    BY <1>6, HeadMoves
  <2> HIDE DEF ran
  <2> DEFINE set == [id \in {p[2]} \cup DOMAIN new |->
                        IF id \in DOMAIN new THEN new[id] ELSE ran[id]]
  <2>5. Write(set, del)
    BY <2>1
  <2>6. /\ \A id \in DOMAIN set : id = p[2] \/ id \in DOMAIN new
        /\ p[2] \notin DOMAIN new => set[p[2]] = ran[p[2]]
        /\ \A id \in DOMAIN new : id \in DOMAIN set /\ set[id] = new[id]
    OBVIOUS
  <2> HIDE DEF set
  <2>7. \A id \in DOMAIN set \cap DOMAIN tasks : Moves(tasks[id], set[id])
    BY <1>6, <2>2, <2>3, <2>4, <2>6
  <2>8. \A id \in DOMAIN set \ DOMAIN tasks :
           id = nextTaskId /\ nextTaskId' = nextTaskId + 1 /\ set[id].status = "SCHEDULED"
    BY <1>6, <2>2, <2>6
  <2>9. QED BY <1>0, <2>5, <2>7, <2>8, WriteMoves
<1>7. QED BY <1>1, <1>2, <1>4, <1>5, <1>6

(* So do the messages of a block. *)
LEMMA DeliverMoves == ASSUME IInv, Deliver PROVE LifecycleStep
<1>0. TypeOK
  BY DEF IInv
<1>1. CASE CreateTask
  <2>1. PICK new \in NewRecords : Write(new, {})
    BY <1>1 DEF CreateTask, SetTasks
  <2>2. DOMAIN new = {nextTaskId} /\ new[nextTaskId].status = "SCHEDULED"
    BY <1>0, NewRecord
  <2>3. nextTaskId \notin DOMAIN tasks /\ nextTaskId' = nextTaskId + 1
    BY <1>1, NextIdFresh DEF CreateTask, IInv, TypeOK
  <2>4. QED BY <1>0, <2>1, <2>2, <2>3, WriteMoves
<1>2. ASSUME NEW caller \in Creators, NEW id \in DOMAIN tasks, DeleteTask(caller, id)
      PROVE  LifecycleStep
  BY <1>0, <1>2, RemoveMoves DEF DeleteTask, RemoveTasks
<1>3. CASE UpdateParams \/ Transfer \/ Restart
  <2>1. UNCHANGED tasks
    BY <1>3 DEF UpdateParams, Transfer, Restart, store
  <2>2. QED BY <1>0, <2>1, NoWriteMoves
<1>4. QED BY <1>1, <1>2, <1>3 DEF Deliver

(* So does everything that BeginBlocker and the messages between two blocks do. *)
LEMMA StepMoves == ASSUME IInv, BeginBlocker \/ Deliver PROVE LifecycleStep
<1>0. TypeOK
  BY DEF IInv
<1>1. CASE CheckExpiredTasks \/ MoveDueTasks
  BY <1>1, BlockMoves
<1>2. CASE ExecPending
  BY <1>2, ExecMoves
<1>3. CASE FinishBeginBlock
  BY <1>0, <1>3, RemoveMoves DEF FinishBeginBlock, RemoveTasks
<1>4. CASE Deliver
  BY <1>4, DeliverMoves
<1>5. QED BY <1>1, <1>2, <1>3, <1>4 DEF BeginBlocker

\* A settled task is never run, charged or rewritten again, ids are never reused,
\* and no step changes a record beyond its status and execution time.
THEOREM LifecycleHolds == Spec => Lifecycle
<1>1. IInv /\ [Next]_vars => [LifecycleStep]_vars
  <2> SUFFICES ASSUME IInv, Next PROVE LifecycleStep
    OBVIOUS
  <2>1. CASE BeginBlocker \/ Deliver
    BY <2>1, StepMoves
  <2>2. ASSUME NEW step \in TimeSteps, EndBlock(step) PROVE LifecycleStep
    <3>1. UNCHANGED tasks
      BY <2>2 DEF EndBlock, NextHeader, store
    <3>2. QED BY <3>1, NoWriteMoves DEF IInv
  <2>3. QED BY <2>1, <2>2 DEF Next
<1>2. QED BY <1>1, Inductive, PTL DEF Spec, Lifecycle

-----------------------------------------------------------------------------
(* Fees                                                                    *)

\* A payment between two creators leaves the collector's balance alone.
LEMMA CollectorAside ==
    ASSUME NEW b \in [Accounts -> Nat], NEW c \in Payments(b)
    PROVE  c[Collector] = b[Collector]
<1>1. CASE c = b
  BY <1>1
<1>2. ASSUME NEW x \in Creators \X Creators \X (1..MaxPay),
             c = [b EXCEPT ![x[1]] = @ - x[3], ![x[2]] = @ + x[3]]
      PROVE  c[Collector] = b[Collector]
  <2>1. x[1] # Collector /\ x[2] # Collector /\ Collector \in Accounts
    BY AccountAssumption DEF Accounts
  <2>2. QED BY <1>2, <2>1
<1>3. QED BY <1>1, <1>2 DEF Payments

(* A transfer leaves the collector of fees alone. *)
LEMMA TransferAside == ASSUME TypeOK, Transfer PROVE bal'[Collector] = bal[Collector]
<1>1. PICK from \in Creators, to \in Creators, amount \in 1..MaxPay :
         bal' = Pay(from, to, amount)
  BY DEF Transfer
<1>2. /\ from # Collector /\ to # Collector /\ Collector \in Accounts
      /\ bal \in [Accounts -> Nat]
  BY AccountAssumption DEF Accounts, TypeOK
<1>3. QED BY <1>1, <1>2 DEF Pay

\* The fee reaches the collector in full.
LEMMA FeeReaches ==
    ASSUME TypeOK, NEW id \in DOMAIN tasks
    PROVE  FeePaid(id)[Collector] = bal[Collector] + tasks[id].fee
<1>1. /\ tasks[id].creator # Collector /\ bal \in [Accounts -> Nat] /\ Collector \in Accounts
  BY AccountAssumption DEF TypeOK, StoreOK, Task, Accounts
<1>2. QED BY <1>1 DEF FeePaid, Pay

\* A task that is still queued has not been selected in this block.
LEMMA HeadNotSelected ==
    ASSUME IInv, NEW p \in queue, p[2] \in DOMAIN tasks
    PROVE  p[2] \notin selected
<1>1. p = <<tasks[p[2]].price, p[2]>> /\ tasks[p[2]] \in Task /\ p[2] \in Nat
  BY HeadOfQueue DEF IInv
<1>2. ~Before(p, p)
  BY <1>1 DEF Before, Task
<1>3. QED BY <1>1, <1>2 DEF IInv, BlockInv

(* A task that runs pays the collector its fee, whether it fails or not. *)
LEMMA RunPays ==
    ASSUME IInv, NEW p \in queue, p[2] \in DOMAIN tasks, RunDone(p) \/ RunFailed(p)
    PROVE  bal'[Collector] = bal[Collector] + tasks[p[2]].fee
<1>1. Spendable(bal, tasks[p[2]].creator) >= tasks[p[2]].fee
  BY DEF RunDone, RunFailed, StartRun
<1>2. FeePaid(p[2]) \in [Accounts -> Nat]
  BY <1>1, FeeType DEF IInv
<1>3. bal' = FeePaid(p[2]) \/ bal' \in Payments(FeePaid(p[2]))
  BY DEF RunDone, RunFailed
<1>4. bal'[Collector] = FeePaid(p[2])[Collector]
  BY <1>2, <1>3, CollectorAside
<1>5. QED BY <1>4, FeeReaches DEF IInv

(* A run pays the fee, and it is the only step that does. *)
LEMMA RunPaysOnce ==
    ASSUME IInv, NEW p \in queue, p[2] \in DOMAIN tasks, RunDone(p) \/ RunFailed(p)
    PROVE  FeeStep
<1>1. tasks[p[2]].status = "PENDING" /\ p[2] \notin selected
  BY HeadOfQueue, HeadNotSelected DEF IInv
<1>2. selected' = selected \cup {p[2]}
  BY DEF RunDone, RunFailed, StartRun
<1>3. bal'[Collector] = bal[Collector] + tasks[p[2]].fee
  BY RunPays
<1>4. p[2] \in DOMAIN tasks' => tasks'[p[2]].status \in {"DONE", "FAILED"}
  <2> DEFINE written(s) == [tasks[p[2]] EXCEPT !.status = s, !.execTs = now]
  <2>1. \A s \in {"DONE", "FAILED"} : written(s).status = s
    BY HeadOfQueue DEF IInv, Task
  <2>2. CASE RunFailed(p)
    BY <2>1, <2>2 DEF RunFailed, SetTasks, Write, Marked
  <2>3. CASE RunDone(p)
    <3>1. PICK del \in SUBSET DOMAIN tasks, new \in NewRecords \cup {[id \in {} |-> {}]} :
             Write([id \in {p[2]} \cup DOMAIN new |->
                       IF id \in DOMAIN new THEN new[id]
                       ELSE Marked({p[2]}, "DONE")[id]], del)
      BY <2>3 DEF RunDone
    <3>2. p[2] \notin DOMAIN new
      <4>1. new \in NewRecords => DOMAIN new = {nextTaskId}
        BY DEF NewRecords
      <4>2. nextTaskId \notin DOMAIN tasks
        <5>1. nextTaskId \in 1..(MaxTaskId + 1) /\ DOMAIN tasks \subseteq 1..(nextTaskId - 1)
          BY DEF IInv, TypeOK, StoreOK
        <5>2. MaxTaskId \in Nat
          BY BoundsAssumption
        <5>3. QED BY <5>1, <5>2
      <4>3. QED BY <4>1, <4>2
    <3>3. p[2] \in DOMAIN tasks' => tasks'[p[2]] = written("DONE")
      BY <3>1, <3>2 DEF Write, Marked
    <3>4. QED BY <2>1, <3>3
  <2>4. QED BY <2>2, <2>3
<1>5. QED BY <1>1, <1>2, <1>3, <1>4 DEF FeeStep

\* The fee collector is paid for one task at a time, one that was PENDING and
\* that the step settles, and it is paid exactly that task's fee.
THEOREM FeeOnceHolds == Spec => FeeOncePerRun
<1>1. IInv /\ [Next]_vars => [FeeStep]_vars
  <2> SUFFICES ASSUME IInv, Next PROVE FeeStep
    OBVIOUS
  <2>1. CASE ExecPending
    <3>1. PICK p \in queue : \/ PassGone(p) \/ PassTooBig(p) \/ Reject(p)
                             \/ p[2] \in DOMAIN tasks /\ RunDone(p)
                             \/ p[2] \in DOMAIN tasks /\ RunFailed(p)
      BY <2>1 DEF ExecPending
    <3>2. CASE PassGone(p) \/ PassTooBig(p) \/ Reject(p)
      BY <3>2 DEF PassGone, PassTooBig, Reject, FeeStep
    <3>3. CASE p[2] \in DOMAIN tasks /\ (RunDone(p) \/ RunFailed(p))
      BY <3>3, RunPaysOnce
    <3>4. QED BY <3>1, <3>2, <3>3
  <2>2. CASE Transfer
    BY <2>2, TransferAside DEF FeeStep, IInv
  <2>3. CASE CheckExpiredTasks \/ MoveDueTasks \/ FinishBeginBlock
    BY <2>3 DEF CheckExpiredTasks, MoveDueTasks, FinishBeginBlock, FeeStep
  <2>4. CASE CreateTask \/ UpdateParams \/ Restart
    BY <2>4 DEF CreateTask, UpdateParams, Restart, FeeStep
  <2>5. ASSUME NEW caller \in Creators, NEW id \in DOMAIN tasks, DeleteTask(caller, id)
        PROVE  FeeStep
    BY <2>5 DEF DeleteTask, FeeStep
  <2>6. ASSUME NEW step \in TimeSteps, EndBlock(step) PROVE FeeStep
    BY <2>6 DEF EndBlock, NextHeader, FeeStep
  <2>7. QED BY <2>1, <2>2, <2>3, <2>4, <2>5, <2>6 DEF Next, BeginBlocker, Deliver
<1>2. QED BY <1>1, Inductive, PTL DEF Spec, FeeOncePerRun

-----------------------------------------------------------------------------
(* The clean-up                                                            *)

\* The scan by index timestamps finds exactly the settled tasks whose retention
\* is over, whatever orphaned entries the index holds.
LEMMA OldExact ==
    ASSUME IInv, NEW id \in DOMAIN tasks
    PROVE  id \in Old <=>
              /\ tasks[id].status \in Terminal /\ params.cleanUpTime # 0
              /\ (IF tasks[id].status = "EXPIRED" THEN tasks[id].expiry ELSE tasks[id].execTs)
                     + params.cleanUpTime <= now
<1>1. TsKey(id, tasks[id]) \in tsIndex
  BY DEF IInv, IndexExact, TsKeys
<1>2. \A k \in tsIndex : k[3] = id => k = TsKey(id, tasks[id])
  BY DEF IInv, IndexExact
<1>3. id \in Old <=> /\ params.cleanUpTime # 0 /\ tasks[id].status \in Terminal
                     /\ IndexTs(tasks[id]) <= now - params.cleanUpTime
  BY <1>1, <1>2 DEF Old, TsKey
<1>4. tasks[id].status \in Terminal =>
         IndexTs(tasks[id]) =
            IF tasks[id].status = "EXPIRED" THEN tasks[id].expiry ELSE tasks[id].execTs
  BY DEF IndexTs, Terminal
<1>5. /\ now \in Nat /\ params.cleanUpTime \in Nat
      /\ tasks[id].expiry \in Nat /\ tasks[id].execTs \in Nat
  BY BoundsAssumption, ParamsAssumption DEF IInv, TypeOK, StoreOK, Task, Params
<1>6. QED BY <1>3, <1>4, <1>5

\* BeginBlocker removes every settled task once its retention is over, and
\* never another one.
THEOREM CleanUpHolds == Spec => CleanUpExact
<1>1. IInv /\ [Next]_vars => [CleanStep]_vars
  <2> SUFFICES ASSUME IInv, Next, phase = "exec", phase' = "deliver" PROVE CleanStep
    BY DEF CleanStep
  <2>1. CASE FinishBeginBlock
    <3> DEFINE none == [i \in {} |-> {}]
    <3>1. Write(none, Old) /\ DOMAIN none = {}
      BY <2>1 DEF FinishBeginBlock, RemoveTasks
    <3> HIDE DEF none
    <3>2. DOMAIN tasks' = (DOMAIN tasks \cup DOMAIN none) \ Old
      BY <3>1 DEF Write
    <3>3. QED BY <3>1, <3>2, OldExact DEF CleanStep
  <2>2. ~ExecPending
    BY DEF ExecPending, PassGone, PassTooBig, Reject, RunDone, RunFailed, StartRun
  <2>3. ~CheckExpiredTasks /\ ~MoveDueTasks /\ ~Deliver
    BY DEF CheckExpiredTasks, MoveDueTasks, Deliver, CreateTask, DeleteTask,
           UpdateParams, Transfer, Restart
  <2>4. \A step \in TimeSteps : ~EndBlock(step)
    BY DEF EndBlock
  <2>5. QED BY <2>1, <2>2, <2>3, <2>4 DEF Next, BeginBlocker
<1>2. QED BY <1>1, Inductive, PTL DEF Spec, CleanUpExact

-----------------------------------------------------------------------------
(* The book: every behaviour of the scheduler, seen through Entries, is    *)
(* one of TaskBook                                                         *)

(* The entry of every task of the store in the book it implements ... *)
LEMMA EntriesAre ==
    /\ DOMAIN Entries = DOMAIN tasks
    /\ \A id \in DOMAIN tasks : Entries[id] = Entry(tasks[id])
BY DEF Entries

(* ... and after the step. *)
LEMMA EntriesNext ==
    /\ DOMAIN Entries' = DOMAIN tasks'
    /\ \A id \in DOMAIN tasks' : Entries'[id] = Entry(tasks'[id])
BY DEF Entries

\* an entry and a record after a block has settled them
WithState(e, s) == [e EXCEPT !.state = s]
Written(t, s) == [t EXCEPT !.status = s, !.execTs = now]

(* Writing a final status sets the state of the entry and nothing else. *)
LEMMA WrittenEntry ==
    ASSUME NEW t \in Task, NEW s \in Terminal
    PROVE  Entry(Written(t, s)) = WithState(Entry(t), s)
<1> DEFINE r == Written(t, s)
<1>1. /\ r.status = s /\ r.sched = t.sched /\ r.expiry = t.expiry /\ r.fee = t.fee
  BY DEF Written, Task
<1>2. s \notin Active
  BY DEF Terminal, Active
<1> HIDE DEF r
<1>3. Entry(r) = WithState(Entry(t), s)
  BY <1>1, <1>2 DEF Entry, WithState
<1>4. QED BY <1>3 DEF r

(* The book stays where the tasks do. *)
LEMMA SameBook == ASSUME UNCHANGED tasks PROVE Entries' = Entries
BY DEF Entries

\* Expiring the overdue tasks is a Lapse.
LEMMA CheckExpiredLapses == ASSUME IInv, CheckExpiredTasks PROVE Book!Lapse
<1>1. UNCHANGED <<nextTaskId, now, bal>>
  BY DEF CheckExpiredTasks
<1>2. /\ DOMAIN tasks' = DOMAIN tasks
      /\ \A id \in DOMAIN tasks :
            tasks'[id] = IF id \in Overdue THEN Marked(Overdue, "EXPIRED")[id] ELSE tasks[id]
  BY DEF CheckExpiredTasks, SetTasks, Write, Marked, Overdue
<1>3. now \in Nat /\ \A id \in DOMAIN tasks : tasks[id] \in Task
  BY BoundsAssumption DEF IInv, TypeOK, StoreOK
<1> DEFINE lapsed(e) == IF e.state = "waiting" /\ e.expiry <= now
                        THEN WithState(e, "EXPIRED") ELSE e
<1>4. \A id \in DOMAIN tasks : Entry(tasks'[id]) = lapsed(Entry(tasks[id]))
  <2> SUFFICES ASSUME NEW id \in DOMAIN tasks
               PROVE  Entry(tasks'[id]) = lapsed(Entry(tasks[id]))
    OBVIOUS
  <2>1. /\ Entry(tasks[id]).state = "waiting" <=> tasks[id].status \in Active
        /\ Entry(tasks[id]).expiry = tasks[id].expiry
    BY <1>3 DEF Entry, Task, Status, Active, Terminal
  <2>2. CASE id \in Overdue
    <3>1. tasks'[id] = Written(tasks[id], "EXPIRED")
      BY <1>2, <2>2 DEF Marked, Written
    <3>2. Entry(tasks'[id]) = WithState(Entry(tasks[id]), "EXPIRED")
      <4>1. "EXPIRED" \in Terminal /\ tasks[id] \in Task
        BY <1>3 DEF Terminal
      <4>2. QED BY <3>1, <4>1, WrittenEntry
    <3>3. QED BY <2>1, <2>2, <3>2, OverdueExact
  <2>3. CASE id \notin Overdue
    BY <1>2, <2>1, <2>3, OverdueExact
  <2>4. QED BY <2>2, <2>3
<1>5. Entries' = [id \in DOMAIN Entries |-> lapsed(Entries[id])]
  BY <1>2, <1>4 DEF Entries
<1>6. QED BY <1>1, <1>5 DEF Book!Lapse, WithState

\* Moving the due tasks to PENDING is not seen in the book.
LEMMA MoveDueHidden == ASSUME IInv, MoveDueTasks PROVE UNCHANGED Book!bookVars
<1>1. UNCHANGED <<nextTaskId, now, bal>>
  BY DEF MoveDueTasks
<1>2. /\ Due \subseteq DOMAIN tasks /\ DOMAIN tasks' = DOMAIN tasks
      /\ \A id \in DOMAIN tasks :
            tasks'[id] = IF id \in Due THEN [tasks[id] EXCEPT !.status = "PENDING"]
                         ELSE tasks[id]
  BY DEF MoveDueTasks, SetTasks, Write, Due
<1>3. \A id \in DOMAIN tasks : Entry(tasks'[id]) = Entry(tasks[id])
  <2> SUFFICES ASSUME NEW id \in Due PROVE Entry(tasks'[id]) = Entry(tasks[id])
    BY <1>2
  <2>1. tasks[id] \in Task /\ tasks[id].status = "SCHEDULED"
    BY <1>2, DueScheduled DEF IInv, TypeOK, StoreOK
  <2>2. /\ tasks'[id].status = "PENDING" /\ tasks'[id].sched = tasks[id].sched
        /\ tasks'[id].expiry = tasks[id].expiry /\ tasks'[id].fee = tasks[id].fee
    BY <1>2, <2>1 DEF Task
  <2>3. QED BY <2>1, <2>2 DEF Entry, Active
<1>4. Entries' = Entries
  BY <1>2, <1>3 DEF Entries
<1>5. QED BY <1>1, <1>4 DEF Book!bookVars

\* The head of the queue waits in the book, inside its window.
LEMMA HeadWaits ==
    ASSUME IInv, NEW p \in queue, p[2] \in DOMAIN tasks
    PROVE  /\ p[2] \in DOMAIN Entries /\ Entries[p[2]].state = "waiting"
           /\ Entries[p[2]].sched <= now /\ now < Entries[p[2]].expiry
           /\ Entries[p[2]].fee = tasks[p[2]].fee
<1>1. /\ tasks[p[2]].status = "PENDING"
      /\ tasks[p[2]].sched <= now /\ now < tasks[p[2]].expiry
  BY HeadOfQueue DEF IInv
<1>2. Entries[p[2]] = Entry(tasks[p[2]]) /\ p[2] \in DOMAIN Entries
  BY EntriesAre
<1>3. QED BY <1>1, <1>2 DEF Entry, Active

\* A task that cannot pay is refused.
LEMMA RejectRefuses ==
    ASSUME IInv, NEW p \in queue, Reject(p)
    PROVE  p[2] \in DOMAIN Entries /\ Book!Refuse(p[2])
<1>1. p[2] \in DOMAIN tasks /\ UNCHANGED <<nextTaskId, now, bal>>
  BY DEF Reject
<1>2. /\ tasks[p[2]] \in Task /\ ~(tasks[p[2]].expiry <= now)
  BY <1>1, HeadOfQueue DEF IInv, TypeOK, Task
<1>3. /\ DOMAIN tasks' = DOMAIN tasks
      /\ \A id \in DOMAIN tasks :
            tasks'[id] = IF id = p[2] THEN Written(tasks[id], "FAILED") ELSE tasks[id]
  BY <1>1, <1>2 DEF Reject, SetTasks, Write, Marked, Written
<1>4. Entry(tasks'[p[2]]) = WithState(Entry(tasks[p[2]]), "FAILED")
  <2>1. "FAILED" \in Terminal
    BY DEF Terminal
  <2>2. tasks'[p[2]] = Written(tasks[p[2]], "FAILED")
    BY <1>1, <1>3
  <2>3. QED BY <1>2, <2>1, <2>2, WrittenEntry
<1>5. Entries' = [id \in DOMAIN Entries |->
                     IF id = p[2] THEN WithState(Entries[id], "FAILED") ELSE Entries[id]]
  BY <1>3, <1>4 DEF Entries
<1>6. Entries' = [Entries EXCEPT ![p[2]] = WithState(Entries[p[2]], "FAILED")]
  BY <1>5 DEF Entries
<1>7. QED BY <1>1, <1>6, HeadWaits DEF Book!Refuse, WithState

\* The entry of a new task waits for a window that is not over.
LEMMA NewEntry ==
    ASSUME TypeOK, NEW new \in NewRecords
    PROVE  LET e == Entry(new[nextTaskId]) IN
           /\ DOMAIN new = {nextTaskId}
           /\ e.state = "waiting" /\ e.sched >= now /\ e.expiry > e.sched
<1>1. PICK a \in TaskArgs : new = [id \in {nextTaskId} |-> NewTask(a)]
  BY DEF NewRecords
<1>2. /\ a.delay \in Nat /\ a.life \in Nat /\ now \in Nat
      /\ params.expiryLimit \in Nat \ {0}
  BY ArgsAssumption, BoundsAssumption, ParamsAssumption DEF TypeOK, Params
<1>3. /\ NewTask(a).status = "SCHEDULED" /\ NewTask(a).sched = now + a.delay
      /\ NewTask(a).expiry =
            now + a.delay + (IF a.life = 0 THEN params.expiryLimit ELSE a.life)
  BY DEF NewTask
<1>4. /\ Entry(NewTask(a)).state = "waiting" /\ Entry(NewTask(a)).sched = now + a.delay
      /\ Entry(NewTask(a)).expiry =
            now + a.delay + (IF a.life = 0 THEN params.expiryLimit ELSE a.life)
  BY <1>3 DEF Entry, Active
<1>5. QED BY <1>1, <1>2, <1>4

(* Creating a task opens an entry of the book. *)
LEMMA CreateOpens == ASSUME IInv, CreateTask PROVE Book!Open
<1>1. PICK new \in NewRecords : Write(new, {})
  BY DEF CreateTask, SetTasks
<1>2. /\ UNCHANGED <<now, bal>> /\ nextTaskId' = nextTaskId + 1
      /\ nextTaskId \notin DOMAIN tasks
  BY BoundsAssumption DEF CreateTask, IInv, TypeOK, StoreOK
<1>3. /\ DOMAIN new = {nextTaskId} /\ Entry(new[nextTaskId]).state = "waiting"
      /\ Entry(new[nextTaskId]).sched >= now
      /\ Entry(new[nextTaskId]).expiry > Entry(new[nextTaskId]).sched
  BY NewEntry DEF IInv
<1>4. /\ DOMAIN tasks' = DOMAIN tasks \cup {nextTaskId}
      /\ tasks'[nextTaskId] = new[nextTaskId]
      /\ \A id \in DOMAIN tasks : tasks'[id] = tasks[id]
  BY <1>1, <1>2, <1>3 DEF Write
<1>5. /\ DOMAIN Entries \subseteq DOMAIN Entries'
      /\ \A id \in DOMAIN Entries \cap DOMAIN Entries' : Entries'[id] = Entries[id]
      /\ DOMAIN Entries' \ DOMAIN Entries = {nextTaskId}
      /\ Entries'[nextTaskId] = Entry(new[nextTaskId])
  BY <1>2, <1>4 DEF Entries
<1>6. /\ DOMAIN Book!Opened = {nextTaskId}
      /\ Book!Opened[nextTaskId] = Entry(new[nextTaskId])
  BY <1>5 DEF Book!Opened
<1>7. Book!Opens(Book!Opened) /\ Book!Opened # [id \in {} |-> {}]
  BY <1>2, <1>3, <1>6 DEF Book!Opens
<1>8. QED BY <1>2, <1>5, <1>7 DEF Book!Open, Book!Same

\* A task that runs is served: whatever its messages delete, its own task
\* included, and whether or not they create one.
LEMMA RunServes ==
    ASSUME IInv, NEW p \in queue, p[2] \in DOMAIN tasks, RunDone(p) \/ RunFailed(p)
    PROVE  p[2] \in DOMAIN Entries /\ Book!Serve(p[2])
<1> DEFINE none == [id \in {} |-> {}]
<1>1. /\ now' = now /\ tasks[p[2]] \in Task
      /\ bal'[Collector] = bal[Collector] + Entries[p[2]].fee
  BY HeadOfQueue, HeadWaits, RunPays DEF IInv, RunDone, RunFailed, StartRun
<1>2. nextTaskId \notin DOMAIN tasks
  BY BoundsAssumption DEF IInv, TypeOK, StoreOK
\* in both cases: a new task or none, deletions, and the head's record written
<1>3. PICK del \in SUBSET DOMAIN tasks, new \in NewRecords \cup {none},
           s \in {"DONE", "FAILED"} :
         /\ DOMAIN tasks' = (DOMAIN tasks \cup DOMAIN new) \ del
         /\ \A id \in DOMAIN tasks' :
               tasks'[id] = IF id \in DOMAIN new THEN new[id]
                            ELSE IF id = p[2] THEN Written(tasks[id], s) ELSE tasks[id]
         /\ nextTaskId' = IF DOMAIN new = {} THEN nextTaskId ELSE nextTaskId + 1
  <2>1. CASE RunFailed(p)
    <3>1. /\ DOMAIN tasks' = DOMAIN tasks /\ nextTaskId' = nextTaskId
          /\ \A id \in DOMAIN tasks' :
                tasks'[id] = IF id = p[2] THEN Written(tasks[id], "FAILED") ELSE tasks[id]
      <4>1. Write(Marked({p[2]}, "FAILED"), {}) /\ nextTaskId' = nextTaskId
        BY <2>1 DEF RunFailed, SetTasks
      <4>2. QED BY <4>1 DEF Write, Marked, Written
    <3>2. DOMAIN none = {} /\ none \in NewRecords \cup {none} /\ {} \in SUBSET DOMAIN tasks
      OBVIOUS
    <3> HIDE DEF none
    <3>3. QED BY <3>1, <3>2
  <2>2. CASE RunDone(p)
    <3>1. PICK del \in SUBSET DOMAIN tasks, new \in NewRecords \cup {none} :
             /\ Write([id \in {p[2]} \cup DOMAIN new |->
                          IF id \in DOMAIN new THEN new[id]
                          ELSE Marked({p[2]}, "DONE")[id]], del)
             /\ nextTaskId' = IF DOMAIN new = {} THEN nextTaskId ELSE nextTaskId + 1
      BY <2>2 DEF RunDone
    <3>2. /\ DOMAIN tasks' = (DOMAIN tasks \cup DOMAIN new) \ del
          /\ \A id \in DOMAIN tasks' :
                tasks'[id] = IF id \in DOMAIN new THEN new[id]
                             ELSE IF id = p[2] THEN Written(tasks[id], "DONE") ELSE tasks[id]
      BY <3>1 DEF Write, Marked, Written
    <3>3. QED BY <3>1, <3>2
  <2>3. QED BY <2>1, <2>2
<1>4. \/ DOMAIN new = {} /\ nextTaskId' = nextTaskId
      \/ /\ DOMAIN new = {nextTaskId} /\ nextTaskId' = nextTaskId + 1
         /\ Entry(new[nextTaskId]).state = "waiting"
         /\ Entry(new[nextTaskId]).sched >= now
         /\ Entry(new[nextTaskId]).expiry > Entry(new[nextTaskId]).sched
  <2>1. CASE new \in NewRecords
    <3>1. /\ DOMAIN new = {nextTaskId} /\ Entry(new[nextTaskId]).state = "waiting"
          /\ Entry(new[nextTaskId]).sched >= now
          /\ Entry(new[nextTaskId]).expiry > Entry(new[nextTaskId]).sched
      BY <2>1, NewEntry DEF IInv
    <3>2. QED BY <1>3, <3>1
  <2>2. CASE new = none
    BY <1>3, <2>2
  <2>3. QED BY <2>1, <2>2
<1>5. DOMAIN new \cap DOMAIN tasks = {}
  BY <1>2, <1>4
<1>6. /\ DOMAIN Entries = DOMAIN tasks /\ DOMAIN Entries' = DOMAIN tasks'
      /\ \A id \in DOMAIN tasks : Entries[id] = Entry(tasks[id])
      /\ \A id \in DOMAIN tasks' : Entries'[id] = Entry(tasks'[id])
  BY EntriesAre, EntriesNext
<1>7. Book!Same({p[2]})
  BY <1>3, <1>5, <1>6 DEF Book!Same
<1>8. p[2] \in DOMAIN Entries' => Entries'[p[2]] = WithState(Entries[p[2]], s)
  <2> SUFFICES ASSUME p[2] \in DOMAIN tasks' PROVE Entry(tasks'[p[2]]) = WithState(Entry(tasks[p[2]]), s)
    BY <1>6
  <2>1. tasks'[p[2]] = Written(tasks[p[2]], s)
    BY <1>3, <1>5
  <2>2. s \in Terminal
    BY DEF Terminal
  <2>3. QED BY <1>1, <2>1, <2>2, WrittenEntry
<1>9. Book!Opens(Book!Opened)
  <2>1. /\ DOMAIN Book!Opened = DOMAIN new
        /\ \A id \in DOMAIN new : Book!Opened[id] = Entry(new[id])
    <3>1. DOMAIN tasks' \ DOMAIN tasks = DOMAIN new
      BY <1>3, <1>5
    <3>2. \A id \in DOMAIN new : tasks'[id] = new[id]
      BY <1>3, <3>1
    <3>3. QED BY <1>6, <3>1, <3>2 DEF Book!Opened
  <2>2. QED BY <1>4, <2>1 DEF Book!Opens
<1>10. QED BY <1>1, <1>7, <1>8, <1>9, HeadWaits DEF Book!Serve, WithState

\* Removing settled tasks forgets their entries, deleting one cancels its entry.
LEMMA RemoveDrops ==
    ASSUME NEW del, Write([i \in {} |-> {}], del)
    PROVE  Entries' = Book!Without(Entries, del)
BY DEF Write, Entries, Book!Without

(* The clean-up forgets entries of the book that are final. *)
LEMMA FinishForgets == ASSUME IInv, FinishBeginBlock PROVE Book!Forget
<1>1. Write([i \in {} |-> {}], Old) /\ UNCHANGED <<nextTaskId, now, bal>>
  BY DEF FinishBeginBlock, RemoveTasks
<1>2. Old \in SUBSET {id \in DOMAIN Entries : Entries[id].state \in Book!Settled}
  <2> SUFFICES ASSUME NEW id \in Old
               PROVE  id \in DOMAIN Entries /\ Entries[id].state \in Book!Settled
    OBVIOUS
  <2>1. id \in DOMAIN tasks
    BY DEF Old
  <2>2. tasks[id].status \in Terminal
    BY <2>1, OldExact
  <2>3. QED BY <2>1, <2>2, EntriesAre DEF Entry, Terminal, Active, Book!Settled
<1>3. Entries' = Book!Without(Entries, Old)
  BY <1>1, RemoveDrops
<1>4. QED BY <1>1, <1>2, <1>3 DEF Book!Forget

\* CronTask implements TaskBook: the scheduler opens, serves, refuses, lapses,
\* cancels and forgets entries as the creator was promised, and does nothing else.
THEOREM BookIsKept == Spec => KeepsBook
<1>1. Init => Book!BookInit
  <2> SUFFICES ASSUME Init PROVE Book!BookInit
    OBVIOUS
  <2>1. Entries = [id \in {} |-> {}]
    BY DEF Init, Entries
  <2>2. bal[Collector] = 0
    BY DEF Init, Accounts
  <2>3. QED BY <2>1, <2>2 DEF Init, Book!BookInit
<1>2. IInv /\ [Next]_vars => [Book!BookNext]_(Book!bookVars)
  <2> SUFFICES ASSUME IInv, [Next]_vars
               PROVE  Book!BookNext \/ UNCHANGED Book!bookVars
    OBVIOUS
  <2>1. CASE CheckExpiredTasks
    BY <2>1, CheckExpiredLapses DEF Book!BookNext
  <2>2. CASE MoveDueTasks
    BY <2>2, MoveDueHidden
  <2>3. CASE ExecPending
    <3>1. PICK p \in queue : \/ PassGone(p) \/ PassTooBig(p) \/ Reject(p)
                             \/ p[2] \in DOMAIN tasks /\ RunDone(p)
                             \/ p[2] \in DOMAIN tasks /\ RunFailed(p)
      BY <2>3 DEF ExecPending
    <3>2. CASE PassGone(p) \/ PassTooBig(p)
      BY <3>2, SameBook DEF PassGone, PassTooBig, store, Book!bookVars
    <3>3. CASE Reject(p)
      BY <3>3, RejectRefuses DEF Book!BookNext
    <3>4. CASE p[2] \in DOMAIN tasks /\ (RunDone(p) \/ RunFailed(p))
      BY <3>4, RunServes DEF Book!BookNext
    <3>5. QED BY <3>1, <3>2, <3>3, <3>4
  <2>4. CASE FinishBeginBlock
    BY <2>4, FinishForgets DEF Book!BookNext
  <2>5. CASE CreateTask
    BY <2>5, CreateOpens DEF Book!BookNext
  <2>6. ASSUME NEW caller \in Creators, NEW id \in DOMAIN tasks, DeleteTask(caller, id)
        PROVE  Book!BookNext
    <3>1. Write([i \in {} |-> {}], {id}) /\ UNCHANGED <<nextTaskId, now, bal>>
      BY <2>6 DEF DeleteTask, RemoveTasks
    <3>2. Entries' = Book!Without(Entries, {id}) /\ id \in DOMAIN Entries
      BY <3>1, RemoveDrops, EntriesAre
    <3>3. QED BY <3>1, <3>2 DEF Book!Cancel, Book!BookNext
  <2>7. CASE UpdateParams \/ Restart
    BY <2>7, SameBook DEF UpdateParams, Restart, store, Book!bookVars
  <2>8. CASE Transfer
    <3>1. bal'[Collector] = bal[Collector]
      BY <2>8, TransferAside DEF IInv
    <3>2. QED BY <2>8, <3>1, SameBook DEF Transfer, store, Book!bookVars
  <2>9. ASSUME NEW step \in TimeSteps, EndBlock(step)
        PROVE  Book!BookNext \/ UNCHANGED Book!bookVars
    <3>1. /\ UNCHANGED <<tasks, nextTaskId, bal>> /\ now' = now + step
          /\ now \in Nat /\ step \in Nat
      BY <2>9, BoundsAssumption DEF EndBlock, NextHeader, store, IInv, TypeOK
    <3>2. Entries' = Entries
      BY <3>1, SameBook
    <3>3. CASE step = 0
      BY <3>1, <3>2, <3>3 DEF Book!bookVars
    <3>4. CASE step # 0
      BY <3>1, <3>2, <3>4 DEF Book!Tick, Book!BookNext
    <3>5. QED BY <3>3, <3>4
  <2>10. CASE UNCHANGED vars
    BY <2>10, SameBook DEF vars, store, Book!bookVars
  <2>11. QED
    BY <2>1, <2>2, <2>3, <2>4, <2>5, <2>6, <2>7, <2>8, <2>9, <2>10
       DEF Next, BeginBlocker, Deliver
<1>3. QED BY <1>1, <1>2, Inductive, PTL DEF Spec, KeepsBook, Book!BookSpec

-----------------------------------------------------------------------------
(* Subscriptions *)

\* HandleBlockEvents finishes its list before the next block: nothing that it has
\* yet to visit can be deleted
ListDone == phase # "events" => subQueue = {}

SubsInv == IInv /\ SubTypeOK /\ ErrorOnlyWhenLocked /\ ListDone

-----------------------------------------------------------------------------
(* Fees                                                                    *)

\* With a fee that is not zero, the multiples of it that a balance covers are
\* the first ones, up to the quotient.
LEMMA CoveredMultiples ==
    ASSUME NEW fee \in Nat \ {0}, NEW coins \in Nat, NEW i \in Nat
    PROVE  fee * i <= coins <=> i <= coins \div fee
<1> DEFINE q == coins \div fee
<1>1. /\ q \in Nat /\ fee * q <= coins /\ coins < fee * (q + 1)
  OBVIOUS
<1> HIDE DEF q
<1>2. i <= q => fee * i <= fee * q
  BY <1>1
<1>3. i >= q + 1 => fee * i >= fee * (q + 1)
  BY <1>1
<1>4. fee * i \in Nat /\ fee * q \in Nat /\ fee * (q + 1) \in Nat
  BY <1>1
<1>5. i <= q \/ i >= q + 1
  BY <1>1
<1>6. fee * i <= coins <=> i <= q
  BY <1>1, <1>2, <1>3, <1>4, <1>5
<1>7. QED BY <1>6 DEF q

\* The tasks an event pays for are the first `made' ones; they can be paid for,
\* and the next one could not.
LEMMA PayableTasks ==
    ASSUME TypeOK, NEW sub \in Sub, NEW objects \in Nat
    PROVE  LET made == Payable(sub, objects) IN
           /\ made \in 0..objects
           /\ made > 0 => sub.fee * made <= Spendable(bal, sub.creator)
           /\ sub.fee * objects <= Spendable(bal, sub.creator) => made = objects
<1> DEFINE coins == Spendable(bal, sub.creator)
           paid == {i \in 1..objects : sub.fee * i <= coins}
<1>1. sub.fee \in Nat \ {0} /\ sub.creator \in Creators
  BY DEF Sub
<1>2. coins \in Int
  BY <1>1, BoundsAssumption DEF TypeOK, Accounts, Spendable
<1>3. Payable(sub, objects) = Cardinality(paid)
  BY DEF Payable
<1> HIDE DEF coins
<1>4. PICK m \in 0..objects : /\ paid = 1..m
                              /\ m > 0 => sub.fee * m <= coins
                              /\ sub.fee * objects <= coins => m = objects
  <2>1. CASE coins >= 0
    <3> DEFINE q == coins \div sub.fee
               m == IF q <= objects THEN q ELSE objects
    <3>1. q \in Nat
      BY <1>1, <1>2, <2>1
    <3>2. \A i \in Nat : sub.fee * i <= coins <=> i <= q
      BY <1>1, <1>2, <2>1, CoveredMultiples
    <3> HIDE DEF q
    <3>3. m \in 0..objects /\ m <= q
      BY <3>1
    <3>4. paid = 1..m
      BY <3>1, <3>2
    <3>5. sub.fee * m <= coins /\ (sub.fee * objects <= coins => m = objects)
      BY <3>1, <3>2, <3>3
    <3>6. QED BY <3>3, <3>4, <3>5
  <2>2. CASE coins < 0
    <3>1. \A i \in Nat : sub.fee * i >= 0
      BY <1>1
    <3>2. paid = {}
      <4>1. \A i \in 1..objects : ~(sub.fee * i <= coins)
        BY <1>1, <1>2, <2>2, <3>1
      <4>2. QED BY <4>1
    <3>3. ~(sub.fee * objects <= coins)
      BY <1>1, <1>2, <2>2, <3>1
    <3>4. 0 \in 0..objects /\ 1..0 = {}
      OBVIOUS
    <3>5. QED BY <3>2, <3>3, <3>4
  <2>3. QED BY <1>2, <2>1, <2>2
<1>5. Cardinality(1..m) = m
  BY <1>4, FS_Interval
<1>6. Payable(sub, objects) = m
  BY <1>3, <1>4, <1>5
<1>7. QED BY <1>4, <1>6 DEF coins

\* A creator that can pay is not overdrawn, and the collector is paid.
LEMMA PayType ==
    ASSUME TypeOK, NEW creator \in Creators, NEW n \in Nat,
           n = 0 \/ Spendable(bal, creator) >= n
    PROVE  Pay(creator, Collector, n) \in [Accounts -> Nat]
<1>1. /\ creator \in Accounts /\ Collector \in Accounts /\ bal \in [Accounts -> Nat]
      /\ Locked[creator] \in Nat
  BY BoundsAssumption DEF TypeOK, Accounts
<1>2. bal[creator] >= n
  BY <1>1 DEF Spendable
<1>3. QED BY <1>1, <1>2, PaymentType DEF Pay

-----------------------------------------------------------------------------
(* Messages                                                                *)

(* Creating a subscription keeps the invariant. *)
LEMMA CreateSubInv ==
    ASSUME SubsInv, NEW a \in SubArgs, CreateSubscription(a)
    PROVE  SubsInv'
<1> DEFINE sub == [creator |-> a.creator, limit |-> a.limit, fee |-> a.fee,
                   status |-> "enabled", expiry |-> now + params.maxSubDuration, count |-> 0]
<1>1. /\ nextSubId <= MaxSubId /\ nextSubId' = nextSubId + 1
      /\ Spendable(bal, a.creator) >= a.fee /\ bal' = Pay(a.creator, Collector, a.fee)
      /\ subs' = WithSub(nextSubId, sub)
      /\ UNCHANGED <<store, nextTaskId, params, metrics, now, phase, local, subQueue, stake>>
  BY DEF CreateSubscription, CanPay, PayFee
<1>2. a.creator \in Creators /\ a.limit \in Nat \ {0} /\ a.fee \in Nat \ {0}
  BY SubArgsAssumption
<1>3. sub \in Sub /\ sub.status = "enabled"
  BY <1>2, BoundsAssumption, ParamsAssumption DEF SubsInv, IInv, TypeOK, Params, Sub, SubStatus
<1> HIDE DEF sub
<1>4. bal' \in [Accounts -> Nat]
  BY <1>1, <1>2, PayType DEF SubsInv, IInv
<1>5. IInv'
  BY <1>1, <1>4, CoinsMoveInv DEF SubsInv
<1>6. /\ nextSubId \in Nat /\ nextSubId \notin DOMAIN subs
      /\ DOMAIN subs' = DOMAIN subs \cup {nextSubId}
      /\ \A id \in DOMAIN subs' : subs'[id] = IF id = nextSubId THEN sub ELSE subs[id]
  BY <1>1, SubBoundsAssumption DEF SubsInv, SubTypeOK, WithSub
<1>7. SubTypeOK'
  BY <1>1, <1>3, <1>5, <1>6, SubBoundsAssumption DEF SubsInv, SubTypeOK, IInv
<1>8. ErrorOnlyWhenLocked'
  BY <1>3, <1>6 DEF SubsInv, ErrorOnlyWhenLocked
<1>9. QED BY <1>1, <1>5, <1>7, <1>8 DEF SubsInv, ListDone

(* So does renewing one. *)
LEMMA RenewSubInv ==
    ASSUME SubsInv, NEW caller \in Creators, NEW id \in DOMAIN subs,
           RenewSubscription(caller, id)
    PROVE  SubsInv'
<1>1. /\ Spendable(bal, caller) >= subs[id].fee
      /\ bal' = Pay(caller, Collector, subs[id].fee)
      /\ subs' = [subs EXCEPT ![id].expiry = now + params.maxSubDuration,
                              ![id].status = Renewed(subs[id])]
      /\ UNCHANGED <<store, nextTaskId, params, metrics, now, phase, local,
                     nextSubId, subQueue, stake>>
  BY DEF RenewSubscription, CanPay, PayFee
<1>2. subs[id] \in Sub /\ now + params.maxSubDuration \in Nat
  BY BoundsAssumption, ParamsAssumption DEF SubsInv, SubTypeOK, IInv, TypeOK, Params
<1>3. bal' \in [Accounts -> Nat]
  BY <1>1, <1>2, PayType DEF SubsInv, IInv, Sub
<1>4. IInv'
  BY <1>1, <1>3, CoinsMoveInv DEF SubsInv
<1>5. Renewed(subs[id]) \in SubStatus
  BY <1>2 DEF Renewed, Sub, SubStatus
<1>6. /\ DOMAIN subs' = DOMAIN subs
      /\ \A i \in DOMAIN subs \ {id} : subs'[i] = subs[i]
      /\ subs'[id] = [subs[id] EXCEPT !.expiry = now + params.maxSubDuration,
                                      !.status = Renewed(subs[id])]
  BY <1>1
<1>7. /\ subs'[id] \in Sub /\ subs'[id].creator = subs[id].creator
      /\ subs'[id].status = "error" => subs[id].status = "error"
  BY <1>2, <1>5, <1>6 DEF Sub, Renewed
<1>8. SubTypeOK'
  BY <1>1, <1>4, <1>6, <1>7 DEF SubsInv, SubTypeOK, IInv
<1>9. ErrorOnlyWhenLocked'
  BY <1>6, <1>7 DEF SubsInv, ErrorOnlyWhenLocked
<1>10. QED BY <1>1, <1>4, <1>8, <1>9 DEF SubsInv, ListDone

\* Deleting and staking leave the tasks alone.
LEMMA OtherMessagesInv ==
    ASSUME SubsInv, NEW caller, NEW id, DeleteSubscription(caller, id) \/ Restake
    PROVE  SubsInv'
<1>1. UNCHANGED vars
  BY DEF DeleteSubscription, Restake
<1>2. IInv'
  BY <1>1, NextInv DEF SubsInv
<1>3. phase = "deliver" /\ phase' = phase /\ subQueue' = subQueue /\ subQueue = {}
  BY <1>1 DEF DeleteSubscription, Restake, SubsInv, ListDone, vars
<1>4. SubTypeOK' /\ ErrorOnlyWhenLocked'
  <2>1. CASE DeleteSubscription(caller, id)
    BY <1>2, <1>3, <2>1
       DEF DeleteSubscription, SubsInv, SubTypeOK, ErrorOnlyWhenLocked, IInv
  <2>2. CASE Restake
    BY <1>2, <2>2 DEF Restake, SubsInv, SubTypeOK, ErrorOnlyWhenLocked, IInv
  <2>3. QED BY <2>1, <2>2
<1>5. QED BY <1>2, <1>3, <1>4 DEF SubsInv, ListDone

-----------------------------------------------------------------------------
(* Blocks                                                                  *)

\* The steps that the tasks have without subscriptions.
LEMMA TaskStepInv ==
    ASSUME SubsInv, BeginBlocker \/ Deliver, UNCHANGED subVars
    PROVE  SubsInv'
<1>1. IInv'
  BY NextInv DEF SubsInv, Next
<1>2. phase # "events"
  <2>1. CASE BeginBlocker
    <3>1. CASE ExecPending
      <4>1. \A p \in queue : PassGone(p) \/ PassTooBig(p) \/ Reject(p) => phase = "exec"
        BY DEF PassGone, PassTooBig, Reject
      <4>2. \A p \in queue : RunDone(p) \/ RunFailed(p) => phase = "exec"
        BY DEF RunDone, RunFailed, StartRun
      <4>3. QED BY <3>1, <4>1, <4>2 DEF ExecPending
    <3>2. CASE CheckExpiredTasks \/ MoveDueTasks \/ FinishBeginBlock
      BY <3>2 DEF CheckExpiredTasks, MoveDueTasks, FinishBeginBlock
    <3>3. QED BY <2>1, <3>1, <3>2 DEF BeginBlocker
  <2>2. CASE Deliver
    BY <2>2 DEF Deliver, CreateTask, DeleteTask, UpdateParams, Transfer, Restart
  <2>3. QED BY <2>1, <2>2
<1>3. SubTypeOK' /\ ErrorOnlyWhenLocked' /\ ListDone'
  BY <1>1, <1>2 DEF SubsInv, SubTypeOK, ErrorOnlyWhenLocked, ListDone, IInv, subVars
<1>4. QED BY <1>1, <1>3 DEF SubsInv

\* The end of a block begins and ends: its header, and the list of subscriptions.
LEMMA StartEventsInv == ASSUME SubsInv, StartBlockEvents PROVE SubsInv'
<1>1. /\ UNCHANGED <<tasks, addrIndex, tsIndex, gasIndex, nextTaskId, params, metrics, bal>>
      /\ UNCHANGED <<now, queue, cronGasUsed, selected, skipped>>
      /\ UNCHANGED <<subs, nextSubId, stake>>
      /\ phase = "deliver" /\ phase' = "events" /\ subQueue' \subseteq DOMAIN subs
  BY DEF StartBlockEvents, store, local
<1>2. TypeOK'
  BY <1>1 DEF SubsInv, IInv, TypeOK, StoreOK, Phases
<1>3. IndexExact' /\ OrphansAreDone'
  BY <1>1 DEF SubsInv, IInv, IndexExact, OrphansAreDone, AddrKeys, TsKeys, GasKeys
<1>4. BlockInv' /\ QueueSound' /\ SettledInWindow' /\ NoPriorityInversion' /\ GasBound'
  BY <1>1 DEF SubsInv, IInv, BlockInv, QueueSound, SettledInWindow, NoPriorityInversion,
              GasBound, Fits
<1>5. IInv'
  BY <1>2, <1>3, <1>4 DEF IInv
<1>6. QED BY <1>1, <1>2, <1>5 DEF SubsInv, SubTypeOK, ErrorOnlyWhenLocked, ListDone

(* So does the next block, with any step of time. *)
LEMMA NextBlockInv ==
    ASSUME SubsInv, NEW step \in TimeSteps, NextBlock(step)
    PROVE  SubsInv'
<1>1. phase = "events" /\ subQueue = {} /\ NextHeader(step) /\ UNCHANGED subVars
  BY DEF NextBlock
<1>2. IInv'
  BY <1>1, NextHeaderInv DEF SubsInv
<1>3. QED BY <1>1, <1>2 DEF SubsInv, SubTypeOK, ErrorOnlyWhenLocked, ListDone, IInv, subVars

\* A subscription that is over or not funded is disabled, and that is all.
LEMMA DisableInv ==
    ASSUME SubsInv, NEW id \in subQueue, DisableExpired(id) \/ DisableUnfunded(id)
    PROVE  SubsInv'
<1>1. /\ UNCHANGED <<store, nextTaskId, params, metrics, bal, now, phase, local>>
      /\ UNCHANGED <<nextSubId, stake>> /\ phase = "events"
      /\ subs' = [subs EXCEPT ![id] = [subs[id] EXCEPT !.status = "disabled"]]
      /\ subQueue' = subQueue \ {id}
  BY DEF DisableExpired, DisableUnfunded, Visited, IsNext
<1>2. IInv'
  BY <1>1, NextInv DEF SubsInv, vars
<1>3. id \in DOMAIN subs /\ subs[id] \in Sub
  BY DEF SubsInv, SubTypeOK
<1>4. /\ DOMAIN subs' = DOMAIN subs
      /\ \A i \in DOMAIN subs \ {id} : subs'[i] = subs[i]
      /\ subs'[id] = [subs[id] EXCEPT !.status = "disabled"]
  BY <1>1, <1>3
<1>5. subs'[id] \in Sub /\ subs'[id].status = "disabled"
  BY <1>3, <1>4 DEF Sub, SubStatus
<1>6. QED
  BY <1>1, <1>2, <1>4, <1>5 DEF SubsInv, SubTypeOK, ErrorOnlyWhenLocked, ListDone, IInv

\* What a triggered subscription does: it adds `made' tasks, the next ones, and
\* pays for each of them; it ends in "error" only if coins are locked.
Triggers(id, made) ==
    LET sub == subs[id]
        new == nextTaskId..(nextTaskId + made - 1)
    IN /\ made \in Nat
       /\ made > 0 => sub.fee * made <= Spendable(bal, sub.creator)
       /\ Write([i \in new |-> SubTask(sub)], {})
       /\ nextTaskId' = nextTaskId + made /\ nextTaskId' <= MaxTaskId + 1
       /\ bal' = Pay(sub.creator, Collector, sub.fee * made)
       /\ subQueue' = subQueue \ {id}
       /\ \E status \in {sub.status, "error"} :
             /\ subs' = [subs EXCEPT ![id] =
                            [sub EXCEPT !.count = @ + made, !.status = status]]
             /\ status = "error" => sub.status = "error" \/ Locked[sub.creator] > 0
       /\ phase = "events"
       /\ UNCHANGED <<params, metrics, now, phase, local, nextSubId, stake>>

(* A delivery from the queue triggers the subscription, for some number of tasks that could be   *)
(* paid.                                                                                         *)
LEMMA TriggerTriggers ==
    ASSUME SubsInv, NEW id \in subQueue, Trigger(id)
    PROVE  \E made \in Nat : Triggers(id, made)
<1> DEFINE sub == subs[id]
<1>0. PICK matches \in 0..MaxMatches : \E objects \in 0..matches :
         LET made == Payable(sub, objects)
             new  == nextTaskId..(nextTaskId + made - 1)
         IN /\ Covers(sub, matches)
            /\ nextTaskId + objects <= MaxTaskId + 1
            /\ SetTasks([i \in new |-> SubTask(sub)])
            /\ nextTaskId' = nextTaskId + made
            /\ bal' = Pay(sub.creator, Collector, TriggerFees(sub, made))
            /\ Visited(id, [sub EXCEPT !.count = @ + made,
                                       !.status = IF made < objects THEN "error" ELSE @])
  BY DEF Trigger
<1>1. PICK objects \in 0..matches :
         LET made == Payable(sub, objects)
             new  == nextTaskId..(nextTaskId + made - 1)
         IN /\ Covers(sub, matches)
            /\ nextTaskId + objects <= MaxTaskId + 1
            /\ SetTasks([i \in new |-> SubTask(sub)])
            /\ nextTaskId' = nextTaskId + made
            /\ bal' = Pay(sub.creator, Collector, TriggerFees(sub, made))
            /\ Visited(id, [sub EXCEPT !.count = @ + made,
                                       !.status = IF made < objects THEN "error" ELSE @])
  BY <1>0
<1> DEFINE made == Payable(sub, objects)
           status == IF made < objects THEN "error" ELSE sub.status
<1>2. sub \in Sub /\ TypeOK /\ objects \in Nat /\ matches \in Nat /\ objects <= matches
  BY SubBoundsAssumption DEF SubsInv, SubTypeOK
<1>3. /\ made \in 0..objects
      /\ made > 0 => sub.fee * made <= Spendable(bal, sub.creator)
      /\ sub.fee * objects <= Spendable(bal, sub.creator) => made = objects
  <2> HIDE DEF sub
  <2>1. QED BY <1>2, PayableTasks
<1>4. sub.status = status \/ Locked[sub.creator] > 0
  <2> SUFFICES ASSUME Locked[sub.creator] = 0 PROVE made = objects
    BY <1>2, BoundsAssumption DEF Sub
  <2>1. bal[sub.creator] >= sub.fee * matches /\ Spendable(bal, sub.creator) = bal[sub.creator]
    BY <1>1, <1>2 DEF Covers, Spendable, TypeOK, Accounts, Sub
  <2>2. /\ sub.fee * objects <= sub.fee * matches /\ bal[sub.creator] \in Nat
        /\ sub.fee * objects \in Nat /\ sub.fee * matches \in Nat
    BY <1>2 DEF Sub, TypeOK, Accounts
  <2>3. QED BY <1>3, <2>1, <2>2
<1>5. nextTaskId \in Nat /\ MaxTaskId \in Nat /\ made \in Nat /\ made <= objects
  BY <1>2, <1>3, BoundsAssumption DEF TypeOK, StoreOK
<1>6. nextTaskId' <= MaxTaskId + 1
  BY <1>1, <1>2, <1>5
<1>7. subs' = [subs EXCEPT ![id] = [sub EXCEPT !.count = @ + made, !.status = status]]
  BY <1>1 DEF Visited
<1>8. status \in {sub.status, "error"}
  OBVIOUS
<1>9. /\ subQueue' = subQueue \ {id} /\ phase = "events"
      /\ UNCHANGED <<params, metrics, now, phase, local, nextSubId, stake>>
  BY <1>1 DEF Visited, Trigger, IsNext
<1>10. /\ Write([i \in nextTaskId..(nextTaskId + made - 1) |-> SubTask(sub)], {})
       /\ nextTaskId' = nextTaskId + made
       /\ bal' = Pay(sub.creator, Collector, sub.fee * made)
  BY <1>1 DEF SetTasks, TriggerFees
<1> HIDE DEF made
<1>11. Triggers(id, made)
  BY <1>3, <1>4, <1>5, <1>6, <1>7, <1>8, <1>9, <1>10 DEF Triggers
<1>12. QED BY <1>5, <1>11

(* Triggering keeps the invariant: an error is noted only where coins are locked. *)
LEMMA TriggersInv ==
    ASSUME SubsInv, NEW id \in subQueue, NEW made \in Nat, Triggers(id, made)
    PROVE  SubsInv'
<1> DEFINE sub == subs[id]
           new == nextTaskId..(nextTaskId + made - 1)
           set == [i \in new |-> SubTask(sub)]
<1>1. /\ sub \in Sub /\ id \in DOMAIN subs /\ now \in Nat /\ nextTaskId \in 1..(MaxTaskId + 1)
      /\ MaxTaskId \in Nat /\ ConfigExpiryLimit \in Nat
      /\ DOMAIN tasks \subseteq 1..(nextTaskId - 1)
  BY BoundsAssumption, SubBoundsAssumption DEF SubsInv, SubTypeOK, TypeOK, StoreOK
<1>2. SubTask(sub) \in Task /\ SubTask(sub).status = "SCHEDULED"
  <2>1. now + ConfigExpiryLimit \in Nat
    BY <1>1
  <2> HIDE DEF sub
  <2>2. QED BY <1>1, <2>1 DEF SubTask, Task, Sub, Status, Active
<1>3. /\ DOMAIN set = new /\ Write(set, {}) /\ nextTaskId' = nextTaskId + made
      /\ nextTaskId' <= MaxTaskId + 1
      /\ \A i \in DOMAIN set : set[i] = SubTask(sub)
  BY DEF Triggers
<1>4. new \cap DOMAIN tasks = {} /\ \A i \in new : nextTaskId <= i /\ i \in 1..(nextTaskId' - 1)
  BY <1>1, <1>3
<1> HIDE DEF set, new
<1>5. Writable(set, {})
  BY <1>1, <1>2, <1>3, <1>4 DEF Writable
<1>6. /\ UNCHANGED <<params, metrics, now, queue, cronGasUsed, selected, skipped>>
      /\ UNCHANGED <<nextSubId, stake>> /\ phase = "events" /\ phase' = "events"
      /\ queue = {} /\ cronGasUsed = 0 /\ selected = {} /\ skipped = {}
  BY DEF Triggers, local, SubsInv, IInv, BlockInv
<1>7. /\ StoreOK' /\ IndexExact' /\ OrphansAreDone'
      /\ BlockInv' /\ QueueSound' /\ SettledInWindow'
      /\ NoPriorityInversion' /\ GasBound'
  BY <1>2, <1>3, <1>5, <1>6, CalmWrite DEF SubsInv
<1>8. bal' \in [Accounts -> Nat]
  <2>1. /\ bal' = Pay(sub.creator, Collector, sub.fee * made)
        /\ made > 0 => sub.fee * made <= Spendable(bal, sub.creator)
    BY DEF Triggers
  <2>2. /\ sub.creator \in Creators /\ sub.fee * made \in Nat
        /\ made = 0 => sub.fee * made = 0
    BY <1>1 DEF Sub
  <2>3. Spendable(bal, sub.creator) \in Int
    BY <2>2, BoundsAssumption DEF SubsInv, SubTypeOK, TypeOK, Accounts, Spendable
  <2> HIDE DEF sub
  <2>4. sub.fee * made = 0 \/ Spendable(bal, sub.creator) >= sub.fee * made
    BY <2>1, <2>2, <2>3
  <2>5. QED BY <2>1, <2>2, <2>4, PayType DEF SubsInv, SubTypeOK
<1>9. IInv'
  BY <1>6, <1>7, <1>8 DEF SubsInv, IInv, TypeOK
<1>10. PICK status \in {sub.status, "error"} :
          /\ subs' = [subs EXCEPT ![id] = [sub EXCEPT !.count = @ + made, !.status = status]]
          /\ status = "error" => sub.status = "error" \/ Locked[sub.creator] > 0
  BY DEF Triggers
<1>11. /\ DOMAIN subs' = DOMAIN subs
       /\ \A i \in DOMAIN subs \ {id} : subs'[i] = subs[i]
       /\ subs'[id] = [sub EXCEPT !.count = @ + made, !.status = status]
  BY <1>1, <1>10
<1>12. subs'[id] \in Sub /\ subs'[id].creator = sub.creator /\ subs'[id].status = status
  <2>1. status \in SubStatus /\ sub.count + made \in Nat
    BY <1>1, <1>10 DEF Sub, SubStatus
  <2> HIDE DEF sub
  <2>2. QED BY <1>1, <1>11, <2>1 DEF Sub
<1>13. SubTypeOK'
  BY <1>6, <1>9, <1>11, <1>12 DEF SubsInv, SubTypeOK, IInv, Triggers
<1>14. ErrorOnlyWhenLocked'
  BY <1>10, <1>11, <1>12, <1>1 DEF SubsInv, ErrorOnlyWhenLocked
<1>15. QED BY <1>6, <1>9, <1>13, <1>14 DEF SubsInv, ListDone

-----------------------------------------------------------------------------
(* The theorems                                                            *)

(* The invariant of the subscriptions holds at first and is kept by every step. *)
THEOREM SubsInvInductive == (SubInit => SubsInv) /\ (SubsInv /\ [SubNext]_allVars => SubsInv')
<1>1. ASSUME SubInit PROVE SubsInv
  <2>1. IInv
    BY <1>1, InitInv DEF SubInit
  <2>2. QED
    BY <1>1, <2>1, SubBoundsAssumption
       DEF SubInit, SubsInv, SubTypeOK, ErrorOnlyWhenLocked, ListDone, IInv
<1>2. ASSUME SubsInv, [SubNext]_allVars PROVE SubsInv'
  <2>1. CASE (BeginBlocker \/ Deliver) /\ UNCHANGED subVars
    BY <1>2, <2>1, TaskStepInv
  <2>2. CASE SubMessages
    BY <1>2, <2>2, CreateSubInv, RenewSubInv, OtherMessagesInv DEF SubMessages
  <2>3. CASE StartBlockEvents
    BY <1>2, <2>3, StartEventsInv
  <2>4. CASE HandleBlockEvents
    <3>1. PICK id \in subQueue : DisableExpired(id) \/ DisableUnfunded(id) \/ Trigger(id)
      BY <2>4 DEF HandleBlockEvents
    <3>2. CASE DisableExpired(id) \/ DisableUnfunded(id)
      BY <1>2, <3>2, DisableInv
    <3>3. CASE Trigger(id)
      BY <1>2, <3>3, TriggerTriggers, TriggersInv
    <3>4. QED BY <3>1, <3>2, <3>3
  <2>5. CASE \E step \in TimeSteps : NextBlock(step)
    BY <1>2, <2>5, NextBlockInv
  <2>6. CASE UNCHANGED allVars
    <3>1. UNCHANGED vars /\ UNCHANGED <<subs, nextSubId, subQueue, stake, phase>>
      BY <2>6 DEF allVars, subVars, vars
    <3>2. IInv'
      BY <1>2, <3>1, NextInv DEF SubsInv
    <3>3. QED
      BY <1>2, <3>1, <3>2 DEF SubsInv, SubTypeOK, ErrorOnlyWhenLocked, ListDone, IInv
  <2>7. QED BY <1>2, <2>1, <2>2, <2>3, <2>4, <2>5, <2>6 DEF SubNext
<1>3. QED BY <1>1, <1>2

\* The inductive invariant holds in every reachable state.
THEOREM SubsAlways == SubSpec => []SubsInv
BY SubsInvInductive, PTL DEF SubSpec

\* Nothing that subscriptions do breaks what the scheduler relies on: its
\* inductive invariant also holds with them.
THEOREM TasksKeepInvariant == SubSpec => []IInv
<1>1. SubsInv => IInv
  BY DEF SubsInv
<1>2. QED BY <1>1, SubsAlways, PTL

\* Types: no creator is overdrawn by the fees of its subscriptions, and what
\* HandleBlockEvents has yet to visit still exists.
THEOREM SubTypes == SubSpec => []SubTypeOK
<1>1. SubsInv => SubTypeOK
  BY DEF SubsInv
<1>2. QED BY <1>1, SubsAlways, PTL

\* A subscription ends in "error" only when the bank keeps coins of its creator
\* locked: the funding check of HandleBlockEvents covers all that it charges.
THEOREM ErrorsNeedLocks == SubSpec => []ErrorOnlyWhenLocked
<1>1. SubsInv => ErrorOnlyWhenLocked
  BY DEF SubsInv
<1>2. QED BY <1>1, SubsAlways, PTL

\* The step of one subscription charges its creator a fee per task that is added.
LEMMA DisableCharges ==
    ASSUME SubsInv, NEW id \in subQueue, DisableExpired(id) \/ DisableUnfunded(id)
    PROVE  TriggerStep
<1>1. /\ tasks' = tasks /\ bal' = bal /\ subQueue' = subQueue \ {id}
      /\ subs' = [subs EXCEPT ![id] = [subs[id] EXCEPT !.status = "disabled"]]
  BY DEF DisableExpired, DisableUnfunded, Visited, store
<1>2. /\ id \in DOMAIN subs /\ subs[id] \in Sub /\ bal \in [Accounts -> Nat]
      /\ subs[id].creator \in Accounts /\ Collector \in Accounts
      /\ subs[id].creator # Collector /\ subs[id].fee \in Nat /\ subs[id].count \in Nat
  BY AccountAssumption DEF SubsInv, SubTypeOK, TypeOK, Accounts, Sub
<1>3. DOMAIN tasks' \ DOMAIN tasks = {} /\ Cardinality({}) = 0
  BY <1>1, FS_EmptySet
<1>4. subs'[id].count = subs[id].count
  BY <1>1, <1>2 DEF Sub
<1>5. subs[id].fee * 0 = 0 /\ subs[id].count + 0 = subs[id].count
  BY <1>2
<1>6. Pay(subs[id].creator, Collector, 0) = bal
  BY <1>2 DEF Pay
<1>7. QED BY <1>1, <1>3, <1>4, <1>5, <1>6 DEF TriggerStep

(* Triggering charges the creator one fee for each task it adds. *)
LEMMA TriggersCharges ==
    ASSUME SubsInv, NEW id \in subQueue, NEW made \in Nat, Triggers(id, made)
    PROVE  TriggerStep
<1> DEFINE sub == subs[id]
           new == nextTaskId..(nextTaskId + made - 1)
           added == DOMAIN tasks' \ DOMAIN tasks
<1>1. /\ sub \in Sub /\ id \in DOMAIN subs /\ nextTaskId \in Nat
      /\ DOMAIN tasks \subseteq 1..(nextTaskId - 1)
  BY BoundsAssumption DEF SubsInv, SubTypeOK, TypeOK, StoreOK
<1>2. Write([i \in new |-> SubTask(sub)], {}) /\ nextTaskId' = nextTaskId + made
  BY DEF Triggers
<1>3. /\ DOMAIN tasks' = DOMAIN tasks \cup new
      /\ \A i \in new : tasks'[i] = SubTask(sub)
  <2> DEFINE set == [i \in new |-> SubTask(sub)]
  <2>1. DOMAIN set = new /\ \A i \in new : set[i] = SubTask(sub)
    OBVIOUS
  <2>2. Write(set, {})
    BY <1>2
  <2> HIDE DEF set, new
  <2>3. /\ DOMAIN tasks' = (DOMAIN tasks \cup DOMAIN set) \ {}
        /\ \A i \in DOMAIN tasks' :
              tasks'[i] = IF i \in DOMAIN set THEN set[i] ELSE tasks[i]
    BY <2>2, WriteRecords
  <2>4. QED BY <2>1, <2>3
<1>4. new \cap DOMAIN tasks = {} /\ \A i \in new : nextTaskId <= i /\ i < nextTaskId'
  BY <1>1, <1>2
<1>5. added = new
  BY <1>3, <1>4
<1>6. Cardinality(new) = made
  <2>1. nextTaskId \in Int /\ nextTaskId + made - 1 \in Int
    BY <1>1
  <2>2. Cardinality(new) = IF nextTaskId > nextTaskId + made - 1 THEN 0
                           ELSE (nextTaskId + made - 1) - nextTaskId + 1
    BY <2>1, FS_Interval
  <2>3. QED BY <1>1, <2>2
<1>7. \A i \in added : /\ nextTaskId <= i /\ i < nextTaskId'
                       /\ tasks'[i].creator = sub.creator /\ tasks'[i].fee = sub.fee
  BY <1>3, <1>4, <1>5 DEF SubTask
<1>8. subs'[id].count = sub.count + made
  <2>1. PICK status : subs' = [subs EXCEPT ![id] =
                                  [sub EXCEPT !.count = @ + made, !.status = status]]
    BY DEF Triggers
  <2>2. subs'[id] = [sub EXCEPT !.count = @ + made, !.status = status]
    BY <1>1, <2>1
  <2> HIDE DEF sub
  <2>3. QED BY <1>1, <2>2 DEF Sub
<1>9. bal' = Pay(sub.creator, Collector, sub.fee * made) /\ subQueue' = subQueue \ {id}
  BY DEF Triggers
<1>10. QED BY <1>3, <1>5, <1>6, <1>7, <1>8, <1>9 DEF TriggerStep

\* Whatever fails half way, the events of a block charge a creator one fee for each
\* task that a subscription of its adds, and count as many triggers.
THEOREM TriggersAreCharged == SubSpec => TriggerCharged
<1>1. ASSUME SubsInv, [SubNext]_allVars PROVE TriggerStep
  <2>1. CASE HandleBlockEvents
    <3>1. PICK id \in subQueue : DisableExpired(id) \/ DisableUnfunded(id) \/ Trigger(id)
      BY <2>1 DEF HandleBlockEvents
    <3>2. CASE DisableExpired(id) \/ DisableUnfunded(id)
      BY <1>1, <3>2, DisableCharges
    <3>3. CASE Trigger(id)
      BY <1>1, <3>3, TriggerTriggers, TriggersCharges
    <3>4. QED BY <3>1, <3>2, <3>3
  <2>2. CASE StartBlockEvents \/ SubMessages
    BY <2>2 DEF StartBlockEvents, SubMessages, CreateSubscription, RenewSubscription,
                DeleteSubscription, Restake, TriggerStep
  <2>3. CASE subQueue' = subQueue
    BY <2>3 DEF TriggerStep
  <2>4. QED
    BY <1>1, <2>1, <2>2, <2>3 DEF SubNext, NextBlock, subVars, allVars
<1>2. SubsInv /\ [SubNext]_allVars => [TriggerStep]_allVars
  BY <1>1
<1>3. QED BY <1>2, SubsAlways, PTL DEF SubSpec, TriggerCharged

-----------------------------------------------------------------------------
(* What the end of a block leaves behind: the safety half of what TLC       *)
(* checks of EventuallySettled and LapsedIsDisabled                        *)

\* once a block has expired its overdue tasks, a live task is inside its window
NothingOverdue ==
    phase # "expire" =>
        \A id \in DOMAIN tasks : tasks[id].status \in Active => now < tasks[id].expiry

\* A task that is added is not overdue: neither a message's, nor one that the
\* messages of a running task create.
LEMMA LiveRecord ==
    ASSUME TypeOK, NEW new \in NewRecords
    PROVE  DOMAIN new = {nextTaskId} /\ now < new[nextTaskId].expiry
<1>1. PICK a \in TaskArgs : new = [id \in {nextTaskId} |-> NewTask(a)]
  BY DEF NewRecords
<1>2. /\ a.delay \in Nat /\ a.life \in Nat /\ now \in Nat
      /\ params.expiryLimit \in Nat \ {0}
  BY ArgsAssumption, BoundsAssumption, ParamsAssumption DEF TypeOK, Params
<1>3. NewTask(a).expiry =
         now + a.delay + (IF a.life = 0 THEN params.expiryLimit ELSE a.life)
  BY DEF NewTask
<1>4. now < NewTask(a).expiry
  BY <1>2, <1>3
<1>5. QED BY <1>1, <1>4

\* What a write adds is not overdue when no new record of it is.
LEMMA WriteAdds ==
    ASSUME NEW set, NEW del, Write(set, del),
           \A id \in DOMAIN set \ DOMAIN tasks : now < set[id].expiry
    PROVE  \A id \in DOMAIN tasks' \ DOMAIN tasks : now < tasks'[id].expiry
<1>1. /\ DOMAIN tasks' = (DOMAIN tasks \cup DOMAIN set) \ del
      /\ \A id \in DOMAIN tasks' :
            tasks'[id] = IF id \in DOMAIN set THEN set[id] ELSE tasks[id]
  BY WriteRecords
<1>2. ASSUME NEW id \in DOMAIN tasks' \ DOMAIN tasks
      PROVE  id \in DOMAIN set \ DOMAIN tasks /\ tasks'[id] = set[id]
  BY <1>1
<1>3. QED BY <1>2

(* So is every task that a step of BeginBlocker or a message adds. *)
LEMMA AddedAreLive ==
    ASSUME IInv, BeginBlocker \/ Deliver
    PROVE  \A id \in DOMAIN tasks' \ DOMAIN tasks : now < tasks'[id].expiry
<1>0. TypeOK
  BY DEF IInv
<1>1. ASSUME NEW set, NEW del, Write(set, del), DOMAIN set \subseteq DOMAIN tasks
      PROVE  DOMAIN tasks' \subseteq DOMAIN tasks
  <2>1. DOMAIN tasks' = (DOMAIN tasks \cup DOMAIN set) \ del
    BY <1>1, WriteRecords
  <2>2. QED BY <1>1, <2>1
<1>2. CASE CreateTask
  <2>1. PICK new \in NewRecords : Write(new, {})
    BY <1>2 DEF CreateTask, SetTasks
  <2>2. \A id \in DOMAIN new : now < new[id].expiry
    BY <1>0, LiveRecord
  <2>3. QED BY <2>1, <2>2, WriteAdds
<1>3. ASSUME NEW p \in queue, p[2] \in DOMAIN tasks, RunDone(p)
      PROVE  \A id \in DOMAIN tasks' \ DOMAIN tasks : now < tasks'[id].expiry
  <2> DEFINE none == [id \in {} |-> {}]
             ran == Marked({p[2]}, "DONE")
  <2>1. PICK del \in SUBSET DOMAIN tasks, new \in NewRecords \cup {none} :
           Write([id \in {p[2]} \cup DOMAIN new |->
                     IF id \in DOMAIN new THEN new[id] ELSE ran[id]], del)
    BY <1>3 DEF RunDone
  <2>2. \A id \in DOMAIN new : now < new[id].expiry
    <3>1. CASE new \in NewRecords
      BY <1>0, <3>1, LiveRecord
    <3>2. CASE new = none
      BY <3>2
    <3>3. QED BY <3>1, <3>2
  <2> HIDE DEF ran
  <2> DEFINE set == [id \in {p[2]} \cup DOMAIN new |->
                        IF id \in DOMAIN new THEN new[id] ELSE ran[id]]
  <2>3. /\ Write(set, del) /\ DOMAIN set = {p[2]} \cup DOMAIN new
        /\ \A id \in DOMAIN new : set[id] = new[id]
    BY <2>1
  <2> HIDE DEF set
  <2>4. \A id \in DOMAIN set \ DOMAIN tasks : now < set[id].expiry
    BY <1>3, <2>2, <2>3
  <2>5. QED BY <2>3, <2>4, WriteAdds
<1>4. ASSUME NEW p \in queue, \/ PassGone(p) \/ PassTooBig(p) \/ Reject(p)
                              \/ p[2] \in DOMAIN tasks /\ RunFailed(p)
      PROVE  DOMAIN tasks' \subseteq DOMAIN tasks
  <2>1. CASE PassGone(p) \/ PassTooBig(p)
    BY <2>1 DEF PassGone, PassTooBig, store
  <2>2. ASSUME p[2] \in DOMAIN tasks, NEW s, Write(Marked({p[2]}, s), {})
        PROVE  DOMAIN tasks' \subseteq DOMAIN tasks
    <3>1. DOMAIN Marked({p[2]}, s) = {p[2]}
      BY DEF Marked
    <3>2. QED BY <1>1, <2>2, <3>1
  <2>3. CASE Reject(p)
    BY <2>2, <2>3 DEF Reject, SetTasks
  <2>4. CASE p[2] \in DOMAIN tasks /\ RunFailed(p)
    BY <2>2, <2>4 DEF RunFailed, SetTasks
  <2>5. QED BY <1>4, <2>1, <2>3, <2>4
<1>5. CASE CheckExpiredTasks
  <2>1. DOMAIN Marked(Overdue, "EXPIRED") \subseteq DOMAIN tasks
    BY DEF Marked, Overdue
  <2>2. DOMAIN tasks' \subseteq DOMAIN tasks
    BY <1>1, <1>5, <2>1 DEF CheckExpiredTasks, SetTasks
  <2>3. QED BY <2>2
<1>6. CASE MoveDueTasks
  <2>1. DOMAIN [id \in Due |-> [tasks[id] EXCEPT !.status = "PENDING"]] \subseteq DOMAIN tasks
    BY DEF Due
  <2>2. DOMAIN tasks' \subseteq DOMAIN tasks
    BY <1>1, <1>6, <2>1 DEF MoveDueTasks, SetTasks
  <2>3. QED BY <2>2
<1>7. CASE FinishBeginBlock \/ \E caller \in Creators, id \in DOMAIN tasks : DeleteTask(caller, id)
  <2>1. DOMAIN [i \in {} |-> {}] = {}
    OBVIOUS
  <2>2. DOMAIN tasks' \subseteq DOMAIN tasks
    BY <1>1, <1>7, <2>1 DEF FinishBeginBlock, DeleteTask, RemoveTasks
  <2>3. QED BY <2>2
<1>8. CASE UpdateParams \/ Transfer \/ Restart
  BY <1>8 DEF UpdateParams, Transfer, Restart, store
<1>9. CASE ExecPending
  <2>1. PICK p \in queue : \/ PassGone(p) \/ PassTooBig(p) \/ Reject(p)
                           \/ p[2] \in DOMAIN tasks /\ RunDone(p)
                           \/ p[2] \in DOMAIN tasks /\ RunFailed(p)
    BY <1>9 DEF ExecPending
  <2>2. QED BY <1>3, <1>4, <2>1
<1>10. QED
  BY <1>2, <1>5, <1>6, <1>7, <1>8, <1>9 DEF BeginBlocker, Deliver

\* Only the pass that expires tasks leaves the phase "expire"; the steps of a
\* block and the messages take no time, and none of them handles events.
LEMMA StepPhases ==
    ASSUME BeginBlocker \/ Deliver
    PROVE  /\ now' = now
           /\ \/ CheckExpiredTasks /\ phase' = "due"
              \/ phase # "expire"
           /\ phase' # "events"
<1>1. CASE ExecPending
  <2>1. PICK p \in queue : \/ PassGone(p) \/ PassTooBig(p) \/ Reject(p)
                           \/ RunDone(p) \/ RunFailed(p)
    BY <1>1 DEF ExecPending
  <2>2. CASE PassGone(p) \/ PassTooBig(p) \/ Reject(p)
    BY <2>2 DEF PassGone, PassTooBig, Reject
  <2>3. CASE RunDone(p) \/ RunFailed(p)
    BY <2>3 DEF RunDone, RunFailed, StartRun
  <2>4. QED BY <2>1, <2>2, <2>3
<1>2. CASE CheckExpiredTasks \/ MoveDueTasks \/ FinishBeginBlock
  BY <1>2 DEF CheckExpiredTasks, MoveDueTasks, FinishBeginBlock
<1>3. CASE Deliver
  BY <1>3 DEF Deliver, CreateTask, DeleteTask, UpdateParams, Transfer, Restart
<1>4. QED BY <1>1, <1>2, <1>3 DEF BeginBlocker

(* So nothing becomes overdue between two headers. *)
LEMMA NothingOverdueKept ==
    ASSUME IInv, IInv', NothingOverdue, BeginBlocker \/ Deliver
    PROVE  NothingOverdue'
<1>1. CASE CheckExpiredTasks /\ phase' = "due"
  BY <1>1 DEF IInv, BlockInv, NothingOverdue
<1>2. CASE phase # "expire"
  <2>1. now' = now /\ LifecycleStep
    BY StepPhases, StepMoves
  <2>2. ASSUME NEW id \in DOMAIN tasks \cap DOMAIN tasks', tasks'[id].status \in Active
        PROVE  now < tasks'[id].expiry
    <3> DEFINE s == tasks[id]
               t == tasks'[id]
    <3>1. s \in Task /\ t.status \in Active
      BY <2>2 DEF IInv, TypeOK, StoreOK
    <3>2. Forward(s, t) /\ t = [s EXCEPT !.status = t.status, !.execTs = t.execTs]
      BY <2>1 DEF LifecycleStep
    <3>3. s.status \in Active => now < s.expiry
      BY <1>2 DEF NothingOverdue
    <3> HIDE DEF s, t
    <3>4. t.expiry = s.expiry
      BY <3>1, <3>2 DEF Task
    <3>5. s.status \in Active
      BY <3>1, <3>2 DEF Forward, Active, Terminal
    <3>6. now < t.expiry
      BY <3>3, <3>4, <3>5
    <3>7. QED BY <3>6 DEF t
  <2>3. QED BY <2>1, <2>2, AddedAreLive DEF NothingOverdue
<1>3. QED BY <1>1, <1>2, StepPhases

\* No task waits past its expiry: whenever messages are delivered or a task is
\* run, every task still scheduled or pending is inside its window.
THEOREM NoneOverdue == Spec => []NothingOverdue
<1>1. Init => NothingOverdue
  BY DEF Init, NothingOverdue
<1>2. IInv /\ IInv' /\ NothingOverdue /\ [Next]_vars => NothingOverdue'
  <2> SUFFICES ASSUME IInv, IInv', NothingOverdue, [Next]_vars PROVE NothingOverdue'
    OBVIOUS
  <2>1. CASE BeginBlocker \/ Deliver
    BY <2>1, NothingOverdueKept
  <2>2. CASE \E step \in TimeSteps : EndBlock(step)
    BY <2>2 DEF EndBlock, NextHeader, NothingOverdue
  <2>3. CASE UNCHANGED vars
    BY <2>3 DEF vars, store, NothingOverdue
  <2>4. QED BY <2>1, <2>2, <2>3 DEF Next
<1>3. QED BY <1>1, <1>2, Inductive, PTL DEF Spec

\* The same with subscriptions: the tasks that events add are not overdue either.
LEMMA TriggersLive ==
    ASSUME SubsInv, NothingOverdue, NEW id \in subQueue, NEW made \in Nat, Triggers(id, made)
    PROVE  NothingOverdue'
<1> DEFINE new == nextTaskId..(nextTaskId + made - 1)
           set == [i \in new |-> SubTask(subs[id])]
<1>1. /\ Write(set, {}) /\ DOMAIN set = new
      /\ phase = "events" /\ phase' = phase /\ now' = now
  BY DEF Triggers
<1>2. now \in Nat /\ ConfigExpiryLimit \in Nat \ {0}
  BY BoundsAssumption, SubBoundsAssumption DEF SubsInv, IInv, TypeOK
<1>3. new \cap DOMAIN tasks = {}
  BY BoundsAssumption DEF SubsInv, IInv, TypeOK, StoreOK
<1>4. \A i \in DOMAIN set : now < set[i].expiry
  BY <1>2 DEF SubTask
<1> HIDE DEF set, new
<1>5. \A i \in DOMAIN tasks' \ DOMAIN tasks : now < tasks'[i].expiry
  BY <1>1, <1>4, WriteAdds
<1>6. \A i \in DOMAIN tasks : tasks'[i] = tasks[i]
  <2>1. /\ DOMAIN tasks' = (DOMAIN tasks \cup DOMAIN set) \ {}
        /\ \A i \in DOMAIN tasks' :
              tasks'[i] = IF i \in DOMAIN set THEN set[i] ELSE tasks[i]
    BY <1>1, WriteRecords
  <2>2. QED BY <1>1, <1>3, <2>1
<1>7. QED BY <1>1, <1>5, <1>6 DEF NothingOverdue

\* No task waits past its expiry when events add tasks at the end of a block,
\* under ids and with times of their own.
THEOREM NoneOverdueWithSubs == SubSpec => []NothingOverdue
<1>1. SubInit => NothingOverdue
  BY DEF SubInit, Init, NothingOverdue
<1>2. SubsInv /\ SubsInv' /\ NothingOverdue /\ [SubNext]_allVars => NothingOverdue'
  <2> SUFFICES ASSUME SubsInv, SubsInv', NothingOverdue, [SubNext]_allVars
               PROVE  NothingOverdue'
    OBVIOUS
  <2>1. CASE BeginBlocker \/ Deliver
    BY <2>1, NothingOverdueKept DEF SubsInv
  <2>2. CASE SubMessages
    <3>1. phase = "deliver" /\ UNCHANGED <<tasks, now, phase>>
      BY <2>2 DEF SubMessages, CreateSubscription, RenewSubscription, DeleteSubscription,
                  Restake, vars, store
    <3>2. QED BY <3>1 DEF NothingOverdue
  <2>3. CASE StartBlockEvents
    BY <2>3 DEF StartBlockEvents, store, NothingOverdue
  <2>4. ASSUME NEW id \in subQueue, DisableExpired(id) \/ DisableUnfunded(id)
        PROVE  NothingOverdue'
    BY <2>4 DEF DisableExpired, DisableUnfunded, Visited, IsNext, store, NothingOverdue
  <2>5. ASSUME NEW id \in subQueue, Trigger(id) PROVE NothingOverdue'
    BY <2>5, TriggerTriggers, TriggersLive
  <2>6. CASE \E step \in TimeSteps : NextBlock(step)
    BY <2>6 DEF NextBlock, NextHeader, NothingOverdue
  <2>7. CASE UNCHANGED allVars
    BY <2>7 DEF allVars, vars, store, NothingOverdue
  <2>8. QED
    BY <2>1, <2>2, <2>3, <2>4, <2>5, <2>6, <2>7 DEF SubNext, HandleBlockEvents
<1>3. QED BY <1>1, <1>2, SubsAlways, PTL DEF SubSpec

\* what HandleBlockEvents has visited in this block, or never had on its list, is
\* not enabled past its expiry
NoneLapsed == phase = "events" => \A id \in DOMAIN subs \ subQueue : ~Lapsed(id)

\* A subscription that HandleBlockEvents visits keeps its expiry; it is over and
\* disabled, or it was not over.
LEMMA VisitEnds ==
    ASSUME SubsInv, NEW id \in subQueue, DisableExpired(id) \/ DisableUnfunded(id) \/ Trigger(id)
    PROVE  /\ phase = "events" /\ subQueue' = subQueue \ {id} /\ now' = now
           /\ DOMAIN subs' = DOMAIN subs
           /\ \A i \in DOMAIN subs \ {id} : subs'[i] = subs[i]
           /\ ~Lapsed(id)'
<1>0. id \in DOMAIN subs /\ subs[id] \in Sub /\ now \in Nat
  BY BoundsAssumption DEF SubsInv, SubTypeOK, IInv, TypeOK
<1>1. CASE DisableExpired(id) \/ DisableUnfunded(id)
  <2>1. /\ phase = "events" /\ subQueue' = subQueue \ {id} /\ now' = now
        /\ subs' = [subs EXCEPT ![id] = [subs[id] EXCEPT !.status = "disabled"]]
    BY <1>1 DEF DisableExpired, DisableUnfunded, Visited, IsNext
  <2>2. subs'[id].status = "disabled"
    BY <1>0, <2>1 DEF Sub
  <2>3. QED BY <1>0, <2>1, <2>2 DEF Lapsed
<1>2. CASE Trigger(id)
  <2>1. PICK made \in Nat : Triggers(id, made)
    BY <1>2, TriggerTriggers
  <2>2. PICK status : subs' = [subs EXCEPT ![id] =
                                  [subs[id] EXCEPT !.count = @ + made, !.status = status]]
    BY <2>1 DEF Triggers
  <2>3. /\ phase = "events" /\ subQueue' = subQueue \ {id} /\ now' = now
        /\ ~(subs[id].expiry <= now)
    BY <1>2, <2>1 DEF Triggers, Trigger, Over
  <2>4. subs'[id].expiry = subs[id].expiry
    BY <1>0, <2>2 DEF Sub
  <2>5. QED BY <1>0, <2>2, <2>3, <2>4 DEF Lapsed
<1>3. QED BY <1>1, <1>2

\* A block leaves no expired subscription enabled: when HandleBlockEvents is
\* through its list, whatever it triggered and whatever failed on the way, every
\* subscription that is still enabled has time left.
THEOREM LapsedAreDisabled ==
    SubSpec => [](phase = "events" /\ subQueue = {} => \A id \in DOMAIN subs : ~Lapsed(id))
<1>1. SubInit => NoneLapsed
  BY DEF SubInit, Init, NoneLapsed
<1>2. SubsInv /\ NoneLapsed /\ [SubNext]_allVars => NoneLapsed'
  <2> SUFFICES ASSUME SubsInv, NoneLapsed, [SubNext]_allVars PROVE NoneLapsed'
    OBVIOUS
  <2>1. CASE BeginBlocker \/ Deliver
    <3>1. phase' # "events"
      BY <2>1, StepPhases
    <3>2. QED BY <3>1 DEF NoneLapsed
  <2>2. CASE SubMessages
    <3>1. phase' = "deliver"
      BY <2>2 DEF SubMessages, CreateSubscription, RenewSubscription, DeleteSubscription,
                  Restake, vars
    <3>2. QED BY <3>1 DEF NoneLapsed
  <2>3. CASE StartBlockEvents
    <3>1. /\ subs' = subs /\ now' = now
          /\ subQueue' = {id \in DOMAIN subs : subs[id].status = "enabled"}
      BY <2>3 DEF StartBlockEvents
    <3>2. QED BY <3>1 DEF NoneLapsed, Lapsed
  <2>4. ASSUME NEW id \in subQueue,
               DisableExpired(id) \/ DisableUnfunded(id) \/ Trigger(id)
        PROVE  NoneLapsed'
    <3>1. /\ phase = "events" /\ subQueue' = subQueue \ {id} /\ now' = now
          /\ DOMAIN subs' = DOMAIN subs
          /\ \A i \in DOMAIN subs \ {id} : subs'[i] = subs[i]
          /\ ~Lapsed(id)'
      BY <2>4, VisitEnds
    <3>2. \A i \in DOMAIN subs' \ subQueue' : i # id => ~Lapsed(i)'
      BY <3>1 DEF NoneLapsed, Lapsed
    <3>3. QED BY <3>1, <3>2 DEF NoneLapsed
  <2>5. CASE \E step \in TimeSteps : NextBlock(step)
    BY <2>5 DEF NextBlock, NextHeader, NoneLapsed
  <2>6. CASE UNCHANGED allVars
    BY <2>6 DEF allVars, vars, subVars, NoneLapsed, Lapsed
  <2>7. QED BY <2>1, <2>2, <2>3, <2>4, <2>5, <2>6 DEF SubNext, HandleBlockEvents
<1>3. NoneLapsed => (phase = "events" /\ subQueue = {} => \A id \in DOMAIN subs : ~Lapsed(id))
  BY DEF NoneLapsed
<1>4. QED BY <1>1, <1>2, <1>3, SubsAlways, PTL DEF SubSpec
=============================================================================
