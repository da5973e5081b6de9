---------------------------- MODULE CronTaskClaims ----------------------------
(***************************************************************************)
(* CronTask against what it promises (TaskBook) and against sentences of   *)
(* the repository's documents and comments that the code does not keep.    *)
(***************************************************************************)
EXTENDS CronTask

\* The refinement mapping: the queue is hidden, SCHEDULED and PENDING wait.
Entry(t) ==
    [state |-> IF t.status \in Active THEN "waiting" ELSE t.status,
     sched |-> t.sched, expiry |-> t.expiry, fee |-> t.fee]

Entries == [id \in DOMAIN tasks |-> Entry(tasks[id])]

Book == INSTANCE TaskBook WITH
            book <- Entries,
            next <- nextTaskId,
            clock <- now,
            collected <- bal[Collector]

\* The scheduler keeps the creator's contract: every step of BeginBlocker and of
\* the handlers opens, serves, refuses, lapses, cancels or forgets book entries.
KeepsBook == Book!BookSpec

\* task_storage.go says of SetTask that it "guarantees that secondary indexes
\* are always in sync with the primary record": no entry without a record.
IndexesInSync == \A k \in tsIndex \cup gasIndex : k[3] \in DOMAIN tasks

\* crontask_guide.md calls block_gas_limit the "maximum gas that can be consumed
\* by scheduled tasks in a single block".
BlockGasLimitHolds == cronGasUsed <= params.blockGasLimit

\* crontask.proto calls executed_task_count the "number of executed tasks (DONE
\* or FAILED via execution path)"; a task that executes consumes gas.
ExecutedCountMeansRun == metrics.executed > 0 => metrics.gas > 0

\* abci.go says that its pending counters are for "tasks that remain pending
\* into next block".
PendingCountIsLeft ==
    phase = "exec" /\ queue = {} =>
        skipped = {id \in DOMAIN tasks : tasks[id].status = "PENDING"}
=============================================================================
