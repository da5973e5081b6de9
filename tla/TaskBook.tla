------------------------------- MODULE TaskBook -------------------------------
(***************************************************************************)
(* What x/crontask promises to the creator of a task, without its queue,   *)
(* its indexes and its gas accounting: a book of entries that wait, and    *)
(* are then settled once.  A task is served inside its window and its fee  *)
(* is collected exactly then; it lapses only after its window; nothing     *)
(* else takes a fee.  CronTask implements this specification.              *)
(***************************************************************************)
EXTENDS Integers

VARIABLES
    book,       \* id -> [state, sched, expiry, fee], a partial function
    next,       \* the next id
    clock,
    collected   \* fees taken so far

bookVars == <<book, next, clock, collected>>

Settled == {"DONE", "FAILED", "EXPIRED"}

Without(f, ids) == [id \in DOMAIN f \ ids |-> f[id]]

\* an entry may be added with the next id, to wait for a window not yet over
Opens(b) ==
    \/ DOMAIN b = {} /\ next' = next
    \/ /\ DOMAIN b = {next} /\ next' = next + 1
       /\ b[next].state = "waiting"
       /\ b[next].sched >= clock /\ b[next].expiry > b[next].sched

\* the entries of `book' that are still there are as they were, but for `ids'
Same(ids) == \A id \in (DOMAIN book \cap DOMAIN book') \ ids : book'[id] = book[id]
Opened == [id \in DOMAIN book' \ DOMAIN book |-> book'[id]]

Open ==
    /\ DOMAIN book \subseteq DOMAIN book' /\ Same({})
    /\ Opened # [id \in {} |-> {}] /\ Opens(Opened)
    /\ UNCHANGED <<clock, collected>>

\* the task runs: its messages may drop entries, its own too, and open one
Serve(id) ==
    /\ book[id].state = "waiting"
    /\ book[id].sched <= clock /\ clock < book[id].expiry
    /\ collected' = collected + book[id].fee
    /\ Same({id}) /\ Opens(Opened)
    /\ id \in DOMAIN book' =>
          book'[id] \in {[book[id] EXCEPT !.state = s] : s \in {"DONE", "FAILED"}}
    /\ UNCHANGED clock

\* the fee cannot be paid
Refuse(id) ==
    /\ book[id].state = "waiting"
    /\ book[id].sched <= clock /\ clock < book[id].expiry
    /\ book' = [book EXCEPT ![id].state = "FAILED"]
    /\ UNCHANGED <<next, clock, collected>>

Lapse ==
    /\ book' = [id \in DOMAIN book |->
                  IF book[id].state = "waiting" /\ book[id].expiry <= clock
                  THEN [book[id] EXCEPT !.state = "EXPIRED"] ELSE book[id]]
    /\ UNCHANGED <<next, clock, collected>>

Cancel(id) == book' = Without(book, {id}) /\ UNCHANGED <<next, clock, collected>>

\* settled entries are forgotten some time after
Forget ==
    /\ \E ids \in SUBSET {id \in DOMAIN book : book[id].state \in Settled} :
          book' = Without(book, ids)
    /\ UNCHANGED <<next, clock, collected>>

Tick == clock' > clock /\ UNCHANGED <<book, next, collected>>

BookInit ==
    /\ book = [id \in {} |-> {}]
    /\ next = 1 /\ clock = 1 /\ collected = 0

BookNext ==
    \/ Open \/ Lapse \/ Forget \/ Tick
    \/ \E id \in DOMAIN book : Serve(id) \/ Refuse(id) \/ Cancel(id)

BookSpec == BookInit /\ [][BookNext]_bookVars
=============================================================================
