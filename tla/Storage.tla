------------------------------- MODULE Storage -------------------------------
(***************************************************************************)
(* x/storage: entries by owner and index, and per owner the bytes they take *)
(* and the stake these ask for.  Of an entry's data the module keeps the    *)
(* size.  Indexes are numbered in the order in which the store keeps them.  *)
(* A refused message is undone with its transaction and is no step.         *)
(***************************************************************************)
EXTENDS Integers, FiniteSets, Functions

CONSTANTS
    Owners, Indexes,    \* Indexes: numbers, in the order of the strings
    Sizes,              \* bytes of data an entry may have
    ParamSet,           \* parameters governance may set: maxSize, multiple
    StakeLevels,        \* bonded stake an account may have
    DecOne              \* 1.0: a multiple is stake per byte, in units of 1/DecOne

VARIABLES
    entries,            \* StorageMap: owner -> (index -> size), a partial function
    metrics,            \* StorageMetricsMap: owner -> total, minStake, a partial function
    params,
    stake               \* staking: bonded coins of an account

storageVars == <<entries, metrics, params, stake>>

ASSUME StorageAssumption ==
    /\ Indexes \subseteq Nat \ {0} /\ IsFiniteSet(Indexes)
    /\ Sizes \subseteq Nat /\ StakeLevels \subseteq Nat /\ DecOne \in Nat \ {0}
    /\ ParamSet \subseteq [maxSize: Nat \ {0}, multiple: Nat]

-----------------------------------------------------------------------------
(* Bytes and the stake they ask for                                        *)

Stored(o) == DOMAIN entries[o]
OldSize(o, i) == IF i \in Stored(o) THEN entries[o][i] ELSE 0
BytesOf(o) == SumFunction(entries[o])

CalculateMinStakeAmount(bytes) == (bytes * params.multiple) \div DecOne
Measured(bytes) == [total |-> bytes, minStake |-> CalculateMinStakeAmount(bytes)]

\* an owner that was never measured has nothing stored
GetStorageMetrics(o) == IF o \in DOMAIN metrics THEN metrics[o] ELSE Measured(0)

UpdateStorageMetrics(o, delta) ==
    LET bytes == GetStorageMetrics(o).total + delta
        new   == Measured(IF bytes < 0 THEN 0 ELSE bytes)
    IN metrics' = [x \in DOMAIN metrics \cup {o} |-> IF x = o THEN new ELSE metrics[x]]

\* what a set adds to the bytes: the entry it replaces is no longer there
Grown_Size(o, i, size) == size
Grown(o, i, size) == size - OldSize(o, i)

\* a multiple of zero switches the check off
Staked_DataOnly(o, i, size) ==
    params.multiple = 0 \/ stake[o] >= CalculateMinStakeAmount(size)
Staked(o, i, size) ==
    \/ params.multiple = 0
    \/ stake[o] >= CalculateMinStakeAmount(GetStorageMetrics(o).total + Grown(o, i, size))

-----------------------------------------------------------------------------
(* Messages                                                                *)

StorageSet(o, i, size) ==
    /\ size <= params.maxSize
    /\ Staked(o, i, size)
    /\ entries' = [entries EXCEPT ![o] =
                      [x \in Stored(o) \cup {i} |-> IF x = i THEN size ELSE @[x]]]
    /\ UpdateStorageMetrics(o, Grown(o, i, size))
    /\ UNCHANGED <<params, stake>>

\* bytes of those of the named entries that there are
Freed(o, named) == SumFunctionOnSet(entries[o], named \cap Stored(o))

\* Names of no entry are passed over, and one named twice is gone the second time.
StorageDelete(o, named) ==
    /\ named # {}
    /\ entries' = [entries EXCEPT ![o] = [x \in Stored(o) \ named |-> @[x]]]
    /\ IF Freed(o, named) > 0 THEN UpdateStorageMetrics(o, -Freed(o, named))
                              ELSE UNCHANGED metrics
    /\ UNCHANGED <<params, stake>>

\* nothing is measured again
UpdateParams(p) == params' = p /\ UNCHANGED <<entries, metrics, stake>>

\* staking, outside this module
Restake(o, level) ==
    /\ level # stake[o] /\ stake' = [stake EXCEPT ![o] = level]
    /\ UNCHANGED <<entries, metrics, params>>

\* The chain is exported and starts again from that genesis: the entries are
\* loaded as they are, and RebuildDerivedState measures every owner of one.
Restart ==
    /\ metrics' = [o \in {x \in Owners : Stored(x) # {}} |-> Measured(BytesOf(o))]
    /\ UNCHANGED <<entries, params, stake>>

-----------------------------------------------------------------------------
StorageInit ==
    /\ entries = [o \in Owners |-> [i \in {} |-> 0]]
    /\ metrics = [o \in {} |-> Measured(0)]
    /\ params \in ParamSet
    /\ stake \in [Owners -> StakeLevels]

Messages ==
    \/ \E o \in Owners :
          \/ \E i \in Indexes, size \in Sizes : StorageSet(o, i, size)
          \/ \E named \in SUBSET Indexes : StorageDelete(o, named)
          \/ \E level \in StakeLevels : Restake(o, level)
    \/ \E p \in ParamSet : UpdateParams(p)
    \/ Restart

-----------------------------------------------------------------------------
(* Properties                                                              *)

\* The bytes counted for an owner are those it has stored, through any chain of
\* sets over old entries, deletions of some, of none and of the same index twice,
\* and restarts: the count is kept by differences, never taken again.
MetricsExact == \A o \in Owners : GetStorageMetrics(o).total = BytesOf(o)

\* Whoever gains an entry, or gets one of another size, has at that moment the
\* stake that everything it has stored asks for, old entries and those written
\* before the multiple was raised included.
WritesStep ==
    \A o \in Owners :
        LET written == {i \in DOMAIN entries'[o] :
                            i \in Stored(o) => entries'[o][i] # entries[o][i]}
        IN written # {} => \/ DecOne * (stake[o] + 1) > SumFunction(entries'[o]) * params.multiple
                           \/ params.multiple = 0
WritesAreStaked == [][WritesStep]_storageVars

\* storage.proto:45 says of min_stake_amount that it is "the minimum stake
\* required in udys for the current storage usage (total_bytes x
\* storage_stake_multiple)".
MinStakeIsCurrent ==
    \A o \in Owners :
        GetStorageMetrics(o).minStake = CalculateMinStakeAmount(GetStorageMetrics(o).total)
=============================================================================
