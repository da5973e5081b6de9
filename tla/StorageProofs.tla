---------------------------- MODULE StorageProofs ----------------------------
(***************************************************************************)
(* Proofs about Storage and StorageList for any indexes, sizes, parameters, *)
(* prefixes, filters and sizes of pages: no index is given twice and none   *)
(* that stays is left out; the bytes counted are the bytes stored; and      *)
(* whoever writes has the stake for all that it has stored.                 *)
(***************************************************************************)
EXTENDS StorageList, SumProofs

(* The parts of the invariant: types; what was given lies before the key and *)
(* what is due was given or lies from the key on; the end of a listing.      *)
EntriesOK == entries \in [Owners -> UNION {[D -> Sizes] : D \in SUBSET Indexes}]
ListTypeOK ==
    /\ EntriesOK
    /\ listing \in [req: Requests, key: Indexes \cup {NoKey}]
    /\ seen \in [Indexes -> {0, 1}]
    /\ due \subseteq Matching(listing.req)

Exempt(req, i) == req.reverse /\ KeyOf(req, i) = NoKey

\* what holds of a listing whose next key is `key'
Split(req, key, given, owed) ==
    /\ key # NoKey =>
          /\ \A i \in Indexes : given[i] = 1 => Before(req, i, key)
          /\ \A i \in owed : given[i] = 1 \/ ~Before(req, i, key)
    /\ key = NoKey => \A i \in owed : given[i] = 1 \/ Exempt(req, i)

ListInv == ListTypeOK /\ Split(listing.req, listing.key, seen, due)

-----------------------------------------------------------------------------
(* The order of iteration                                                  *)

(* Indexes are numbers. *)
LEMMA IndexesAreIntegers == Indexes \subseteq Int
<1>1. ASSUME NEW i \in Indexes PROVE i \in Int
    BY StorageAssumption
<1> QED
    BY <1>1

(* Of two indexes one comes before the other. *)
LEMMA Ordered ==
    ASSUME NEW req \in Requests, NEW i \in Indexes, NEW j \in Indexes, NEW k \in Indexes
    PROVE  /\ ~Before(req, i, i)
           /\ i = j \/ Before(req, i, j) \/ Before(req, j, i)
           /\ ~(Before(req, i, j) /\ Before(req, j, i))
           /\ Before(req, i, j) /\ ~Before(req, k, j) => Before(req, i, k)
           /\ Before(req, i, j) /\ Before(req, j, k) => Before(req, i, k)
<1>1. i \in Int /\ j \in Int /\ k \in Int
    BY IndexesAreIntegers
<1>2. CASE req.reverse
    BY <1>1, <1>2 DEF Before
<1>3. CASE ~req.reverse
    BY <1>1, <1>3 DEF Before
<1> QED
    BY <1>2, <1>3

(* What matches a request are indexes that have its prefix. *)
LEMMA MatchesAreIndexes ==
    ASSUME EntriesOK, NEW req \in Requests
    PROVE  /\ Matching(req) \subseteq Indexes
           /\ Matching(req) \subseteq req.prefix.first..req.prefix.last
<1>1. req.owner \in Owners
    BY ListAssumption DEF Request
<1>2. entries[req.owner] \in UNION {[D -> Sizes] : D \in SUBSET Indexes}
    BY <1>1 DEF EntriesOK
<1>3. DOMAIN entries[req.owner] \subseteq Indexes
    BY <1>2
<1>4. Matching(req) \subseteq Indexes
    BY <1>3 DEF Matching, Stored
<1>5. req.prefix.first \in Int /\ req.prefix.last \in Int
    <2>1. req \in Request
        BY ListAssumption
    <2>2. req.prefix \in Prefixes
        BY <2>1 DEF Request
    <2>3. req.prefix \in Prefix
        BY <2>2, ListAssumption
    <2>4. req.prefix.first \in Indexes /\ req.prefix.last \in Indexes
        BY <2>3 DEF Prefix
    <2> QED
        BY <2>4, IndexesAreIntegers
<1>6. ASSUME NEW i \in Matching(req) PROVE i \in req.prefix.first..req.prefix.last
    <2>1. i \in Int
        BY <1>4, IndexesAreIntegers
    <2>2. req.prefix.first <= i /\ i <= req.prefix.last
        BY DEF Matching
    <2> QED
        BY <1>5, <2>1, <2>2
<1> QED
    BY <1>4, <1>6

(* A front is a part of the set, and comes before the rest of it. *)
LEMMA FrontIsFirst ==
    ASSUME NEW req \in Requests, NEW S \in SUBSET Indexes, NEW n \in Nat,
           NEW i \in Front(req, S, n), NEW j \in S \ Front(req, S, n)
    PROVE  Before(req, i, j)
<1> DEFINE Ahead(x) == {y \in S : Before(req, y, x)}
<1>1. i \in S /\ Cardinality(Ahead(i)) < n /\ ~(Cardinality(Ahead(j)) < n)
    BY DEF Front
<1>2. SUFFICES ASSUME ~Before(req, i, j) PROVE FALSE
    OBVIOUS
<1>3. Before(req, j, i)
    BY <1>1, <1>2, Ordered
<1>4. Ahead(j) \subseteq Ahead(i)
    BY <1>1, <1>3, Ordered
<1>5. IsFiniteSet(Ahead(i)) /\ IsFiniteSet(Ahead(j))
    <2>1. IsFiniteSet(Indexes) /\ Ahead(i) \subseteq Indexes /\ Ahead(j) \subseteq Indexes
        BY StorageAssumption
    <2> QED
        BY <2>1, FS_Subset
<1>6. Cardinality(Ahead(j)) <= Cardinality(Ahead(i))
    BY <1>4, <1>5, FS_Subset
<1>7. Cardinality(Ahead(i)) \in Nat /\ Cardinality(Ahead(j)) \in Nat
    BY <1>5, FS_CardinalityType
<1> HIDE DEF Ahead
<1> QED
    BY <1>1, <1>6, <1>7

(* The key of the next page is the first index that did not fit.  There is none *)
(* when all fitted, or when what is left is the prefix itself, read backwards.  *)
LEMMA NextKeyIsFirst ==
    ASSUME NEW req \in Requests, NEW S \in SUBSET Indexes,
           S \subseteq req.prefix.first..req.prefix.last,
           NEW key, IsNextKey(req, S \ Front(req, S, req.limit), key)
    PROVE  /\ key # NoKey =>
                 /\ key \in S \ Front(req, S, req.limit)
                 /\ \A j \in S \ Front(req, S, req.limit) : ~Before(req, j, key)
           /\ key = NoKey => \A j \in S \ Front(req, S, req.limit) : Exempt(req, j)
<1> DEFINE page == Front(req, S, req.limit)
           rest == S \ page
<1>1. req.limit \in Nat \ {0} /\ req.prefix \in Prefix /\ req.reverse \in BOOLEAN
    BY ListAssumption DEF Request
<1>2. CASE rest = {}
    BY <1>2 DEF IsNextKey
<1>3. ASSUME NEW i \in rest, \A j \in rest : ~Before(req, j, i), key = KeyOf(req, i)
      PROVE  /\ key # NoKey => key \in rest /\ \A j \in rest : ~Before(req, j, key)
             /\ key = NoKey => \A j \in rest : Exempt(req, j)
    <2>1. CASE key # NoKey
        BY <1>3, <2>1 DEF KeyOf
    <2>2. CASE key = NoKey
        <3>1. i \in Nat \ {0}
            BY StorageAssumption
        <3>2. req.prefix.exact /\ i = req.prefix.first
            BY <1>3, <2>2, <3>1 DEF KeyOf, NoKey
        <3>3. i \in Int /\ (\A j \in S : j \in Int /\ i <= j)
            BY <3>1, <3>2, StorageAssumption
        <3>4. req.reverse
            <4>1. SUFFICES ASSUME ~req.reverse PROVE FALSE
                OBVIOUS
            <4> DEFINE ahead == {j \in S : Before(req, j, i)}
            <4>2. \A j \in S : ~Before(req, j, i)
                BY <3>3, <4>1 DEF Before
            <4>3. ahead = {}
                BY <4>2
            <4>4. Cardinality(ahead) = 0
                BY <4>3, FS_EmptySet
            <4>5. Cardinality(ahead) < req.limit
                <5> HIDE DEF ahead
                <5> QED
                    BY <1>1, <4>4
            <4>6. i \in page
                BY <4>5 DEF Front
            <4> QED
                BY <4>6
        <3>5. \A j \in rest : j = i
            BY <1>3, <3>3, <3>4 DEF Before
        <3> QED
            BY <1>3, <2>2, <3>4, <3>5 DEF Exempt
    <2> QED
        BY <2>1, <2>2
<1> QED
    BY <1>2, <1>3 DEF IsNextKey
-----------------------------------------------------------------------------
(* One page                                                                *)

(* A page of S, taken when all that was given lies before S and S holds all that *)
(* is still due, leaves the listing split at its key.                            *)
LEMMA PageSplits ==
    ASSUME NEW req \in Requests, NEW S \in SUBSET Indexes,
           S \subseteq req.prefix.first..req.prefix.last,
           seen \in [Indexes -> {0, 1}], NEW owed \in SUBSET Indexes,
           \A i \in Indexes, j \in S : seen[i] = 1 => Before(req, i, j),
           \A i \in owed : seen[i] = 1 \/ i \in S,
           Page(req, S)
    PROVE  /\ listing' \in [req: {req}, key: Indexes \cup {NoKey}]
           /\ seen' \in [Indexes -> {0, 1}]
           /\ Split(req, listing'.key, seen', owed)
<1> DEFINE page == Front(req, S, req.limit)
           rest == S \ page
<1>1. PICK key \in Indexes \cup {NoKey} :
          IsNextKey(req, rest, key) /\ listing' = [req |-> req, key |-> key]
    BY DEF Page
<1>2. seen' = [i \in Indexes |-> seen[i] + (IF i \in page THEN 1 ELSE 0)]
    BY DEF Page
<1>3. page \subseteq S /\ req.limit \in Nat
    BY ListAssumption DEF Front, Request
<1>4. \A i \in page : seen[i] = 0
    <2> SUFFICES ASSUME NEW i \in page, seen[i] # 0 PROVE FALSE
        OBVIOUS
    <2>1. i \in Indexes /\ i \in S /\ seen[i] = 1
        BY <1>3
    <2> QED
        BY <2>1, Ordered
<1>5. \A i \in Indexes : seen'[i] = IF i \in page THEN 1 ELSE seen[i]
    BY <1>2, <1>4
<1>6. seen' \in [Indexes -> {0, 1}]
    BY <1>2, <1>4
<1>7. /\ key # NoKey => key \in rest /\ \A j \in rest : ~Before(req, j, key)
      /\ key = NoKey => \A j \in rest : Exempt(req, j)
    BY <1>1, NextKeyIsFirst
<1>8. \A i \in owed : seen'[i] = 1 \/ i \in rest
    BY <1>5
<1>9. ASSUME key # NoKey, NEW i \in Indexes, seen'[i] = 1 PROVE Before(req, i, key)
    <2>1. key \in rest
        BY <1>7, <1>9
    <2>2. CASE i \in page
        BY <1>3, <2>1, <2>2, FrontIsFirst
    <2>3. CASE i \notin page
        BY <1>5, <1>9, <2>1, <2>3
    <2> QED
        BY <2>2, <2>3
<1>10. Split(req, key, seen', owed)
    BY <1>7, <1>8, <1>9 DEF Split
<1> QED
    BY <1>1, <1>6, <1>10

-----------------------------------------------------------------------------
(* The invariant                                                           *)

(* It holds of a client that has asked for nothing. *)
LEMMA ListInvHolds == ListInit => ListInv
<1> SUFFICES ASSUME ListInit PROVE ListInv
    OBVIOUS
<1>1. EntriesOK
    <2>1. [i \in {} |-> 0] \in [{} -> Sizes]
        OBVIOUS
    <2>2. [i \in {} |-> 0] \in UNION {[D -> Sizes] : D \in SUBSET Indexes}
        BY <2>1
    <2> QED
        BY <2>2 DEF ListInit, StorageInit, EntriesOK
<1>2. (CHOOSE req \in Requests : TRUE) \in Requests
    BY ListAssumption
<1> QED
    BY <1>1, <1>2 DEF ListInit, ListInv, ListTypeOK, Split

(* Messages keep the entries' type. *)
LEMMA MessagesKeepEntries == EntriesOK /\ Messages => EntriesOK'
<1> SUFFICES ASSUME EntriesOK, Messages PROVE EntriesOK'
    OBVIOUS
<1> DEFINE Maps == UNION {[D -> Sizes] : D \in SUBSET Indexes}
<1>1. ASSUME NEW o \in Owners, NEW f \in Maps, entries' = [entries EXCEPT ![o] = f]
      PROVE EntriesOK'
    BY <1>1 DEF EntriesOK
<1>2. ASSUME NEW o \in Owners, NEW i \in Indexes, NEW size \in Sizes, StorageSet(o, i, size)
      PROVE EntriesOK'
    <2> DEFINE f == [x \in Stored(o) \cup {i} |-> IF x = i THEN size ELSE entries[o][x]]
    <2>1. entries[o] \in Maps
        BY DEF EntriesOK
    <2>2. f \in [Stored(o) \cup {i} -> Sizes] /\ Stored(o) \cup {i} \in SUBSET Indexes
        BY <2>1 DEF Stored
    <2>3. f \in Maps
        BY <2>2
    <2>4. entries' = [entries EXCEPT ![o] = f]
        BY <1>2 DEF StorageSet, EntriesOK
    <2> QED
        BY <1>1, <2>3, <2>4
<1>3. ASSUME NEW o \in Owners, NEW named \in SUBSET Indexes, StorageDelete(o, named)
      PROVE EntriesOK'
    <2> DEFINE f == [x \in Stored(o) \ named |-> entries[o][x]]
    <2>1. entries[o] \in Maps
        BY DEF EntriesOK
    <2>2. f \in [Stored(o) \ named -> Sizes] /\ Stored(o) \ named \in SUBSET Indexes
        BY <2>1 DEF Stored
    <2>3. f \in Maps
        BY <2>2
    <2>4. entries' = [entries EXCEPT ![o] = f]
        BY <1>3 DEF StorageDelete, EntriesOK
    <2> QED
        BY <1>1, <2>3, <2>4
<1>4. CASE UNCHANGED entries
    BY <1>4 DEF EntriesOK
<1> QED
    BY <1>2, <1>3, <1>4 DEF Messages, Restake, UpdateParams, Restart

(* Every step keeps it. *)
THEOREM ListInvInductive == ListInv /\ [ListNext]_listVars => ListInv'
<1> SUFFICES ASSUME ListInv, [ListNext]_listVars PROVE ListInv'
    OBVIOUS
<1> USE DEF ListInv, ListTypeOK
<1>1. CASE Write
    <2>1. EntriesOK'
        BY <1>1, MessagesKeepEntries DEF Write
    <2>2. due' \subseteq due /\ due' \subseteq Matching(listing.req)'
        BY <1>1 DEF Write
    <2>3. listing' = listing /\ seen' = seen
        BY <1>1 DEF Write
    <2>4. Split(listing.req, listing.key, seen, due')
        BY <2>2 DEF Split
    <2> QED
        BY <2>1, <2>2, <2>3, <2>4
<1>2. ASSUME NEW req \in Requests, FirstPage(req) PROVE ListInv'
    <2> DEFINE S == Matching(req) \ Front(req, Matching(req), req.offset)
    <2>1. EntriesOK' /\ Page(req, S) /\ due' = S /\ entries' = entries
        BY <1>2 DEF FirstPage, storageVars, EntriesOK
    <2>2. S \in SUBSET Indexes /\ S \subseteq req.prefix.first..req.prefix.last
        BY MatchesAreIndexes
    <2>3. \A i \in Indexes : seen[i] = 0
        BY <1>2 DEF FirstPage
    <2>4. /\ listing' \in [req: {req}, key: Indexes \cup {NoKey}]
          /\ seen' \in [Indexes -> {0, 1}]
          /\ Split(req, listing'.key, seen', S)
        BY <2>1, <2>2, <2>3, PageSplits
    <2>5. listing'.req = req /\ Matching(req)' = Matching(req)
        BY <2>1, <2>4 DEF Matching, Stored
    <2> QED
        BY <2>1, <2>4, <2>5
<1>3. CASE NextPage
    <2> DEFINE req == listing.req
               S == From(req, listing.key)
    <2>1. req \in Requests /\ listing.key \in Indexes
        BY <1>3 DEF NextPage
    <2>2. EntriesOK' /\ Page(req, S) /\ due' = due /\ entries' = entries
        BY <1>3 DEF NextPage, storageVars, EntriesOK
    <2>3. due \in SUBSET Indexes /\ S \in SUBSET Indexes
          /\ S \subseteq req.prefix.first..req.prefix.last
        BY <2>1, MatchesAreIndexes DEF From
    <2>4. ASSUME NEW i \in Indexes, NEW j \in S, seen[i] = 1 PROVE Before(req, i, j)
        <3>1. Before(req, i, listing.key)
            BY <1>3, <2>4 DEF Split, NextPage
        <3>2. ~Before(req, j, listing.key)
            BY DEF From
        <3> QED
            BY <2>1, <2>3, <3>1, <3>2, Ordered
    <2>5. \A i \in due : seen[i] = 1 \/ i \in S
        BY <1>3 DEF Split, NextPage, From
    <2>6. /\ listing' \in [req: {req}, key: Indexes \cup {NoKey}]
          /\ seen' \in [Indexes -> {0, 1}]
          /\ Split(req, listing'.key, seen', due)
        <3>1. seen \in [Indexes -> {0, 1}]
            BY DEF ListInv
        <3>2. \A i \in Indexes, j \in S : seen[i] = 1 => Before(req, i, j)
            BY <2>4
        <3> HIDE DEF req, S
        <3> QED
            BY <2>1, <2>2, <2>3, <2>5, <3>1, <3>2, PageSplits
    <2>7. listing'.req = req /\ Matching(req)' = Matching(req)
        BY <2>2, <2>6 DEF Matching, Stored
    <2> QED
        BY <2>1, <2>2, <2>6, <2>7
<1>4. CASE Forget
    BY <1>4 DEF Forget, storageVars, EntriesOK, Split
<1>5. CASE UNCHANGED listVars
    BY <1>5 DEF listVars, storageVars, EntriesOK, Matching, Stored, Split
<1> QED
    BY <1>1, <1>2, <1>3, <1>4, <1>5 DEF ListNext

(* Whatever is written between the pages of a listing, no index is given twice, *)
(* and none that matched all the time is left out, but for the prefix itself.   *)
THEOREM ListingIsExact == ListSpec => []PagesAreExact
<1>1. ListInv => PagesAreExact
    BY DEF ListInv, ListTypeOK, Split, Exempt, PagesAreExact
<1> QED
    BY <1>1, ListInvHolds, ListInvInductive, PTL DEF ListSpec

-----------------------------------------------------------------------------
(* The bytes of an owner                                                   *)

MetricsInv == EntriesOK /\ MetricsExact

(* What is stored for an owner is a function on finitely many indexes. *)
LEMMA StoredIsFinite ==
    ASSUME EntriesOK, NEW o \in Owners
    PROVE  /\ Stored(o) \subseteq Indexes /\ IsFiniteSet(Stored(o))
           /\ entries[o] \in [Stored(o) -> Sizes]
           /\ \A i \in Stored(o) : entries[o][i] \in Nat
<1>1. PICK D \in SUBSET Indexes : entries[o] \in [D -> Sizes]
    BY DEF EntriesOK
<1>2. Stored(o) = D /\ IsFiniteSet(D)
    BY <1>1, StorageAssumption, FS_Subset DEF Stored
<1>3. \A i \in Stored(o) : entries[o][i] \in Sizes
    BY <1>1, <1>2
<1> QED
    BY <1>1, <1>2, <1>3, StorageAssumption

(* The bytes are a natural number, before a step and after it. *)
LEMMA BytesAreNat ==
    ASSUME NEW o \in Owners
    PROVE  /\ EntriesOK => /\ BytesOf(o) \in Nat
                           /\ BytesOf(o) = SumFunctionOnSet(entries[o], Stored(o))
           /\ EntriesOK' => BytesOf(o)' \in Nat
<1>1. ASSUME NEW f \in UNION {[D -> Sizes] : D \in SUBSET Indexes}
      PROVE  SumFunction(f) \in Nat
    <2>1. PICK D \in SUBSET Indexes : f \in [D -> Sizes]
        OBVIOUS
    <2>2. IsFiniteSet(DOMAIN f) /\ \A x \in DOMAIN f : f[x] \in Nat
        BY <2>1, StorageAssumption, FS_Subset
    <2> QED
        BY <2>2, SumIsNat DEF SumFunction
<1>2. EntriesOK => entries[o] \in UNION {[D -> Sizes] : D \in SUBSET Indexes}
    BY DEF EntriesOK
<1>3. EntriesOK' => entries'[o] \in UNION {[D -> Sizes] : D \in SUBSET Indexes}
    BY DEF EntriesOK
<1> QED
    BY <1>1, <1>2, <1>3 DEF BytesOf, SumFunction, Stored

(* An entry set adds what Grown says. *)
LEMMA SetAddsGrown ==
    ASSUME EntriesOK, NEW o \in Owners, NEW i \in Indexes, NEW size \in Sizes,
           StorageSet(o, i, size)
    PROVE  BytesOf(o)' = BytesOf(o) + Grown(o, i, size)
<1> DEFINE S == Stored(o)
           f == entries[o]
           g == [x \in S \cup {i} |-> IF x = i THEN size ELSE f[x]]
           Rest == S \ {i}
<1>1. entries'[o] = g
    BY DEF StorageSet, EntriesOK
<1>2. IsFiniteSet(S) /\ IsFiniteSet(Rest) /\ size \in Nat
    <2>1. IsFiniteSet(S)
        BY StoredIsFinite
    <2> QED BY <2>1, FS_Subset, Rest \in SUBSET S, StorageAssumption
<1>3. \A x \in S : f[x] \in Nat
    BY StoredIsFinite
<1>4. BytesOf(o) = SumFunctionOnSet(f, S)
    BY BytesAreNat
<1>5. BytesOf(o)' = SumFunctionOnSet(g, S \cup {i})
    BY <1>1 DEF BytesOf, SumFunction
<1>6. SumFunctionOnSet(g, S \cup {i}) = size + SumFunctionOnSet(f, Rest)
    <2>1. S \cup {i} = Rest \cup {i} /\ i \notin Rest /\ g[i] = size
        OBVIOUS
    <2>2. \A x \in Rest \cup {i} : g[x] \in Int
        BY <1>2, <1>3
    <2>3. \A x \in Rest : g[x] = f[x]
        OBVIOUS
    <2>4. SumFunctionOnSet(g, Rest) = SumFunctionOnSet(f, Rest)
        <3> HIDE DEF g, f, Rest
        <3> QED BY <1>2, <2>3, SameValuesSameSum
    <2>5. SumFunctionOnSet(g, Rest \cup {i}) = g[i] + SumFunctionOnSet(g, Rest)
        <3> HIDE DEF g, Rest
        <3> QED BY <1>2, <2>1, <2>2, SumOfOneMore
    <2> QED BY <2>1, <2>4, <2>5
<1>7. SumFunctionOnSet(f, S) = OldSize(o, i) + SumFunctionOnSet(f, Rest)
    <2>1. CASE i \in S
        BY <1>2, <1>3, <2>1, SumOfRest DEF OldSize
    <2>2. CASE i \notin S
        <3>1. Rest = S
            BY <2>2
        <3>2. SumFunctionOnSet(f, S) \in Int
            BY <1>2, <1>3, SumIsInt
        <3>3. OldSize(o, i) = 0 /\ SumFunctionOnSet(f, Rest) = SumFunctionOnSet(f, S)
            BY <2>2, <3>1 DEF OldSize
        <3> HIDE DEF Rest, S, f
        <3> QED BY <3>2, <3>3
    <2> QED
        BY <2>1, <2>2
<1>8. SumFunctionOnSet(f, Rest) \in Int /\ OldSize(o, i) \in Int
    BY <1>2, <1>3, SumIsInt DEF OldSize
<1> HIDE DEF S, f, g, Rest
<1> QED
    BY <1>2, <1>4, <1>5, <1>6, <1>7, <1>8 DEF Grown

(* A deletion frees what Freed says. *)
LEMMA DeleteFrees ==
    ASSUME EntriesOK, NEW o \in Owners, NEW named \in SUBSET Indexes, StorageDelete(o, named)
    PROVE  BytesOf(o)' = BytesOf(o) - Freed(o, named) /\ Freed(o, named) \in Nat
<1> DEFINE S == Stored(o)
           f == entries[o]
           Gone == named \cap S
           Rest == S \ named
           g == [x \in Rest |-> f[x]]
<1>1. entries'[o] = g
    BY DEF StorageDelete, EntriesOK
<1>2. IsFiniteSet(S) /\ IsFiniteSet(Rest) /\ IsFiniteSet(Gone)
    <2>1. IsFiniteSet(S) /\ Rest \in SUBSET S /\ Gone \in SUBSET S
        BY StoredIsFinite
    <2> QED BY <2>1, FS_Subset
<1>3. \A x \in S : f[x] \in Nat
    BY StoredIsFinite
<1>4. BytesOf(o) = SumFunctionOnSet(f, S)
    BY BytesAreNat
<1>5. BytesOf(o)' = SumFunctionOnSet(g, Rest)
    BY <1>1 DEF BytesOf, SumFunction
<1>6. SumFunctionOnSet(g, Rest) = SumFunctionOnSet(f, Rest)
    <2>1. \A x \in Rest : g[x] = f[x]
        OBVIOUS
    <2> HIDE DEF g, f, Rest
    <2> QED BY <1>2, <2>1, SameValuesSameSum
<1>7. SumFunctionOnSet(f, S) = SumFunctionOnSet(f, Gone) + SumFunctionOnSet(f, Rest)
    <2>1. Gone \in SUBSET S /\ S \ Gone = Rest
        OBVIOUS
    <2> HIDE DEF f, S, Rest, Gone
    <2> QED BY <1>2, <1>3, <2>1, SumOfTwoParts
<1>8. SumFunctionOnSet(f, Gone) \in Nat /\ SumFunctionOnSet(f, Rest) \in Nat
    BY <1>2, <1>3, SumIsNat
<1>9. Freed(o, named) = SumFunctionOnSet(f, Gone)
    BY DEF Freed
<1> HIDE DEF S, f, g, Gone, Rest
<1> QED
    BY <1>4, <1>5, <1>6, <1>7, <1>8, <1>9

(* A measurement moves the count of one owner, by the difference given. *)
LEMMA UpdateMoves ==
    ASSUME NEW o \in Owners, NEW delta \in Int, UpdateStorageMetrics(o, delta),
           GetStorageMetrics(o).total \in Int, GetStorageMetrics(o).total + delta >= 0
    PROVE  /\ GetStorageMetrics(o)'.total = GetStorageMetrics(o).total + delta
           /\ \A x \in Owners : x # o => GetStorageMetrics(x)'.total = GetStorageMetrics(x).total
<1>1. DOMAIN metrics' = DOMAIN metrics \cup {o}
    BY DEF UpdateStorageMetrics
<1>2. metrics'[o].total = GetStorageMetrics(o).total + delta
    BY DEF UpdateStorageMetrics, Measured
<1>3. \A x \in DOMAIN metrics : x # o => metrics'[x] = metrics[x]
    BY DEF UpdateStorageMetrics
<1> QED
    BY <1>1, <1>2, <1>3 DEF GetStorageMetrics, Measured

(* Before the first message nothing is stored and nothing counted. *)
LEMMA MetricsInvHolds == ListInit => MetricsInv
<1> SUFFICES ASSUME ListInit PROVE MetricsInv
    OBVIOUS
<1>1. EntriesOK
    BY ListInvHolds DEF ListInv, ListTypeOK
<1>2. ASSUME NEW o \in Owners PROVE GetStorageMetrics(o).total = BytesOf(o)
    <2>1. GetStorageMetrics(o).total = 0
        BY DEF ListInit, StorageInit, GetStorageMetrics, Measured
    <2>2. Stored(o) = {}
        BY DEF ListInit, StorageInit, Stored
    <2> QED
        BY <1>1, <2>1, <2>2, BytesAreNat, SumOfNone
<1> QED
    BY <1>1, <1>2 DEF MetricsInv, MetricsExact

(* Every message keeps the count exact. *)
LEMMA MessagesKeepMetrics == MetricsInv /\ Messages => MetricsInv'
<1> SUFFICES ASSUME MetricsInv, Messages PROVE MetricsInv'
    OBVIOUS
<1>1. EntriesOK /\ EntriesOK'
    BY MessagesKeepEntries DEF MetricsInv
<1>2. \A x \in Owners : GetStorageMetrics(x).total = BytesOf(x) /\ BytesOf(x) \in Nat
    BY <1>1, BytesAreNat DEF MetricsInv, MetricsExact
<1>3. \A x \in Owners : BytesOf(x)' \in Nat
    BY <1>1, BytesAreNat
<1>4. SUFFICES \A x \in Owners : GetStorageMetrics(x)'.total = BytesOf(x)'
    BY <1>1 DEF MetricsInv, MetricsExact
<1>5. ASSUME NEW o \in Owners, NEW f, entries' = [entries EXCEPT ![o] = f]
      PROVE  \A x \in Owners : x # o => BytesOf(x)' = BytesOf(x)
    <2>1. \A x \in Owners : x # o => entries'[x] = entries[x]
        BY <1>1, <1>5 DEF EntriesOK
    <2> QED BY <2>1 DEF BytesOf
<1>6. ASSUME NEW o \in Owners, NEW i \in Indexes, NEW size \in Sizes, StorageSet(o, i, size)
      PROVE  \A x \in Owners : GetStorageMetrics(x)'.total = BytesOf(x)'
    <2>1. BytesOf(o)' = BytesOf(o) + Grown(o, i, size)
        BY <1>1, <1>6, SetAddsGrown
    <2>2. Grown(o, i, size) \in Int
        BY <1>1, StoredIsFinite, StorageAssumption DEF Grown, OldSize
    <2>3. GetStorageMetrics(o).total \in Int /\ GetStorageMetrics(o).total + Grown(o, i, size) >= 0
        BY <1>2, <1>3, <2>1
    <2>4. /\ GetStorageMetrics(o)'.total = GetStorageMetrics(o).total + Grown(o, i, size)
          /\ \A x \in Owners : x # o => GetStorageMetrics(x)'.total = GetStorageMetrics(x).total
        BY <1>6, <2>2, <2>3, UpdateMoves DEF StorageSet
    <2>5. \A x \in Owners : x # o => BytesOf(x)' = BytesOf(x)
        BY <1>5, <1>6 DEF StorageSet
    <2> QED
        BY <1>2, <2>1, <2>4, <2>5
<1>7. ASSUME NEW o \in Owners, NEW named \in SUBSET Indexes, StorageDelete(o, named)
      PROVE  \A x \in Owners : GetStorageMetrics(x)'.total = BytesOf(x)'
    <2>1. BytesOf(o)' = BytesOf(o) - Freed(o, named) /\ Freed(o, named) \in Nat
        BY <1>1, <1>7, DeleteFrees
    <2>2. \A x \in Owners : x # o => BytesOf(x)' = BytesOf(x)
        BY <1>5, <1>7 DEF StorageDelete
    <2>3. CASE Freed(o, named) > 0
        <3>1. UpdateStorageMetrics(o, -Freed(o, named))
            BY <1>7, <2>3 DEF StorageDelete
        <3>2. GetStorageMetrics(o).total \in Int
              /\ GetStorageMetrics(o).total + (-Freed(o, named)) >= 0
            BY <1>2, <1>3, <2>1
        <3>3. /\ GetStorageMetrics(o)'.total = GetStorageMetrics(o).total + (-Freed(o, named))
              /\ \A x \in Owners : x # o =>
                    GetStorageMetrics(x)'.total = GetStorageMetrics(x).total
            BY <2>1, <3>1, <3>2, UpdateMoves, -Freed(o, named) \in Int
        <3> QED
            BY <1>2, <2>1, <2>2, <3>3
    <2>4. CASE ~(Freed(o, named) > 0)
        <3>1. Freed(o, named) = 0 /\ metrics' = metrics /\ params' = params
            BY <1>7, <2>1, <2>4 DEF StorageDelete
        <3> QED
            BY <1>2, <2>1, <2>2, <3>1 DEF GetStorageMetrics, Measured
    <2> QED
        BY <2>3, <2>4
<1>8. CASE UNCHANGED <<entries, metrics>>
    BY <1>2, <1>8 DEF GetStorageMetrics, Measured, BytesOf
<1>9. CASE Restart
    <2> DEFINE Holders == {x \in Owners : Stored(x) # {}}
    <2>1. metrics' = [o \in Holders |-> Measured(BytesOf(o))] /\ entries' = entries
        BY <1>9 DEF Restart
    <2>2. \A x \in Owners : BytesOf(x)' = BytesOf(x)
        BY <2>1 DEF BytesOf
    <2>3. \A x \in Owners : x \notin Holders => BytesOf(x) = 0
        BY <1>1, BytesAreNat, SumOfNone
    <2> QED
        BY <2>1, <2>2, <2>3 DEF GetStorageMetrics, Measured
<1> QED
    BY <1>6, <1>7, <1>8, <1>9 DEF Messages, Restake, UpdateParams

(* So does every step of a listing. *)
LEMMA StepsKeepMetrics == MetricsInv /\ [ListNext]_listVars => MetricsInv'
<1> SUFFICES ASSUME MetricsInv, [ListNext]_listVars PROVE MetricsInv'
    OBVIOUS
<1>1. CASE Messages
    BY <1>1, MessagesKeepMetrics
<1>2. CASE UNCHANGED storageVars
    BY <1>2 DEF storageVars, MetricsInv, EntriesOK, MetricsExact, GetStorageMetrics,
                Measured, BytesOf
<1> QED
    BY <1>1, <1>2 DEF ListNext, Write, FirstPage, NextPage, Forget, listVars

(* Through any chain of sets, deletions, changes of the parameters and restarts, the *)
(* bytes counted for an owner are the bytes it has stored: the differences the       *)
(* keeper adds up never drift.                                                       *)
THEOREM BytesAreCounted == ListSpec => []MetricsExact
<1>1. MetricsInv => MetricsExact
    BY DEF MetricsInv
<1> QED
    BY <1>1, MetricsInvHolds, StepsKeepMetrics, PTL DEF ListSpec

(* The rounding of the stake a number of bytes asks for, undone. *)
LEMMA StakeCovers ==
    ASSUME NEW have \in Nat, NEW bytes \in Nat, NEW multiple \in Nat,
           have >= (bytes * multiple) \div DecOne
    PROVE  DecOne * (have + 1) > bytes * multiple
<1> DEFINE a == bytes * multiple
           q == a \div DecOne
<1>1. DecOne \in Nat \ {0} /\ a \in Nat
    BY StorageAssumption
<1> HIDE DEF a
<1>2. q \in Nat /\ DecOne * q + DecOne > a
    BY <1>1
<1> HIDE DEF q
<1>3. PICK d \in Nat : have = q + d
    <2>1. have >= q
        BY DEF a, q
    <2> QED BY <1>2, <2>1, have - q \in Nat, have = q + (have - q)
<1>4. DecOne * (have + 1) = DecOne * q + DecOne * d + DecOne
    BY <1>1, <1>2, <1>3
<1>5. DecOne * d \in Nat /\ DecOne * q \in Nat
    BY <1>1, <1>2
<1>6. DecOne * (have + 1) > a
    BY <1>1, <1>2, <1>4, <1>5
<1> QED
    BY <1>6 DEF a

(* Whoever gains an entry, or gets one of another size, has at that moment the stake *)
(* that everything it has stored asks for.                                           *)
THEOREM WritersHaveTheStake == ListSpec => WritesAreStaked
<1> DEFINE TypesOK == params \in ParamSet /\ stake \in [Owners -> StakeLevels]
<1>1. ListInit => TypesOK
    BY DEF ListInit, StorageInit
<1>2. TypesOK /\ [ListNext]_listVars => TypesOK'
    <2> SUFFICES ASSUME TypesOK, [ListNext]_listVars PROVE TypesOK'
        OBVIOUS
    <2>1. CASE Messages
        BY <2>1 DEF Messages, StorageSet, StorageDelete, Restake, UpdateParams, Restart
    <2>2. CASE UNCHANGED storageVars
        BY <2>2 DEF storageVars
    <2> QED
        BY <2>1, <2>2 DEF ListNext, Write, FirstPage, NextPage, Forget, listVars
<1>3. MetricsInv /\ TypesOK /\ [ListNext]_listVars => [WritesStep]_storageVars
    <2> SUFFICES ASSUME MetricsInv, TypesOK, Messages PROVE WritesStep
        BY DEF ListNext, Write, FirstPage, NextPage, Forget, listVars
    <2>1. EntriesOK /\ EntriesOK'
        BY MessagesKeepEntries DEF MetricsInv
    <2>2. SUFFICES ASSUME NEW x \in Owners, NEW j \in DOMAIN entries'[x],
                          j \in Stored(x) => entries'[x][j] # entries[x][j],
                          params.multiple # 0
                   PROVE  DecOne * (stake[x] + 1) > SumFunction(entries'[x]) * params.multiple
        BY DEF WritesStep
    <2>3. entries'[x] # entries[x]
        BY <2>2 DEF Stored
    <2>4. ASSUME NEW o \in Owners, NEW named \in SUBSET Indexes, StorageDelete(o, named)
          PROVE  FALSE
        <3>1. o = x
            BY <2>1, <2>3, <2>4 DEF StorageDelete, EntriesOK
        <3>2. entries'[x] = [y \in Stored(x) \ named |-> entries[x][y]]
            BY <2>1, <2>4, <3>1 DEF StorageDelete, EntriesOK
        <3> QED
            BY <2>2, <3>2
    <2>5. ASSUME NEW o \in Owners, NEW i \in Indexes, NEW size \in Sizes, StorageSet(o, i, size)
          PROVE  DecOne * (stake[x] + 1) > SumFunction(entries'[x]) * params.multiple
        <3>1. o = x
            BY <2>1, <2>3, <2>5 DEF StorageSet, EntriesOK
        <3>2. BytesOf(x)' = BytesOf(x) + Grown(x, i, size)
            BY <2>1, <2>5, <3>1, SetAddsGrown
        <3>3. GetStorageMetrics(x).total = BytesOf(x)
            BY DEF MetricsInv, MetricsExact
        <3>4. stake[x] >= (BytesOf(x)' * params.multiple) \div DecOne
            BY <2>2, <2>5, <3>1, <3>2, <3>3
               DEF StorageSet, Staked, CalculateMinStakeAmount
        <3>5. BytesOf(x)' \in Nat /\ stake[x] \in Nat /\ params.multiple \in Nat
            BY <2>1, BytesAreNat, StorageAssumption
        <3>6. DecOne * (stake[x] + 1) > BytesOf(x)' * params.multiple
            BY <3>4, <3>5, StakeCovers
        <3> QED
            BY <3>6 DEF BytesOf
    <2>6. CASE UNCHANGED entries
        BY <2>3, <2>6
    <2> QED
        BY <2>4, <2>5, <2>6 DEF Messages, Restake, UpdateParams, Restart
<1> QED
    BY <1>1, <1>2, <1>3, MetricsInvHolds, StepsKeepMetrics, PTL DEF ListSpec, WritesAreStaked
=============================================================================
