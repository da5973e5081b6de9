------------------------- MODULE NameRegistryProofs -------------------------
(***************************************************************************)
(* Proofs about NameRegistry for any accounts, names, lifetimes and limits *)
(* on the length of a chain.                                               *)
(***************************************************************************)
EXTENDS NameRegistry, TLAPS

(* The fee of a reveal is a natural number. *)
LEMMA FeeIsNat == ASSUME NEW v \in Valuations PROVE RevealFee(v) \in Nat
<1>1. v \in Nat /\ FeePct \in Nat /\ DecOne \in Nat /\ DecOne > 0
    BY RegistryAssumption
<1>2. v * FeePct \in Nat
    BY <1>1
<1> DEFINE q == (v * FeePct) \div DecOne
<1>3. \A x \in Nat : \A d \in Nat \ {0} : x \div d \in Nat
    OBVIOUS
<1>4. q \in Nat
    BY <1>1, <1>2, <1>3
<1> QED
    BY <1>4 DEF RevealFee

(* Every kind of step keeps the types. *)
THEOREM TypesInductive == TypeOK /\ [Next]_vars => TypeOK'
<1> SUFFICES ASSUME TypeOK, [Next]_vars PROVE TypeOK'
    OBVIOUS
<1> USE RegistryAssumption
<1>1. ASSUME NEW a \in Accounts, NEW h \in Hashes, NEW v \in Valuations, Commit(a, h, v)
      PROVE TypeOK'
    <2>1. [owner |-> a, time |-> now, valuation |-> v] \in Commitment
        BY DEF TypeOK, Commitment
    <2>2. commitments' \in [Hashes -> Commitment \cup {Nobody}]
        BY <1>1, <2>1 DEF TypeOK, Commit
    <2> QED
        BY <1>1, <2>2 DEF TypeOK, Commit, EnsureNamesClassExists, Dests, Accounts
<1>2. ASSUME NEW a \in Accounts, NEW n \in Names, NEW s \in Salts, Reveal(a, n, s)
      PROVE TypeOK'
    <2> DEFINE h == <<n, a, s>>
               c == commitments[h]
    <2>1. h \in Hashes
        BY DEF Hashes
    <2>2. c \in Commitment
        BY <1>2, <2>1 DEF TypeOK, Reveal
    <2>3. RevealFee(c.valuation) \in Nat
        BY <2>2, FeeIsNat DEF Commitment
    <2>4. bank' \in [Accounts \cup {Pool} -> Nat]
        <3> DEFINE fee == RevealFee(c.valuation)
        <3>1. /\ bank[a] >= fee
              /\ bank' = [bank EXCEPT ![a] = @ - fee, ![Pool] = @ + fee]
            BY <1>2 DEF Reveal
        <3>2. fee \in Nat /\ bank \in [Accounts \cup {Pool} -> Nat] /\ a # Pool
            BY <2>3 DEF TypeOK
        <3> HIDE DEF fee
        <3>3. bank[a] - fee \in Nat
            BY <3>1, <3>2
        <3> QED
            BY <3>1, <3>2, <3>3
    <2>5. owner' \in [Names -> Accounts \cup {Nobody}] /\ uri' \in [Names -> Dests]
        BY <1>2 DEF TypeOK, Reveal, Minted, Dests, Accounts
    <2>6. names' \subseteq (Dests \ {Nobody}) \X Names
        BY <1>2 DEF TypeOK, Reveal, Indexed, Dests, Accounts
    <2>7. commitments' \in [Hashes -> Commitment \cup {Nobody}] /\ now' \in Nat
        BY <1>2 DEF TypeOK, Reveal
    <2> QED
        BY <2>4, <2>5, <2>6, <2>7 DEF TypeOK
<1>3. ASSUME NEW a \in Accounts, NEW n \in Names, NEW d \in Dests, SetDestination(a, n, d)
      PROVE TypeOK'
    BY <1>3 DEF TypeOK, SetDestination, Indexed, Removed
<1>4. ASSUME NEW a \in Admins, NEW n \in Names, NEW d \in Dests, MintNFT(a, n, d)
      PROVE TypeOK'
    <2>1. a \in Accounts
        BY DEF Admins, Resolve, Ends
    <2> QED
        BY <1>4, <2>1 DEF TypeOK, MintNFT
<1>5. ASSUME NEW n \in Names, NEW d \in Dests, SetNFTMetadata(n, d)
      PROVE TypeOK'
    BY <1>5 DEF TypeOK, SetNFTMetadata, Indexed, Removed
<1>6. ASSUME NEW n \in Names, BurnNFT(n) PROVE TypeOK'
    BY <1>6 DEF TypeOK, BurnNFT, Dests
<1>7. ASSUME NEW n \in Names, CreateExternalName(n) PROVE TypeOK'
    BY <1>7 DEF TypeOK, CreateExternalName, Minted, Dests, Accounts
<1>8. ASSUME NEW n \in Names, NEW a \in Accounts, Transfer(n, a) PROVE TypeOK'
    BY <1>8 DEF TypeOK, Transfer
<1>9. CASE EndBlock
    <2>1. commitments' \in [Hashes -> Commitment \cup {Nobody}]
        BY <1>9 DEF TypeOK, EndBlock, PruneExpiredCommitments
    <2>2. now' \in Nat
        BY <1>9 DEF TypeOK, EndBlock
    <2> QED
        BY <1>9, <2>1, <2>2 DEF TypeOK, EndBlock, book
<1>10. CASE ExportImport
    BY <1>10 DEF TypeOK, ExportImport, EnsureNamesClassExists, Dests, Accounts
<1>11. CASE UNCHANGED vars
    BY <1>11 DEF TypeOK, vars
<1> QED
    BY <1>1, <1>2, <1>3, <1>4, <1>5, <1>6, <1>7, <1>8, <1>9, <1>10, <1>11
    DEF Next, OwnerMessage, AdminMessage, OtherMessage

(* The types hold in every reachable state: whatever is committed, revealed, pruned, burnt or    *)
(* imported, destinations stay destinations and the fee of a reveal is never more than its payer *)
(* has.                                                                                          *)
THEOREM RegistryTypes == Spec => []TypeOK
<1>1. Init => TypeOK
    BY RegistryAssumption DEF Init, TypeOK, Dests, Accounts
<1> QED
    BY <1>1, TypesInductive, PTL DEF Spec

(* What the chain check of SetDestination found before the change is a path that the resolver    *)
(* follows after it: the hop of n comes in front, and no later hop was n's.                      *)
LEMMA ChainResolves ==
    ASSUME TypeOK, NEW a \in Accounts, NEW n \in Names, NEW d \in Dests \ {Nobody},
           SetDestination(a, n, d)
    PROVE Resolve(n)' # {}
<1>0. HopLimit \in Nat \ {0} /\ ResolveLimit = HopLimit + 1 /\ Accounts \cap Names = {}
    BY RegistryAssumption
<1>1. uri' = [uri EXCEPT ![n] = d] /\ n \notin Accounts /\ n \in DOMAIN uri
    BY <1>0 DEF SetDestination, TypeOK
<1>2. CASE d \in Accounts
    <2> DEFINE p == [i \in 1..1 |-> n]
    <2>1. p \in Paths(n, 1)'
        BY DEF Paths
    <2>2. uri'[p[1]] = d
        BY <1>1
    <2>3. 1 \in 1..(ResolveLimit - 1)
        BY <1>0
    <2> HIDE DEF p
    <2>4. d \in Ends(n, ResolveLimit - 1)'
        BY <1>2, <2>1, <2>2, <2>3 DEF Ends
    <2> QED
        BY <1>1, <2>4 DEF Resolve
<1>3. CASE d \in Names
    <2>1. PICK k \in 1..(HopLimit - 1) : \E p \in Paths(d, k) :
              uri[p[k]] \in Accounts /\ \A i \in 1..k : p[i] # n
        BY <1>3 DEF SetDestination, ChainEnds
    <2>2. PICK p \in Paths(d, k) : uri[p[k]] \in Accounts /\ \A i \in 1..k : p[i] # n
        BY <2>1
    <2>3. /\ p \in [1..k -> Names] /\ p[1] = d
          /\ \A i \in 1..(k-1) : p[i+1] = uri[p[i]]
        BY <2>2 DEF Paths
    <2>4. k \in Nat /\ k >= 1 /\ k + 1 \in 1..(ResolveLimit - 1)
        BY <1>0, <2>1
    <2> DEFINE q == [i \in 1..(k+1) |-> IF i = 1 THEN n ELSE p[i-1]]
    <2>5. ASSUME NEW i \in 2..(k+1)
          PROVE i - 1 \in 1..k /\ q[i] = p[i-1] /\ q[i] \in Names
        <3>1. i - 1 \in 1..k /\ i \in 1..(k+1) /\ i # 1
            BY <2>4
        <3>2. p[i-1] \in Names
            BY <2>3, <3>1
        <3> QED
            BY <3>1, <3>2
    <2>6. q[1] = n /\ q \in [1..(k+1) -> Names]
        BY <2>3, <2>4
    <2>7. ASSUME NEW i \in 1..((k+1)-1) PROVE q[i+1] = uri'[q[i]]
        <3>1. i \in 1..k /\ i + 1 \in 2..(k+1) /\ q[i+1] = p[i]
            BY <2>4, <2>5
        <3>2. CASE i = 1
            BY <1>1, <2>3, <2>6, <3>1, <3>2
        <3>3. CASE i # 1
            <4>0. i \in Int /\ k \in Int /\ 1 <= i /\ i <= k /\ i # 1
                BY <3>1, <3>3, <2>4
            <4>1. i \in 2..(k+1) /\ i - 1 \in 1..(k-1) /\ (i-1)+1 = i /\ i - 1 \in 1..k
                BY <4>0
            <4>2. q[i] = p[i-1] /\ p[i-1] # n /\ p[i-1] \in Names
                BY <4>1, <2>2, <2>3, <2>5
            <4>3. p[i] = uri[p[i-1]]
                BY <4>1, <2>3
            <4> QED
                BY <1>1, <3>1, <4>2, <4>3
        <3> QED
            BY <3>2, <3>3
    <2>8. q \in Paths(n, k+1)'
        BY <2>6, <2>7 DEF Paths
    <2>9. uri'[q[k+1]] = uri[p[k]]
        <3>1. k + 1 \in 2..(k+1) /\ (k+1)-1 = k /\ k \in 1..k
            BY <2>4
        <3>2. q[k+1] = p[k] /\ p[k] # n /\ p[k] \in Names
            BY <3>1, <2>2, <2>3, <2>5
        <3> QED
            BY <1>1, <3>2
    <2>10. uri[p[k]] \in Accounts
        BY <2>2
    <2> HIDE DEF q
    <2>11. uri[p[k]] \in Ends(n, ResolveLimit - 1)'
        BY <2>4, <2>8, <2>9, <2>10 DEF Ends
    <2> QED
        BY <1>1, <2>11 DEF Resolve
<1> QED
    BY <1>2, <1>3 DEF Dests

(* No owner can point a name at a chain that does not lead to an address, for any two limits of  *)
(* which the resolver's is one more: not at a cycle, and not at a chain one name too long.       *)
THEOREM DestinationsResolve == Spec => DestinationResolves
<1>1. TypeOK /\ [Next]_vars =>
        [\A n \in Names : /\ uri'[n] \notin {uri[n], Nobody}
                          /\ \E a \in Accounts : SetDestination(a, n, uri'[n])
                          => Resolve(n)' # {}]_vars
    <2> SUFFICES ASSUME TypeOK, [Next]_vars, NEW n \in Names, uri'[n] # Nobody,
                        NEW a \in Accounts, SetDestination(a, n, uri'[n])
                 PROVE Resolve(n)' # {}
        OBVIOUS
    <2>1. uri'[n] \in Dests \ {Nobody}
        BY TypesInductive DEF TypeOK
    <2> QED
        BY <2>1, ChainResolves
<1> QED
    BY <1>1, RegistryTypes, PTL DEF Spec, DestinationResolves

(* What StaysFound says of one name in one step. *)
Kept(n) == Exists(n) /\ Exists(n)' => (Found(n) => Found(n)') /\ Wrong(n)' \subseteq Wrong(n)

(* A step that changes neither the destination of a name nor its entries keeps it. *)
LEMMA SameEntries ==
    ASSUME NEW n \in Names, uri'[n] = uri[n],
           \A d \in Dests : <<d, n>> \in names' <=> <<d, n>> \in names, uri[n] \in Dests
    PROVE Kept(n)
BY DEF Kept, Found, Wrong

(* A change of destination that takes the old entry away and makes the new one keeps it. *)
LEMMA Redirected ==
    ASSUME NEW n \in Names, NEW m \in Names, NEW d \in Dests, TypeOK,
           uri' = [uri EXCEPT ![m] = d], names' = Indexed(Removed(names, uri[m], m), d, m)
    PROVE Kept(n)
<1>1. CASE n = m
    BY <1>1 DEF TypeOK, Kept, Found, Wrong, Indexed, Removed
<1>2. CASE n # m
    <2>1. uri'[n] = uri[n] /\ uri[n] \in Dests
        BY <1>2 DEF TypeOK
    <2>2. \A e \in Dests : <<e, n>> \in names' <=> <<e, n>> \in names
        BY <1>2 DEF Indexed, Removed
    <2> QED
        BY <2>1, <2>2, SameEntries
<1> QED
    BY <1>1, <1>2

(* A name that can be found by its destination stays so under every step, and no entry goes      *)
(* wrong.                                                                                        *)
LEMMA KeptByStep == ASSUME TypeOK, [Next]_vars, NEW n \in Names PROVE Kept(n)
<1>0. uri[n] \in Dests
    BY DEF TypeOK
<1>1. ASSUME names' = names, uri'[n] = uri[n] PROVE Kept(n)
    BY <1>0, <1>1, SameEntries
<1>2. ASSUME NEW a \in Accounts, NEW h \in Hashes, NEW v \in Valuations, Commit(a, h, v)
      PROVE Kept(n)
    <2>1. CASE Exists(n)
        BY <1>1, <1>2, <2>1 DEF Commit, EnsureNamesClassExists, TypeOK
    <2> QED
        BY <2>1 DEF Kept
<1>3. ASSUME NEW a \in Accounts, NEW m \in Names, NEW s \in Salts, Reveal(a, m, s)
      PROVE Kept(n)
    <2>1. CASE Exists(n)
        <3>1. n # m /\ uri'[n] = uri[n]
            BY <1>3, <2>1 DEF Reveal, NoName, Minted
        <3>2. \A e \in Dests : <<e, n>> \in names' <=> <<e, n>> \in names
            BY <1>3, <3>1 DEF Reveal, Indexed
        <3> QED
            BY <1>0, <3>1, <3>2, SameEntries
    <2> QED
        BY <2>1 DEF Kept
<1>4. ASSUME NEW a \in Accounts, NEW m \in Names, NEW d \in Dests, SetDestination(a, m, d)
      PROVE Kept(n)
    BY <1>4, Redirected DEF SetDestination
<1>5. ASSUME NEW m \in Names, NEW d \in Dests, SetNFTMetadata(m, d)
      PROVE Kept(n)
    BY <1>5, Redirected DEF SetNFTMetadata
<1>6. ASSUME NEW a \in Admins, NEW m \in Names, NEW d \in Dests, MintNFT(a, m, d)
      PROVE Kept(n)
    <2>1. CASE n = m
        BY <1>6, <2>1 DEF MintNFT, Kept
    <2> QED
        BY <1>1, <1>6, <2>1 DEF MintNFT, TypeOK
<1>7. ASSUME NEW m \in Names, BurnNFT(m) PROVE Kept(n)
    <2>1. CASE n = m
        BY <1>7, <2>1 DEF BurnNFT, Kept, Exists, TypeOK
    <2> QED
        BY <1>1, <1>7, <2>1 DEF BurnNFT, TypeOK
<1>8. ASSUME NEW m \in Names, CreateExternalName(m) PROVE Kept(n)
    <2>1. CASE Exists(n)
        BY <1>1, <1>8, <2>1 DEF CreateExternalName, NoName, Minted
    <2> QED
        BY <2>1 DEF Kept
<1>9. ASSUME NEW m \in Names, NEW a \in Accounts, Transfer(m, a) PROVE Kept(n)
    BY <1>1, <1>9 DEF Transfer
<1>10. CASE EndBlock
    BY <1>1, <1>10 DEF EndBlock, book
<1>11. CASE ExportImport
    <2>1. CASE Exists(n)
        <3>1. uri'[n] = uri[n]
            BY <1>11, <2>1 DEF ExportImport, EnsureNamesClassExists, TypeOK
        <3>2. names' = {p \in (Dests \ {Nobody}) \X Names : uri'[p[2]] = p[1]}
            BY <1>11 DEF ExportImport
        <3>3. Found(n)'
            BY <1>0, <3>1, <3>2 DEF Found
        <3>4. Wrong(n)' = {}
            BY <3>2 DEF Wrong
        <3> QED
            BY <3>3, <3>4 DEF Kept
    <2> QED
        BY <2>1 DEF Kept
<1>12. CASE UNCHANGED vars
    BY <1>1, <1>12 DEF vars
<1> QED
    BY <1>2, <1>3, <1>4, <1>5, <1>6, <1>7, <1>8, <1>9, <1>10, <1>11, <1>12
    DEF Next, OwnerMessage, AdminMessage, OtherMessage

(* While a name exists the index never loses it and never gets a wrong entry of it: the entries   *)
(* that do not lead to a name that points there are those of names burnt before.                 *)
THEOREM NamesStayFound == Spec => StaysFound
<1>1. TypeOK /\ [Next]_vars =>
        [\A n \in Names : Exists(n) /\ Exists(n)' =>
            (Found(n) => Found(n)') /\ Wrong(n)' \subseteq Wrong(n)]_vars
    BY KeptByStep DEF Kept
<1> QED
    BY <1>1, RegistryTypes, PTL DEF Spec, StaysFound

(* What PruneMeetsReveal says of one commitment in one step. *)
Due(h) == /\ commitments[h] # Nobody /\ commitments'[h] = Nobody =>
               \/ Expired(commitments[h])
               \/ owner[h[1]] = Nobody /\ owner'[h[1]] = h[2]
          /\ EndBlock /\ commitments'[h] # Nobody => ~Expired(commitments[h])

(* A commitment goes only once it is expired or its name is registered by who made it; the end   *)
(* of a block keeps none that is expired.                                                        *)
LEMMA DueByStep == ASSUME TypeOK, [Next]_vars, NEW h \in Hashes PROVE Due(h)
<1>0. /\ commitments \in [Hashes -> Commitment \cup {Nobody}]
      /\ now \in Int /\ TTL \in Int /\ Nobody \notin Commitment
    BY RegistryAssumption DEF TypeOK
<1>1. CASE EndBlock
    <2>1. ASSUME commitments[h] # Nobody
          PROVE commitments[h].time \in Int /\ (Stale(commitments[h]) <=> Expired(commitments[h]))
        <3>1. commitments[h] \in Commitment
            BY <1>0, <2>1
        <3> QED
            BY <1>0, <3>1 DEF Commitment, Stale, Expired
    <2>2. commitments'[h] = IF commitments[h] # Nobody /\ Stale(commitments[h])
                            THEN Nobody ELSE commitments[h]
        BY <1>1 DEF EndBlock, PruneExpiredCommitments
    <2> QED
        BY <2>1, <2>2 DEF Due
<1>2. ASSUME ~EndBlock, commitments[h] # Nobody => commitments'[h] # Nobody PROVE Due(h)
    BY <1>2 DEF Due
<1>3. ASSUME ~EndBlock, NEW a \in Accounts, NEW g \in Hashes, NEW v \in Valuations, Commit(a, g, v)
      PROVE Due(h)
    <2>1. commitments' = [commitments EXCEPT ![g] = [owner |-> a, time |-> now, valuation |-> v]]
        BY <1>3 DEF Commit
    <2>2. commitments[g] = Nobody
        BY <1>3 DEF Commit
    <2> QED
        BY <1>0, <1>2, <1>3, <2>1, <2>2
<1>4. ASSUME ~EndBlock, NEW a \in Accounts, NEW n \in Names, NEW s \in Salts, Reveal(a, n, s)
      PROVE Due(h)
    <2>1. CASE h = <<n, a, s>>
        <3>1. owner[n] = Nobody /\ owner'[n] = a
            BY <1>4 DEF Reveal, NoName, Exists, Minted
        <3> QED
            BY <1>4, <2>1, <3>1 DEF Due
    <2>2. CASE h # <<n, a, s>>
        BY <1>0, <1>2, <1>4, <2>2 DEF Reveal
    <2> QED
        BY <2>1, <2>2
<1>5. ASSUME ~EndBlock, commitments' = commitments PROVE Due(h)
    BY <1>2, <1>5
<1> QED
    BY <1>1, <1>3, <1>4, <1>5
    DEF Next, OwnerMessage, AdminMessage, OtherMessage, vars, SetDestination, MintNFT,
        SetNFTMetadata, BurnNFT, CreateExternalName, Transfer, ExportImport

(* The end of a block drops exactly the commitments that no reveal at its time would accept;     *)
(* otherwise a commitment goes only when its name goes to the account it names.                  *)
THEOREM PruningMeetsReveal == Spec => PruneMeetsReveal
<1>1. TypeOK /\ [Next]_vars =>
        [/\ \A h \in Hashes : commitments[h] # Nobody /\ commitments'[h] = Nobody =>
              \/ Expired(commitments[h])
              \/ owner[h[1]] = Nobody /\ owner'[h[1]] = h[2]
         /\ EndBlock => \A h \in Hashes : commitments'[h] # Nobody => ~Expired(commitments[h])]_vars
    BY DueByStep DEF Due
<1> QED
    BY <1>1, RegistryTypes, PTL DEF Spec, PruneMeetsReveal

=============================================================================
