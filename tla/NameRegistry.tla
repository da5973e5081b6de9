---------------------------- MODULE NameRegistry ----------------------------
(***************************************************************************)
(* How names of x/nameservice come to be and where they point: a           *)
(* commitment to a hash, its reveal within CommitmentTTL, the pruning of   *)
(* what was never revealed, and the destinations of names, which may be    *)
(* addresses or other names, with the index that finds names by            *)
(* destination.  A message that fails changes nothing; a failing check is  *)
(* a guard.  Bids on names are the module NameBids.                        *)
(***************************************************************************)
EXTENDS Integers, FiniteSets

CONSTANTS
    Users, Authority,   \* accounts; the chain's authority is one more
    Pool,               \* the community pool
    Names,              \* names, in the class of names
    Root,               \* the name the class is administered through
    Reserved,           \* names that only the authority or the class's admin makes
    Salts, Valuations,
    Nobody,             \* no account, no destination, no commitment
    TTL,                \* CommitmentTTL
    FeePct, DecOne,     \* the valuation fee per period, as a decimal
    HopLimit,           \* SetDestination's maxDepth
    ResolveLimit,       \* ResolveNameOrAddress's maxDepth
    InitFunds, MaxTime, TimeSteps,
    MaxCommitments,     \* bound: commitments that stand at once
    MaxEntries          \* bound: entries of the index

Accounts == Users \cup {Authority}
Dests    == Accounts \cup Names \cup {Nobody}
Hashes   == Names \X Accounts \X Salts

Commitment == [owner: Accounts, time: Nat, valuation: Valuations]

ASSUME RegistryAssumption ==
    /\ Accounts \cap Names = {} /\ Nobody \notin Accounts \cup Names
    /\ Nobody \notin Commitment
    /\ Pool \notin Accounts /\ Authority \notin Users
    /\ Root \in Names /\ Reserved \subseteq Names
    /\ Valuations \subseteq Nat \ {0}
    /\ {TTL, FeePct, InitFunds, MaxTime, MaxCommitments, MaxEntries} \subseteq Nat /\ DecOne \in Nat \ {0}
    /\ TimeSteps \subseteq Nat
    /\ HopLimit \in Nat \ {0} /\ ResolveLimit = HopLimit + 1

VARIABLES
    commitments,    \* Commitments: by hash, Nobody when there is none
    owner,          \* x/nft: the owner of a name, Nobody while it does not exist
    uri,            \* x/nft: the destination of a name, Nobody for the empty string
    names,          \* nameDestinations: pairs of a destination and a name
    bank,           \* balances
    now             \* the block time

vars == <<commitments, owner, uri, names, bank, now>>
book == <<owner, uri, names>>

-----------------------------------------------------------------------------
(* Resolution *)

Exists(n) == owner[n] # Nobody

\* the k names one comes through when one follows destinations from n
Paths(n, k) == {p \in [1..k -> Names] : /\ p[1] = n
                                        /\ \A i \in 1..k-1 : p[i+1] = uri[p[i]]}

\* the addresses found within the given number of names
Ends(n, limit) == {a \in Accounts : \E k \in 1..limit : \E p \in Paths(n, k) : uri[p[k]] = a}

\* ResolveNameOrAddress: its last round can only look at an address
Resolve(d) == IF d \in Accounts THEN {d}
              ELSE IF d \in Names THEN Ends(d, ResolveLimit - 1) ELSE {}

ChainEnds_ItselfToo(n, d) ==
    \E k \in 1..HopLimit-1 : \E p \in Paths(d, k) : uri[p[k]] \in Accounts

\* SetDestination's check of the chain that d starts; n's own hop is counted first
ChainEnds(n, d) ==
    \E k \in 1..HopLimit-1 : \E p \in Paths(d, k) :
        /\ uri[p[k]] \in Accounts
        /\ \A i \in 1..k : p[i] # n

\* VerifyClassRootDestination: whom the messages of the class's admin are taken from
Admins == IF Exists(Root) THEN Resolve(Root) ELSE {}

-----------------------------------------------------------------------------
(* Names *)

Indexed(idx, d, n) == IF d = Nobody THEN idx ELSE idx \cup {<<d, n>>}
Removed_Keeps(idx, d, n) == idx
Removed(idx, d, n) == idx \ {<<d, n>>}

NoName(n) == ~Exists(n) /\ n # Root

\* EnsureNamesClassExists and the mint of a name that is not the root
Minted(n, a, d) ==
    LET missing == ~Exists(Root)
    IN /\ owner' = [m \in Names |-> IF m = n THEN a
                                    ELSE IF m = Root /\ missing THEN Authority ELSE owner[m]]
       /\ uri' = [m \in Names |-> IF m = n THEN d
                                  ELSE IF m = Root /\ missing THEN Authority ELSE uri[m]]

EnsureNamesClassExists ==
    /\ owner' = [owner EXCEPT ![Root] = IF Exists(Root) THEN @ ELSE Authority]
    /\ uri' = [uri EXCEPT ![Root] = IF Exists(Root) THEN @ ELSE Authority]

Standing == {h \in Hashes : commitments[h] # Nobody}

Commit(a, h, v) ==
    /\ Cardinality(Standing) < MaxCommitments
    /\ commitments[h] = Nobody
    /\ commitments' = [commitments EXCEPT ![h] = [owner |-> a, time |-> now, valuation |-> v]]
    /\ EnsureNamesClassExists
    /\ UNCHANGED <<names, bank, now>>

RevealFee(v) == (v * FeePct) \div DecOne

\* as Reveal sees it
Expired(c) == now - c.time > TTL

Reveal(a, n, salt) ==
    LET h == <<n, a, salt>>
        c == commitments[h]
        fee == RevealFee(c.valuation)
    IN /\ n \notin Reserved /\ NoName(n)
       /\ c # Nobody /\ ~Expired(c) /\ c.owner = a
       /\ bank[a] >= fee
       /\ bank' = [bank EXCEPT ![a] = @ - fee, ![Pool] = @ + fee]
       /\ Minted(n, a, a)
       /\ names' = Indexed(names, a, n)
       /\ commitments' = [commitments EXCEPT ![h] = Nobody]
       /\ UNCHANGED now

CreateExternalName(n) ==
    /\ NoName(n)
    /\ Minted(n, Authority, Authority)
    /\ UNCHANGED <<commitments, names, bank, now>>

SetDestination(a, n, d) ==
    /\ owner[n] = a
    /\ d \in Names => d # n /\ Exists(d) /\ ChainEnds(n, d)
    /\ uri' = [uri EXCEPT ![n] = d]
    /\ names' = Indexed(Removed(names, uri[n], n), d, n)
    /\ UNCHANGED <<commitments, owner, bank, now>>

-----------------------------------------------------------------------------
(* The class's admin, and sales *)

MintNFT(a, n, d) ==
    /\ ~Exists(n)
    /\ owner' = [owner EXCEPT ![n] = a]
    /\ uri' = [uri EXCEPT ![n] = d]
    /\ UNCHANGED <<commitments, names, bank, now>>

\* the index is left as it is
BurnNFT(n) ==
    /\ Exists(n)
    /\ owner' = [owner EXCEPT ![n] = Nobody]
    /\ uri' = [uri EXCEPT ![n] = Nobody]
    /\ UNCHANGED <<commitments, names, bank, now>>

\* any string may become the destination, a chain is not looked at
SetNFTMetadata(n, d) ==
    /\ Exists(n)
    /\ uri' = [uri EXCEPT ![n] = d]
    /\ names' = Indexed(Removed(names, uri[n], n), d, n)
    /\ UNCHANGED <<commitments, owner, bank, now>>

\* MoveNft, x/nft's Send and the sales of NameBids: the destination stays
Transfer(n, b) ==
    /\ Exists(n)
    /\ owner' = [owner EXCEPT ![n] = b]
    /\ UNCHANGED <<commitments, uri, names, bank, now>>

-----------------------------------------------------------------------------
(* Blocks and restarts *)

Stale_AtTTL(c) == c.time <= now - TTL
Stale_Twice(c) == c.time < now - 2 * TTL - 1

\* as PruneExpiredCommitments sees it
Stale(c) == c.time < now - TTL

PruneExpiredCommitments ==
    commitments' = [h \in Hashes |->
                      IF commitments[h] # Nobody /\ Stale(commitments[h])
                      THEN Nobody ELSE commitments[h]]

\* EndBlocker, and the next block's time
EndBlock ==
    /\ PruneExpiredCommitments
    /\ \E s \in TimeSteps : now + s <= MaxTime /\ now' = now + s
    /\ UNCHANGED <<book, bank>>

\* ExportGenesis and InitGenesis with x/nft's; the index is made anew
ExportImport ==
    /\ EnsureNamesClassExists
    /\ names' = {p \in (Dests \ {Nobody}) \X Names : uri'[p[2]] = p[1]}
    /\ UNCHANGED <<commitments, bank, now>>

Init == /\ commitments = [h \in Hashes |-> Nobody]
        /\ owner = [n \in Names |-> IF n = Root THEN Authority ELSE Nobody]
        /\ uri = [n \in Names |-> IF n = Root THEN Authority ELSE Nobody]
        /\ names = {<<Authority, Root>>}
        /\ bank = [a \in Accounts \cup {Pool} |-> IF a \in Users THEN InitFunds ELSE 0]
        /\ now = 0

OwnerMessage ==
    \E a \in Accounts :
        \/ \E h \in Hashes, v \in Valuations : Commit(a, h, v)
        \/ \E n \in Names, s \in Salts : Reveal(a, n, s)
        \/ \E n \in Names, d \in Dests : SetDestination(a, n, d)

AdminMessage ==
    \E a \in Admins, n \in Names :
        \/ \E d \in Dests : MintNFT(a, n, d) \/ SetNFTMetadata(n, d)
        \/ BurnNFT(n)

OtherMessage ==
    \E n \in Names : \/ CreateExternalName(n)
                     \/ \E a \in Accounts : Transfer(n, a)

Next == /\ OwnerMessage \/ AdminMessage \/ OtherMessage \/ EndBlock \/ ExportImport
        /\ Cardinality(names') <= MaxEntries

Spec == Init /\ [][Next]_vars

\* blocks are produced and their times grow
FairSpec == Spec /\ WF_vars(EndBlock /\ (now' > now \/ now = MaxTime))

-----------------------------------------------------------------------------
(* Properties *)

\* Every variable keeps its type; no balance falls below zero by the fee of a reveal.
TypeOK == /\ commitments \in [Hashes -> Commitment \cup {Nobody}]
          /\ owner \in [Names -> Accounts \cup {Nobody}]
          /\ uri \in [Names -> Dests]
          /\ names \subseteq (Dests \ {Nobody}) \X Names
          /\ bank \in [Accounts \cup {Pool} -> Nat]
          /\ now \in Nat

\* A destination an owner sets leads to an address in the next state, within the rounds
\* that ResolveNameOrAddress makes: SetDestination's own count of hops admits neither a cycle
\* nor a chain one name too long, although it walks the chain before the change.
DestinationResolves ==
    [][\A n \in Names :
          /\ uri'[n] \notin {uri[n], Nobody}
          /\ \E a \in Accounts : SetDestination(a, n, uri'[n])
          => Resolve(n)' # {}]_vars

Found(n) == uri[n] = Nobody \/ <<uri[n], n>> \in names
Wrong(n) == {d \in Dests : <<d, n>> \in names /\ d # uri[n]}

\* While a name exists, nothing that happens to it or to others makes the index lose it, and no
\* entry of it that was right is left behind: wrong entries are left over from a burn only.
StaysFound ==
    [][\A n \in Names : Exists(n) /\ Exists(n)' =>
          (Found(n) => Found(n)') /\ Wrong(n)' \subseteq Wrong(n)]_vars

\* A commitment is dropped only when its name goes to the account it names or when Reveal would
\* refuse it for its age; and no commitment that Reveal would refuse survives the block.  The two
\* handlers compare times in different ways.
PruneMeetsReveal ==
    [][/\ \A h \in Hashes : commitments[h] # Nobody /\ commitments'[h] = Nobody =>
             \/ Expired(commitments[h])
             \/ owner[h[1]] = Nobody /\ owner'[h[1]] = h[2]
       /\ EndBlock => \A h \in Hashes : commitments'[h] # Nobody => ~Expired(commitments[h])]_vars

\* Every commitment goes, revealed or not, so that a hash somebody else has taken is free again;
\* of those whose lifetime ends within the bound on time.
CommitmentGoes ==
    \A h \in Hashes :
        (commitments[h] # Nobody /\ commitments[h].time < MaxTime - TTL) ~> commitments[h] = Nobody

=============================================================================
