------------------------------- MODULE NameBids -------------------------------
(***************************************************************************)
(* x/nameservice: bids on the NFTs of one class, the valuation each NFT is *)
(* taxed on, and the escrow the bids are held in.                          *)
(*                                                                         *)
(* A bid lives in three places: the NFT's own data (current bidder and     *)
(* bid), the ledger of bid records with the index of the active one, and   *)
(* the module account, where the funds of every bid on every NFT lie       *)
(* together.  Each handler updates the three on its own, so what one of    *)
(* them forgets only shows several messages later.                         *)
(*                                                                         *)
(* Names are the NFTs of the class "nameservice.dys": its root name        *)
(* belongs to the authority and fees go to the community pool.  A user's   *)
(* class differs in who its root name belongs to and points at.            *)
(* An operator Name_Fault is a faulty variant of Name: it stands for a bug *)
(* that the properties must catch, and no specification uses it.           *)
(***************************************************************************)
EXTENDS Integers, FiniteSets, FiniteSetsExt, Functions

CONSTANTS
    NFTs,           \* NFT ids of the class
    Accounts,       \* user accounts
    Authority,      \* the gov module account
    Pool,           \* the community pool
    Escrow,         \* the nameservice module account
    Nobody,         \* the empty address; also the empty denom
    ClassAdmin,     \* the address the class's root name resolves to
    ClassOwner,     \* the owner of the root name, who is paid the fees
    Denoms,         \* denominations with supply
    InitFunds,      \* coins of every account at the start, in each denom
    InitClass,      \* NFTClassData after SaveClass
    ClassSettings,  \* NFTClassData whose fields the class may be set to
    DecOne,         \* the decimal 1: the scale of LegacyDec (10^18)
    Year,           \* AddDate(1, 0, 0)
    MaxAmount,      \* bound on the coins named in a message
    MaxBids,        \* bound on the bid sequence
    MaxTime         \* bound on the block time

VARIABLES
    owner,          \* NFT id -> owner, Nobody when it is not minted
    nft,            \* NFT id -> NFTData
    bids,           \* bid ledger: bid id -> BidRecord
    bidSeq,         \* BidSeq sequence, from 0
    activeBid,      \* ActiveBidForNFT: NFT id -> bid id or NoBid
    bank,           \* account -> denom -> balance
    class,          \* NFTClassData
    now             \* block time

ledger == <<bids, bidSeq, activeBid>>
vars   == <<owner, nft, ledger, bank, class, now>>

Parties == Accounts \cup {Authority}
Purses  == Parties \cup {Pool, Escrow}
NoBid   == -1
Closed  == {"ACCEPTED", "REJECTED", "CLAIMED"}
Status  == {"ACTIVE", "OUTBID"} \cup Closed

Coin   == [denom: Denoms, amount: Nat \ {0}]
Coins  == [denom: Denoms, amount: 1 .. MaxAmount]
NoCoin == [denom |-> Nobody, amount |-> 0]

NFTData == [listed: BOOLEAN, valuation: Coin \cup {NoCoin}, expiry: Nat,
            bidder: Accounts \cup {Nobody}, bid: Coin \cup {NoCoin}, bidTime: Nat]
BidRecord == [nft: NFTs, bidder: Accounts, amount: Coin, status: Status,
              replaces: Nat, replacedBy: Nat, fee: Nat]
ClassData == [alwaysListed: BOOLEAN, bidTimeout: Nat, minIncrease: Nat, rejectFee: Nat,
              feePct: Nat, period: Nat \ {0}, denoms: SUBSET Denoms \ {{}}]

ASSUME PartiesAssumption ==
    /\ Nobody \notin Purses \cup Denoms
    /\ Authority \notin Accounts /\ Pool \notin Parties /\ Escrow \notin Parties \cup {Pool}
    /\ ClassAdmin \in Parties /\ ClassOwner \in Parties
ASSUME NFTsAssumption == IsFiniteSet(NFTs)
ASSUME ClassAssumption == InitClass \in ClassSettings /\ ClassSettings \subseteq ClassData
ASSUME NumbersAssumption ==
    /\ DecOne \in Nat \ {0}
    /\ {InitFunds, Year, MaxAmount, MaxBids, MaxTime} \subseteq Nat

-----------------------------------------------------------------------------
(* LegacyDec: decimals are integers scaled by DecOne.                      *)

\* n / d to the nearest integer, a tie to the even one
HalfEven(n, d) ==
    LET q == n \div d
        r == n % d
    IN IF 2 * r > d \/ (2 * r = d /\ q % 2 = 1) THEN q + 1 ELSE q

\* the part of a period that `seconds' are, as a decimal
Portion(seconds, period) ==
    HalfEven((seconds * DecOne * DecOne) \div period, DecOne)

\* the valuation fee on `amount' for a portion of the period, as a decimal
DecFee(amount, portion) == HalfEven(amount * class.feePct * portion, DecOne)

\* TruncateDecimal
Truncated(dec) == dec \div DecOne

\* the least amount that is minIncrease above `amount': multiply, then Ceil
MinRaise(amount) == (amount * (DecOne + class.minIncrease) + DecOne - 1) \div DecOne

-----------------------------------------------------------------------------
(* The bank, and who is paid the fees of the class.                        *)

CanPay(b, from, coin) == b[from][coin.denom] >= coin.amount
Take(b, from, coin)    == [b EXCEPT ![from][coin.denom] = @ - coin.amount]
Put(b, to, coin)       == [b EXCEPT ![to][coin.denom] = @ + coin.amount]
Pay(b, from, to, coin) == Put(Take(b, from, coin), to, coin)

FeeTo == IF ClassOwner = Authority THEN Pool ELSE ClassOwner
Fee(denom, amount) == [denom |-> denom, amount |-> amount]

-----------------------------------------------------------------------------
(* NFTs and their data.                                                    *)

Blank == [listed |-> FALSE, valuation |-> NoCoin, expiry |-> 0,
          bidder |-> Nobody, bid |-> NoCoin, bidTime |-> 0]
Cleared_KeepsBid(data) == [data EXCEPT !.bidTime = 0]
Cleared(data) == [data EXCEPT !.bidder = Nobody, !.bid = NoCoin, !.bidTime = 0]

Minted(n)   == owner[n] # Nobody
HasBid(n)   == nft[n].bidder # Nobody /\ nft[n].bid.amount # 0
Expired(n)  == nft[n].expiry < now
Allowed(coin) == coin.amount > 0 /\ coin.denom \in class.denoms
ActiveValuation(n) == nft[n].valuation.amount # 0 /\ ~Expired(n)

\* the current bid's record gets its final status and the index lets go of it
CloseBid_KeepsIndex(n, status, fee) ==
    /\ activeBid[n] # NoBid
    /\ bids' = [bids EXCEPT ![activeBid[n]].status = status, ![activeBid[n]].fee = fee]
    /\ UNCHANGED <<activeBid, bidSeq>>
CloseBid(n, status, fee) ==
    /\ activeBid[n] # NoBid
    /\ bids' = [bids EXCEPT ![activeBid[n]].status = status, ![activeBid[n]].fee = fee]
    /\ activeBid' = [activeBid EXCEPT ![n] = NoBid]
    /\ UNCHANGED bidSeq

-----------------------------------------------------------------------------
(* PlaceBid                                                                *)

\* the first bid meets an active valuation, a later one the minimum increase
Enough_AnyRaise(n, coin) ==
    /\ ActiveValuation(n) => coin.denom = nft[n].valuation.denom
    /\ IF nft[n].bidder # Nobody
       THEN coin.denom = nft[n].bid.denom
       ELSE ActiveValuation(n) => coin.amount >= nft[n].valuation.amount
Enough(n, coin) ==
    /\ ActiveValuation(n) => coin.denom = nft[n].valuation.denom
    /\ IF nft[n].bidder # Nobody
       THEN /\ coin.denom = nft[n].bid.denom
            /\ coin.amount > nft[n].bid.amount
            /\ coin.amount >= MinRaise(nft[n].bid.amount)
       ELSE ActiveValuation(n) => coin.amount >= nft[n].valuation.amount

\* only a bidder other than the new one is given its escrow back
Refunds_NotByOwner(n, bidder) == nft[n].bidder \notin {Nobody, bidder} /\ bidder # owner[n]
Refunds(n, bidder) == nft[n].bidder \notin {Nobody, bidder}
AfterRefund(n, bidder) ==
    IF Refunds(n, bidder) THEN Pay(bank, Escrow, nft[n].bidder, nft[n].bid) ELSE bank

\* a link of 0 stands for none, also when the bid it replaces has id 0
NewRecord(n, bidder, coin) ==
    [nft |-> n, bidder |-> bidder, amount |-> coin, status |-> "ACTIVE",
     replaces |-> IF activeBid[n] = NoBid THEN 0 ELSE activeBid[n],
     replacedBy |-> 0, fee |-> 0]
Outbid_StaysActive(id) == [bids[id] EXCEPT !.replacedBy = bidSeq]
Outbid(id) == [bids[id] EXCEPT !.status = "OUTBID", !.replacedBy = bidSeq]

RecordBid_FirstIndexed(n, bidder, coin) ==
    /\ bids' = [id \in 0 .. bidSeq |->
                   IF id = bidSeq THEN NewRecord(n, bidder, coin)
                   ELSE IF id = activeBid[n] THEN Outbid(id)
                   ELSE bids[id]]
    /\ activeBid' = [activeBid EXCEPT ![n] = IF @ = NoBid THEN bidSeq ELSE @]
    /\ bidSeq' = bidSeq + 1
RecordBid(n, bidder, coin) ==
    /\ bids' = [id \in 0 .. bidSeq |->
                   IF id = bidSeq THEN NewRecord(n, bidder, coin)
                   ELSE IF id = activeBid[n] THEN Outbid(id)
                   ELSE bids[id]]
    /\ activeBid' = [activeBid EXCEPT ![n] = bidSeq]
    /\ bidSeq' = bidSeq + 1

PlaceBid(bidder, n, coin) ==
    /\ bidSeq < MaxBids
    /\ Minted(n) /\ owner[n] # Authority
    /\ Allowed(coin)
    /\ nft[n].listed \/ class.alwaysListed
    /\ Enough(n, coin)
    /\ Refunds(n, bidder) => CanPay(bank, Escrow, nft[n].bid)
    /\ LET refunded == AfterRefund(n, bidder) IN
          /\ CanPay(refunded, bidder, coin)
          /\ bank' = Pay(refunded, bidder, Escrow, coin)
    /\ RecordBid(n, bidder, coin)
    /\ nft' = [nft EXCEPT ![n].bidder = bidder, ![n].bid = coin, ![n].bidTime = now]
    /\ UNCHANGED <<owner, class, now>>

-----------------------------------------------------------------------------
(* The three ways a bid ends: AcceptBid, RejectBid, ClaimBid.              *)

AcceptBid(n) ==
    /\ Minted(n) /\ HasBid(n)
    /\ CanPay(bank, Escrow, nft[n].bid)
    /\ bank' = Pay(bank, Escrow, owner[n], nft[n].bid)
    /\ nft' = [nft EXCEPT ![n] = [Cleared(@) EXCEPT !.valuation = nft[n].bid]]
    /\ CloseBid(n, "ACCEPTED", 0)
    /\ owner' = [owner EXCEPT ![n] = nft[n].bidder]
    /\ UNCHANGED <<class, now>>

RejectFee(valuation) == Truncated(valuation.amount * class.rejectFee)

\* the owner keeps the NFT by valuing it above the bid; the expiry is a year
\* from now whatever the period of the class
RejectBid(n, valuation) ==
    /\ Minted(n) /\ HasBid(n)
    /\ valuation.denom = nft[n].bid.denom
    /\ valuation.amount >= MinRaise(nft[n].bid.amount)
    /\ CanPay(bank, Escrow, nft[n].bid)
    /\ Allowed(valuation)
    /\ LET refunded == Pay(bank, Escrow, nft[n].bidder, nft[n].bid)
           fee == Fee(valuation.denom, RejectFee(valuation))
       IN /\ CanPay(refunded, owner[n], fee)
          /\ bank' = Pay(refunded, owner[n], FeeTo, fee)
    /\ nft' = [nft EXCEPT ![n] = [Cleared(@) EXCEPT !.valuation = valuation,
                                                    !.expiry = now + Year]]
    /\ CloseBid(n, "REJECTED", RejectFee(valuation))
    /\ UNCHANGED <<owner, class, now>>

Remaining(n)   == nft[n].expiry - now
Later(a, b)    == IF a < b THEN b ELSE a
CanExtend_Always(n) == TRUE
CanExtend(n)   == Remaining(n) <= class.period
Extended(n)    == Later(nft[n].expiry, now) + class.period

\* the rise in valuation for the rest of the period, then a period of the bid
SurplusFee_Uncapped(n) ==
    LET rise == nft[n].bid.amount - nft[n].valuation.amount
    IN IF rise > 0 /\ Remaining(n) > 0
       THEN DecFee(rise, Portion(Remaining(n), class.period)) ELSE 0
SurplusFee(n) ==
    LET rise == nft[n].bid.amount - nft[n].valuation.amount
        rest == IF CanExtend(n) THEN Remaining(n) ELSE class.period
    IN IF rise > 0 /\ Remaining(n) > 0
       THEN DecFee(rise, Portion(rest, class.period)) ELSE 0
RenewalFee(n) == IF CanExtend(n) THEN nft[n].bid.amount * class.feePct ELSE 0
ClaimFee(n)   == Truncated(SurplusFee(n) + RenewalFee(n))

TimedOut(n) == now >= nft[n].bidTime + class.bidTimeout

\* every check of ClaimBid, before its payments
Claimable_WhileListed(n) == /\ Minted(n) /\ nft[n].bidder # Nobody /\ TimedOut(n)
                            /\ nft[n].listed \/ class.alwaysListed
Claimable(n) == Minted(n) /\ nft[n].bidder # Nobody /\ TimedOut(n)

ClaimExpiry(n) == IF CanExtend(n) THEN Extended(n) ELSE nft[n].expiry

\* Coins.Sub panics when the fee is more than the bid, and the transaction fails
ClaimBid(n) ==
    /\ Claimable(n)
    /\ ClaimFee(n) <= nft[n].bid.amount
    /\ CanPay(bank, Escrow, nft[n].bid)
    /\ LET denom  == nft[n].bid.denom
           taxed  == Pay(bank, Escrow, FeeTo, Fee(denom, ClaimFee(n)))
       IN bank' = Pay(taxed, Escrow, owner[n], Fee(denom, nft[n].bid.amount - ClaimFee(n)))
    /\ nft' = [nft EXCEPT ![n] = [Cleared(@) EXCEPT
                  !.valuation = nft[n].bid, !.expiry = ClaimExpiry(n)]]
    /\ CloseBid(n, "CLAIMED", 0)
    /\ owner' = [owner EXCEPT ![n] = nft[n].bidder]
    /\ UNCHANGED <<class, now>>

-----------------------------------------------------------------------------
(* Valuation, expiry and listing.                                          *)

\* the fee is on a rise in the same denomination, or on a first valuation
Rise(n, valuation) ==
    IF nft[n].valuation.denom \in {Nobody, valuation.denom}
    THEN valuation.amount - nft[n].valuation.amount ELSE 0
ValuationFee(n, valuation) ==
    IF Rise(n, valuation) > 0
    THEN Truncated(DecFee(Rise(n, valuation), Portion(Remaining(n), class.period)))
    ELSE 0

SetValuation(n, valuation) ==
    /\ Minted(n) /\ ~Expired(n)
    /\ Allowed(valuation)
    /\ nft[n].bidder = Nobody
    /\ LET fee == Fee(valuation.denom, ValuationFee(n, valuation)) IN
          /\ CanPay(bank, owner[n], fee)
          /\ bank' = Pay(bank, owner[n], FeeTo, fee)
    /\ nft' = [nft EXCEPT ![n].valuation = valuation]
    /\ UNCHANGED <<owner, ledger, class, now>>

\* anyone may pay; the time since an old expiry is charged too
Renew(payer, n) ==
    /\ Minted(n) /\ Allowed(nft[n].valuation)
    /\ CanExtend(n)
    /\ LET value == nft[n].valuation
           part  == Portion(Extended(n) - nft[n].expiry, class.period)
           fee   == Fee(value.denom, Truncated(DecFee(value.amount, part)))
       IN /\ CanPay(bank, payer, fee)
          /\ bank' = Pay(bank, payer, FeeTo, fee)
    /\ nft' = [nft EXCEPT ![n].expiry = Extended(n)]
    /\ UNCHANGED <<owner, ledger, class, now>>

SetListed(n, listed) ==
    /\ Minted(n)
    /\ nft' = [nft EXCEPT ![n].listed = listed]
    /\ UNCHANGED <<owner, ledger, bank, class, now>>

-----------------------------------------------------------------------------
(* Minting, burning and moving an NFT.  A bid on it is not looked at.      *)

MintNFT(n) ==
    /\ ~Minted(n)
    /\ owner' = [owner EXCEPT ![n] = ClassAdmin]
    /\ nft' = [nft EXCEPT ![n] = [Blank EXCEPT !.expiry = now + class.period]]
    /\ UNCHANGED <<ledger, bank, class, now>>

BurnNFT(n) ==
    /\ Minted(n)
    /\ owner' = [owner EXCEPT ![n] = Nobody]
    /\ nft' = [nft EXCEPT ![n] = Blank]
    /\ UNCHANGED <<ledger, bank, class, now>>

\* a module account is moved from or to only when it is the class admin
MoveNft_DropsBid(n, to) ==
    /\ Minted(n)
    /\ Authority \in {owner[n], to} => ClassAdmin = Authority
    /\ owner' = [owner EXCEPT ![n] = to]
    /\ nft' = [nft EXCEPT ![n] = Cleared(@)]
    /\ UNCHANGED <<ledger, bank, class, now>>
MoveNft(n, to) ==
    /\ Minted(n)
    /\ Authority \in {owner[n], to} => ClassAdmin = Authority
    /\ owner' = [owner EXCEPT ![n] = to]
    /\ UNCHANGED <<nft, ledger, bank, class, now>>

\* x/nft Send by the owner
Send(n, to) ==
    /\ Minted(n)
    /\ owner' = [owner EXCEPT ![n] = to]
    /\ UNCHANGED <<nft, ledger, bank, class, now>>

-----------------------------------------------------------------------------
(* The class's settings, by whoever its root name resolves to.             *)

SetNFTClassAlwaysListed(c) == class' = [class EXCEPT !.alwaysListed = c.alwaysListed]
SetNFTClassBidTimeout(c)   == class' = [class EXCEPT !.bidTimeout = c.bidTimeout]
SetNFTClassMinimumBidPercentIncrease(c) ==
    class' = [class EXCEPT !.minIncrease = c.minIncrease]
SetNFTClassRejectBidValuationFeePercent(c) ==
    class' = [class EXCEPT !.rejectFee = c.rejectFee]
SetNFTClassValuationFeePct(c) == class' = [class EXCEPT !.feePct = c.feePct]
SetNFTClassValuationPeriod(c) == class' = [class EXCEPT !.period = c.period]
SetNFTClassAllowedDenoms(c)   == class' = [class EXCEPT !.denoms = c.denoms]

SetClass == /\ \E c \in ClassSettings :
                  \/ SetNFTClassAlwaysListed(c)
                  \/ SetNFTClassBidTimeout(c)
                  \/ SetNFTClassMinimumBidPercentIncrease(c)
                  \/ SetNFTClassRejectBidValuationFeePercent(c)
                  \/ SetNFTClassValuationFeePct(c)
                  \/ SetNFTClassValuationPeriod(c)
                  \/ SetNFTClassAllowedDenoms(c)
            /\ UNCHANGED <<owner, nft, ledger, bank, now>>

-----------------------------------------------------------------------------
(* Genesis and time.                                                       *)

\* the active record of an NFT with the highest id: the last one written wins
ActiveRecords(n) == {id \in DOMAIN bids : bids[id].nft = n /\ bids[id].status = "ACTIVE"}
RebuiltIndex(n) == IF ActiveRecords(n) = {} THEN NoBid ELSE Max(ActiveRecords(n))

\* a chain exported and started again: bids and their sequence are written to
\* genesis, the index of the active ones is made from them
ExportImport ==
    /\ activeBid' = [n \in NFTs |-> RebuiltIndex(n)]
    /\ UNCHANGED <<owner, nft, bids, bidSeq, bank, class, now>>

Tick == /\ now < MaxTime
        /\ now' = now + 1
        /\ UNCHANGED <<owner, nft, ledger, bank, class>>

-----------------------------------------------------------------------------
Init ==
    /\ owner = [n \in NFTs |-> Nobody]
    /\ nft = [n \in NFTs |-> Blank]
    /\ bids = [id \in {} |-> Nobody]
    /\ bidSeq = 0
    /\ activeBid = [n \in NFTs |-> NoBid]
    /\ bank = [p \in Purses |-> [d \in Denoms |-> IF p \in Accounts THEN InitFunds ELSE 0]]
    /\ class = InitClass
    /\ now = 0

\* messages on one NFT
Message(n) ==
    \/ MintNFT(n)
    \/ BurnNFT(n)
    \/ \E to \in Parties : MoveNft(n, to) \/ Send(n, to)
    \/ \E listed \in BOOLEAN : SetListed(n, listed)
    \/ \E bidder \in Accounts, coin \in Coins : PlaceBid(bidder, n, coin)
    \/ AcceptBid(n)
    \/ \E coin \in Coins : RejectBid(n, coin) \/ SetValuation(n, coin)
    \/ ClaimBid(n)
    \/ \E payer \in Accounts : Renew(payer, n)

Next == (\E n \in NFTs : Message(n)) \/ SetClass \/ ExportImport \/ Tick

Spec == Init /\ [][Next]_vars

\* Blocks are produced, and the current bidder of an NFT claims it when it can.
FairSpec == /\ Spec
            /\ WF_vars(Tick)
            /\ \A n \in NFTs : WF_vars(ClaimBid(n))

-----------------------------------------------------------------------------
(* Properties.                                                             *)

TypeOK ==
    /\ owner \in [NFTs -> Parties \cup {Nobody}]
    /\ nft \in [NFTs -> NFTData]
    /\ bidSeq \in Nat
    /\ bids \in [0 .. bidSeq - 1 -> BidRecord]
    /\ activeBid \in [NFTs -> Nat \cup {NoBid}]
    /\ bank \in [Purses -> [Denoms -> Nat]]
    /\ class \in ClassData
    /\ now \in Nat

\* The index of active bids is what an import makes from the ledger: no NFT has
\* two active records, whatever accept, reject, claim, outbid, burn and mint did
\* to it (PlaceBid and RebuildDerivedIndexes).
IndexFromLedger == \A n \in NFTs : activeBid[n] = RebuiltIndex(n)

\* While an NFT shows a bid, the index leads to a record of that very bid, so no
\* handler that ends a bid can fail on the ledger after it moved the funds.
BidIsRecorded ==
    \A n \in NFTs :
        /\ (nft[n].bidder = Nobody) <=> (nft[n].bid = NoCoin)
        /\ nft[n].bidder # Nobody =>
              /\ Minted(n) /\ activeBid[n] \in DOMAIN bids
              /\ LET r == bids[activeBid[n]] IN
                    /\ r.nft = n /\ r.status = "ACTIVE"
                    /\ r.bidder = nft[n].bidder /\ r.amount = nft[n].bid

\* Outbid records form a chain on one NFT that only goes forward: each knows the
\* record that replaced it, and that record knows it.
OutbidChain ==
    \A id \in DOMAIN bids :
        /\ bids[id].status = "OUTBID" <=> bids[id].replacedBy # 0
        /\ bids[id].status = "OUTBID" =>
              LET next == bids[id].replacedBy IN
                 /\ next \in DOMAIN bids /\ next > id
                 /\ bids[next].nft = bids[id].nft
                 /\ bids[next].replaces = id

\* The escrow covers the current bids of all NFTs: a bid is never paid out of
\* the funds of a bid on another NFT.
BidIn(n, d) == IF nft[n].bid.denom = d THEN nft[n].bid.amount ELSE 0
CurrentBids(d) == SumFunction([n \in NFTs |-> BidIn(n, d)])
EscrowCovers == \A d \in Denoms : bank[Escrow][d] >= CurrentBids(d)

\* A claim never owes more fees than the bid it is paid from, with a valuation
\* fee of at most half the bid per period.
ClaimFeeFits ==
    \A n \in NFTs : Claimable(n) => ClaimFee(n) <= nft[n].bid.amount

\* However often an NFT is renewed and claimed, its expiry is at most two of the
\* longest periods away, or the year a rejection grants.
Longest == Max({c.period : c \in ClassSettings})
ExpiryInReach == \A n \in NFTs : nft[n].expiry <= now + Later(2 * Longest, Year)

\* The record of a bid that ended, and what any record says of the bid itself,
\* never change (the ledger is a history).
HistoryKept ==
    [][\A id \in DOMAIN bids :
          /\ id \in DOMAIN bids'
          /\ bids'[id].nft = bids[id].nft /\ bids'[id].bidder = bids[id].bidder
          /\ bids'[id].amount = bids[id].amount
          /\ bids[id].status # "ACTIVE" => bids'[id] = bids[id]]_vars

\* Whoever loses the current bid of another's NFT, outbid or rejected, has it
\* back in the same step.
LoserIsRefunded ==
    [][\A n \in NFTs :
          LET who == nft[n].bidder
              bid == nft[n].bid
          IN who \notin {Nobody, owner[n], nft'[n].bidder} /\ owner'[n] \notin {Nobody, who}
             => bank'[who][bid.denom] >= bank[who][bid.denom] + bid.amount]_vars

\* What the escrow holds beyond the current bids is never paid out, and grows
\* only when a bidder outbids itself or an NFT is burnt with a bid on it: every
\* other step takes in and pays out exactly the bids that begin and end.
Surplus(d) == bank[Escrow][d] - CurrentBids(d)
Strands(n) == nft[n].bidder # Nobody /\ (owner'[n] = Nobody \/ nft'[n].bidder = nft[n].bidder)
SurplusIsStranded ==
    [][\A d \in Denoms :
          /\ Surplus(d)' >= Surplus(d)
          /\ Surplus(d)' > Surplus(d) => \E n \in NFTs : Strands(n) /\ nft[n].bid.denom = d]_vars

\* Only a rejection takes time off an expiry that was paid for: the year from now
\* it grants may be less than what a renewal had left.
ExpiryKept ==
    [][\A n \in NFTs :
          Minted(n) /\ owner'[n] # Nobody /\ nft'[n].expiry < nft[n].expiry
          => \E id \in DOMAIN bids : bids[id].nft = n /\ bids[id].status = "ACTIVE"
                                     /\ bids'[id].status = "REJECTED"]_vars

\* A bid whose timeout passes within the modelled time does not stay: its bidder
\* gets the NFT, or the owner, another bid or a burn ends it first.
LongestTimeout == Max({c.bidTimeout : c \in ClassSettings})
Standing(n, p, t) == nft[n].bidder = p /\ nft[n].bidTime = t
BidIsResolved ==
    \A n \in NFTs, p \in Accounts, t \in 0 .. MaxTime :
        Standing(n, p, t) /\ t + LongestTimeout <= MaxTime ~> ~Standing(n, p, t)

\* The bids refine the auction that the nameservice promises.
Auction == INSTANCE NameAuction WITH
               Items <- NFTs, Bidders <- Accounts, Holders <- Parties, holder <- owner,
               offer <- [n \in NFTs |-> [by |-> nft[n].bidder, denom |-> nft[n].bid.denom,
                                         amount |-> nft[n].bid.amount]]
KeepsAuction == Auction!Spec
=============================================================================
