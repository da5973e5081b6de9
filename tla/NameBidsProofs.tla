----------------------------- MODULE NameBidsProofs -----------------------------
(***************************************************************************)
(* Proofs about NameBids for any accounts, NFTs, denominations, settings   *)
(* and bounds: the ledger, its index and the NFTs' data agree, and no      *)
(* balance is ever negative; no step rewrites the history of bids, keeps   *)
(* the money of a bidder who lost, takes back time that was paid for, or   *)
(* leaves the auction that NameAuction describes; and the escrow holds at  *)
(* least the bids it is for, with a surplus that only strands.             *)
(***************************************************************************)
EXTENDS NameBids, SumProofs

BankOK == bank \in [Purses -> [Denoms -> Nat]]

NamesOK == /\ owner \in [NFTs -> Parties \cup {Nobody}]
           /\ nft \in [NFTs -> NFTData]
           /\ class \in ClassData
           /\ now \in Nat

LedgerTypes == /\ bidSeq \in Nat
               /\ bids \in [0 .. bidSeq - 1 -> BidRecord]
               /\ activeBid \in [NFTs -> Nat \cup {NoBid}]

\* the index leads to active records, and to each of them
LedgerSync ==
    /\ \A n \in NFTs : activeBid[n] # NoBid =>
          /\ activeBid[n] \in DOMAIN bids
          /\ bids[activeBid[n]].nft = n /\ bids[activeBid[n]].status = "ACTIVE"
    /\ \A id \in DOMAIN bids : bids[id].status = "ACTIVE" => activeBid[bids[id].nft] = id

LedgerOK == LedgerTypes /\ LedgerSync /\ OutbidChain

\* the inductive invariant
BidsInv == BankOK /\ NamesOK /\ LedgerOK /\ BidIsRecorded

-----------------------------------------------------------------------------
(* Money                                                                   *)

(* A payment that the payer can make keeps balances natural numbers. *)
LEMMA PayTypes ==
    ASSUME NEW b \in [Purses -> [Denoms -> Nat]], NEW from \in Purses, NEW to \in Purses,
           NEW coin, coin.denom \in Denoms, coin.amount \in Nat, CanPay(b, from, coin)
    PROVE  Pay(b, from, to, coin) \in [Purses -> [Denoms -> Nat]]
<1> DEFINE taken == Take(b, from, coin)
<1>1. b[from][coin.denom] - coin.amount \in Nat
  BY DEF CanPay
<1>2. taken \in [Purses -> [Denoms -> Nat]]
  BY <1>1 DEF Take
<1> HIDE DEF taken
<1>3. Put(taken, to, coin) \in [Purses -> [Denoms -> Nat]]
  BY <1>2 DEF Put
<1>4. QED BY <1>3 DEF Pay, taken

\* What the payer is left with, when it does not pay itself.
LEMMA PayLeaves ==
    ASSUME NEW b \in [Purses -> [Denoms -> Nat]], NEW from \in Purses, NEW to \in Purses,
           from # to, NEW coin, coin.denom \in Denoms, coin.amount \in Nat
    PROVE  Pay(b, from, to, coin)[from][coin.denom] = b[from][coin.denom] - coin.amount
BY DEF Pay, Take, Put

(* Who holds coins. *)
LEMMA Actors ==
    /\ Escrow \in Purses /\ FeeTo \in Purses /\ FeeTo # Escrow
    /\ Accounts \subseteq Purses /\ Parties \subseteq Purses
    /\ Nobody \notin Parties /\ Nobody \notin Denoms
BY PartiesAssumption DEF Purses, Parties, FeeTo

(* Rounding half to even gives a natural number. *)
LEMMA HalfEvenNat ==
    ASSUME NEW n \in Nat, NEW d \in Nat \ {0}
    PROVE  HalfEven(n, d) \in Nat
<1>1. n \div d \in Nat
  OBVIOUS
<1>2. QED BY <1>1 DEF HalfEven

(* So does a product ... *)
LEMMA ProductNat == ASSUME NEW a \in Nat, NEW b \in Nat PROVE a * b \in Nat
OBVIOUS

(* ... cutting off decimals ... *)
LEMMA TruncatedNat == ASSUME NEW a \in Nat PROVE Truncated(a) \in Nat
BY NumbersAssumption DEF Truncated

(* ... the portion of a period ... *)
LEMMA PortionNat ==
    ASSUME NEW seconds \in Nat, NEW period \in Nat \ {0}
    PROVE  Portion(seconds, period) \in Nat
<1>1. seconds * DecOne \in Nat /\ (seconds * DecOne) * DecOne \in Nat
  BY ProductNat, NumbersAssumption
<1>2. (seconds * DecOne * DecOne) \div period \in Nat
  BY <1>1
<1>3. QED BY <1>2, HalfEvenNat, NumbersAssumption DEF Portion

(* ... and a fee before it is cut. *)
LEMMA DecFeeNat ==
    ASSUME class \in ClassData, NEW amount \in Nat, NEW portion \in Nat
    PROVE  DecFee(amount, portion) \in Nat
<1>1. class.feePct \in Nat
  BY DEF ClassData
<1>2. amount * class.feePct \in Nat /\ (amount * class.feePct) * portion \in Nat
  BY <1>1, ProductNat
<1>3. QED BY <1>2, HalfEvenNat, NumbersAssumption DEF DecFee

-----------------------------------------------------------------------------
(* The ledger                                                              *)

\* A new bid closes the active record of its NFT and becomes the active one.
LEMMA RecordKeeps ==
    ASSUME LedgerOK, NEW n \in NFTs, NEW bidder \in Accounts, NEW coin \in Coin,
           RecordBid(n, bidder, coin)
    PROVE  LedgerOK'
<1> DEFINE fresh == NewRecord(n, bidder, coin)
<1>1. bidSeq \in Nat /\ bidSeq' = bidSeq + 1 /\ DOMAIN bids = 0 .. bidSeq - 1
  BY DEF LedgerOK, LedgerTypes, RecordBid
<1>2. activeBid[n] # NoBid => activeBid[n] \in DOMAIN bids
  BY DEF LedgerOK, LedgerSync
<1>3. fresh \in BidRecord
  BY <1>1, <1>2 DEF NewRecord, BidRecord, Status, NoBid
<1>4. /\ fresh.nft = n /\ fresh.status = "ACTIVE" /\ fresh.replacedBy = 0
      /\ activeBid[n] # NoBid => fresh.replaces = activeBid[n]
  BY DEF NewRecord
<1> HIDE DEF fresh
<1>5. /\ DOMAIN bids' = 0 .. bidSeq /\ bids'[bidSeq] = fresh
      /\ \A id \in 0 .. bidSeq - 1 :
            bids'[id] = IF id = activeBid[n] THEN Outbid(id) ELSE bids[id]
  BY <1>1 DEF RecordBid, fresh
<1>6. \A id \in 0 .. bidSeq - 1 :
         /\ Outbid(id) \in BidRecord
         /\ Outbid(id).nft = bids[id].nft /\ Outbid(id).status = "OUTBID"
         /\ Outbid(id).replacedBy = bidSeq /\ Outbid(id).replaces = bids[id].replaces
  <2> TAKE id \in 0 .. bidSeq - 1
  <2> DEFINE bid == bids[id]
  <2>1. bid \in BidRecord /\ bidSeq \in Nat
    BY <1>1 DEF LedgerOK, LedgerTypes
  <2>2. Outbid(id) = [bid EXCEPT !.status = "OUTBID", !.replacedBy = bidSeq]
    BY DEF Outbid
  <2>3. "OUTBID" \in Status
    BY DEF Status
  <2> HIDE DEF bid
  <2>4. /\ Outbid(id) \in BidRecord
        /\ Outbid(id).nft = bid.nft /\ Outbid(id).status = "OUTBID"
        /\ Outbid(id).replacedBy = bidSeq /\ Outbid(id).replaces = bid.replaces
    BY <2>1, <2>2, <2>3 DEF BidRecord
  <2>5. QED BY <2>4 DEF bid
<1>7. activeBid' = [activeBid EXCEPT ![n] = bidSeq]
  BY DEF RecordBid
<1>8. LedgerTypes'
  <2>1. \A id \in 0 .. bidSeq : bids'[id] \in BidRecord
    BY <1>1, <1>3, <1>5, <1>6 DEF LedgerOK, LedgerTypes
  <2>2. bids' \in [0 .. bidSeq -> BidRecord]
    BY <2>1, <1>1 DEF RecordBid
  <2>3. activeBid' \in [NFTs -> Nat \cup {NoBid}]
    BY <1>1, <1>7 DEF LedgerOK, LedgerTypes
  <2>4. QED BY <1>1, <2>2, <2>3 DEF LedgerTypes
<1>9. LedgerSync'
  <2>1. activeBid'[n] = bidSeq /\ \A m \in NFTs \ {n} : activeBid'[m] = activeBid[m]
    BY <1>7 DEF LedgerOK, LedgerTypes
  <2>2. ASSUME NEW m \in NFTs, activeBid'[m] # NoBid
        PROVE  /\ activeBid'[m] \in DOMAIN bids'
               /\ bids'[activeBid'[m]].nft = m /\ bids'[activeBid'[m]].status = "ACTIVE"
    <3>1. CASE m = n
      BY <3>1, <2>1, <1>1, <1>4, <1>5
    <3>2. CASE m # n
      <4>1. /\ activeBid'[m] = activeBid[m] /\ activeBid[m] \in 0 .. bidSeq - 1
            /\ bids[activeBid[m]].nft = m /\ bids[activeBid[m]].status = "ACTIVE"
        BY <2>1, <2>2, <3>2, <1>1 DEF LedgerOK, LedgerSync
      <4>2. activeBid[m] # activeBid[n]
        BY <4>1, <3>2, <1>1 DEF LedgerOK, LedgerSync, NoBid
      <4>3. QED BY <4>1, <4>2, <1>1, <1>5
    <3>3. QED BY <3>1, <3>2
  <2>3. ASSUME NEW id \in DOMAIN bids', bids'[id].status = "ACTIVE"
        PROVE  activeBid'[bids'[id].nft] = id
    <3>1. CASE id = bidSeq
      BY <3>1, <2>1, <1>4, <1>5
    <3>2. CASE id # bidSeq
      <4>1. id \in 0 .. bidSeq - 1
        BY <3>2, <2>3, <1>1, <1>5
      <4>2. id # activeBid[n] /\ bids'[id] = bids[id]
        BY <4>1, <2>3, <1>5, <1>6
      <4>3. activeBid[bids[id].nft] = id /\ bids[id].nft \in NFTs
        BY <4>1, <4>2, <2>3, <1>1 DEF LedgerOK, LedgerSync, LedgerTypes, BidRecord
      <4>4. QED BY <4>2, <4>3, <2>1
    <3>3. QED BY <3>1, <3>2
  <2>4. QED BY <2>2, <2>3 DEF LedgerSync
<1>10. OutbidChain'
  <2> SUFFICES ASSUME NEW id \in DOMAIN bids'
               PROVE  /\ bids'[id].status = "OUTBID" <=> bids'[id].replacedBy # 0
                      /\ bids'[id].status = "OUTBID" =>
                            /\ bids'[id].replacedBy \in DOMAIN bids'
                            /\ bids'[id].replacedBy > id
                            /\ bids'[bids'[id].replacedBy].nft = bids'[id].nft
                            /\ bids'[bids'[id].replacedBy].replaces = id
    BY DEF OutbidChain
  <2>1. CASE id = bidSeq
    BY <2>1, <1>4, <1>5
  <2>2. CASE id = activeBid[n] /\ id # bidSeq
    <3>1. id \in 0 .. bidSeq - 1 /\ bids'[id] = Outbid(id) /\ id # NoBid
      BY <2>2, <1>1, <1>5 DEF NoBid
    <3>2. bids[id].nft = n
      BY <2>2, <3>1 DEF LedgerOK, LedgerSync
    <3>3. QED BY <2>2, <3>1, <3>2, <1>1, <1>4, <1>5, <1>6
  <2>3. CASE id # activeBid[n] /\ id # bidSeq
    <3>1. id \in 0 .. bidSeq - 1 /\ bids'[id] = bids[id]
      BY <2>3, <1>1, <1>5
    <3>2. CASE bids[id].status # "OUTBID"
      BY <3>1, <3>2, <1>1 DEF LedgerOK, OutbidChain
    <3>3. CASE bids[id].status = "OUTBID"
      <4> DEFINE next == bids[id].replacedBy
      <4>1. /\ next # 0 /\ next \in 0 .. bidSeq - 1 /\ next > id
            /\ bids[next].nft = bids[id].nft /\ bids[next].replaces = id
        BY <3>1, <3>3, <1>1 DEF LedgerOK, OutbidChain
      <4>2. bids'[next].nft = bids[next].nft /\ bids'[next].replaces = bids[next].replaces
        BY <4>1, <1>5, <1>6
      <4>3. next \in DOMAIN bids'
        BY <4>1, <1>1, <1>5
      <4>4. QED BY <3>1, <3>3, <4>1, <4>2, <4>3
    <3>4. QED BY <3>2, <3>3
  <2>4. QED BY <2>1, <2>2, <2>3
<1>11. QED BY <1>8, <1>9, <1>10 DEF LedgerOK

\* A bid that ends keeps its record, closed, and leaves the index.
LEMMA CloseKeeps ==
    ASSUME LedgerOK, NEW n \in NFTs, NEW status \in Closed, NEW fee \in Nat,
           CloseBid(n, status, fee)
    PROVE  LedgerOK'
<1> DEFINE gone == activeBid[n]
           shut == [bids[gone] EXCEPT !.status = status, !.fee = fee]
<1>1. bidSeq \in Nat /\ bidSeq' = bidSeq /\ DOMAIN bids = 0 .. bidSeq - 1
  BY DEF LedgerOK, LedgerTypes, CloseBid
<1>2. gone \in DOMAIN bids /\ bids[gone].nft = n /\ bids[gone].status = "ACTIVE"
  BY DEF LedgerOK, LedgerSync, CloseBid
<1>3. bids[gone] \in BidRecord
  BY <1>1, <1>2 DEF LedgerOK, LedgerTypes
<1>4. /\ shut \in BidRecord /\ shut.nft = n /\ shut.status = status
      /\ shut.replaces = bids[gone].replaces /\ shut.replacedBy = bids[gone].replacedBy
  BY <1>2, <1>3 DEF BidRecord, Status
<1>5. bids' = [bids EXCEPT ![gone] = shut]
  BY <1>2, <1>3 DEF CloseBid, BidRecord
<1>6. activeBid' = [activeBid EXCEPT ![n] = NoBid]
  BY DEF CloseBid
<1>7. status # "ACTIVE" /\ status # "OUTBID"
  BY DEF Closed
<1> HIDE DEF shut
<1>8. /\ DOMAIN bids' = DOMAIN bids /\ bids'[gone] = shut
      /\ \A id \in DOMAIN bids : id # gone => bids'[id] = bids[id]
  BY <1>2, <1>5
<1>9. activeBid'[n] = NoBid /\ \A m \in NFTs \ {n} : activeBid'[m] = activeBid[m]
  BY <1>6 DEF LedgerOK, LedgerTypes
<1>10. LedgerTypes'
  <2>1. bids' \in [0 .. bidSeq - 1 -> BidRecord]
    BY <1>4, <1>5 DEF LedgerOK, LedgerTypes
  <2>2. activeBid' \in [NFTs -> Nat \cup {NoBid}]
    BY <1>6 DEF LedgerOK, LedgerTypes
  <2>3. QED BY <1>1, <2>1, <2>2 DEF LedgerTypes
<1>11. LedgerSync'
  <2>1. ASSUME NEW m \in NFTs, activeBid'[m] # NoBid
        PROVE  /\ activeBid'[m] \in DOMAIN bids'
               /\ bids'[activeBid'[m]].nft = m /\ bids'[activeBid'[m]].status = "ACTIVE"
    <3>1. m # n /\ activeBid'[m] = activeBid[m]
      BY <2>1, <1>9
    <3>2. /\ activeBid[m] \in DOMAIN bids /\ bids[activeBid[m]].nft = m
          /\ bids[activeBid[m]].status = "ACTIVE"
      BY <2>1, <3>1 DEF LedgerOK, LedgerSync
    <3>3. activeBid[m] # gone
      BY <3>1, <3>2, <1>2
    <3>4. QED BY <3>1, <3>2, <3>3, <1>8
  <2>2. ASSUME NEW id \in DOMAIN bids', bids'[id].status = "ACTIVE"
        PROVE  activeBid'[bids'[id].nft] = id
    <3>1. id \in DOMAIN bids /\ id # gone /\ bids'[id] = bids[id]
      BY <2>2, <1>4, <1>7, <1>8
    <3>2. activeBid[bids[id].nft] = id /\ bids[id].nft \in NFTs
      BY <3>1, <2>2, <1>1 DEF LedgerOK, LedgerSync, LedgerTypes, BidRecord
    <3>3. QED BY <3>1, <3>2, <1>9
  <2>3. QED BY <2>1, <2>2 DEF LedgerSync
<1>12. OutbidChain'
  <2> SUFFICES ASSUME NEW id \in DOMAIN bids'
               PROVE  /\ bids'[id].status = "OUTBID" <=> bids'[id].replacedBy # 0
                      /\ bids'[id].status = "OUTBID" =>
                            /\ bids'[id].replacedBy \in DOMAIN bids'
                            /\ bids'[id].replacedBy > id
                            /\ bids'[bids'[id].replacedBy].nft = bids'[id].nft
                            /\ bids'[bids'[id].replacedBy].replaces = id
    BY DEF OutbidChain
  <2>1. \A k \in DOMAIN bids : /\ bids'[k].nft = bids[k].nft
                               /\ bids'[k].replaces = bids[k].replaces
                               /\ bids'[k].replacedBy = bids[k].replacedBy
                               /\ bids'[k].status = "OUTBID" <=> bids[k].status = "OUTBID"
    BY <1>2, <1>4, <1>7, <1>8
  <2>2. id \in DOMAIN bids
    BY <1>8
  <2>3. /\ bids[id].status = "OUTBID" <=> bids[id].replacedBy # 0
        /\ bids[id].status = "OUTBID" =>
              /\ bids[id].replacedBy \in DOMAIN bids
              /\ bids[id].replacedBy > id
              /\ bids[bids[id].replacedBy].nft = bids[id].nft
              /\ bids[bids[id].replacedBy].replaces = id
    BY <2>2 DEF LedgerOK, OutbidChain
  <2>4. QED BY <2>1, <2>2, <2>3, <1>8
<1>13. QED BY <1>10, <1>11, <1>12 DEF LedgerOK

(* The ledger stays in order where it stays. *)
LEMMA SameLedger == ASSUME LedgerOK, UNCHANGED ledger PROVE LedgerOK'
<1>1. bids' = bids /\ bidSeq' = bidSeq /\ activeBid' = activeBid
  BY DEF ledger
<1>2. QED BY <1>1 DEF LedgerOK, LedgerTypes, LedgerSync, OutbidChain

\* No NFT has two active records, and the index names the one it has.
LEMMA SyncGivesIndex == ASSUME LedgerOK PROVE IndexFromLedger
<1> SUFFICES ASSUME NEW n \in NFTs PROVE activeBid[n] = RebuiltIndex(n)
  BY DEF IndexFromLedger
<1>1. DOMAIN bids = 0 .. bidSeq - 1 /\ bidSeq \in Nat
  BY DEF LedgerOK, LedgerTypes
<1>2. CASE activeBid[n] = NoBid
  <2>1. ActiveRecords(n) = {}
    BY <1>1, <1>2 DEF ActiveRecords, LedgerOK, LedgerSync, NoBid
  <2>2. QED BY <1>2, <2>1 DEF RebuiltIndex
<1>3. CASE activeBid[n] # NoBid
  <2>1. ActiveRecords(n) = {activeBid[n]}
    BY <1>3 DEF ActiveRecords, LedgerOK, LedgerSync
  <2>2. activeBid[n] \in Nat
    BY <1>3 DEF LedgerOK, LedgerTypes
  <2>3. Max({activeBid[n]}) = activeBid[n]
    BY <2>2 DEF Max
  <2>4. QED BY <2>1, <2>3 DEF RebuiltIndex
<1>4. QED BY <1>2, <1>3

-----------------------------------------------------------------------------
(* NFTs and their data                                                     *)

(* The data of a name without its bid, with another valuation and expiry. *)
LEMMA ClearedData ==
    ASSUME NEW data \in NFTData, NEW value \in Coin \cup {NoCoin}, NEW expiry \in Nat
    PROVE  /\ [Cleared(data) EXCEPT !.valuation = value] \in NFTData
           /\ [Cleared(data) EXCEPT !.valuation = value].bidder = Nobody
           /\ [Cleared(data) EXCEPT !.valuation = value].bid = NoCoin
           /\ [Cleared(data) EXCEPT !.valuation = value].expiry = data.expiry
           /\ [Cleared(data) EXCEPT !.valuation = value, !.expiry = expiry] \in NFTData
           /\ [Cleared(data) EXCEPT !.valuation = value, !.expiry = expiry].bidder = Nobody
           /\ [Cleared(data) EXCEPT !.valuation = value, !.expiry = expiry].bid = NoCoin
           /\ [Cleared(data) EXCEPT !.valuation = value, !.expiry = expiry].expiry = expiry
BY DEF Cleared, NFTData

(* The data of a name that was sold. *)
LEMMA BlankData ==
    ASSUME NEW expiry \in Nat
    PROVE  /\ Blank \in NFTData /\ Blank.bidder = Nobody /\ Blank.bid = NoCoin
           /\ [Blank EXCEPT !.expiry = expiry] \in NFTData
           /\ [Blank EXCEPT !.expiry = expiry].bidder = Nobody
           /\ [Blank EXCEPT !.expiry = expiry].bid = NoCoin
BY DEF Blank, NFTData

(* The current bid is some coins of an account, and the name has an owner. *)
LEMMA BidIsCoin ==
    ASSUME NamesOK, BidIsRecorded, NEW n \in NFTs, nft[n].bidder # Nobody
    PROVE  /\ nft[n].bidder \in Accounts /\ nft[n].bid \in Coin
           /\ nft[n].bid.denom \in Denoms /\ nft[n].bid.amount \in Nat \ {0}
           /\ owner[n] \in Parties
<1>1. nft[n] \in NFTData /\ owner[n] \in Parties \cup {Nobody}
  BY DEF NamesOK
<1>2. nft[n].bid # NoCoin /\ owner[n] # Nobody
  BY DEF BidIsRecorded, Minted
<1>3. nft[n].bidder \in Accounts /\ nft[n].bid \in Coin
  BY <1>1, <1>2 DEF NFTData
<1>4. QED BY <1>1, <1>2, <1>3 DEF Coin

(* The coins of a message are coins. *)
LEMMA MessageCoin == ASSUME NEW coin \in Coins PROVE coin \in Coin
BY NumbersAssumption DEF Coins, Coin

\* The fee of a claim, and the expiry it leaves, are numbers.
LEMMA ClaimNumbers ==
    ASSUME NamesOK, NEW n \in NFTs, nft[n].bid \in Coin
    PROVE  ClaimFee(n) \in Nat /\ ClaimExpiry(n) \in Nat /\ ClaimExpiry(n) >= nft[n].expiry
<1>1. /\ nft[n].expiry \in Nat /\ now \in Nat /\ class \in ClassData
      /\ class.period \in Nat \ {0} /\ class.feePct \in Nat
      /\ nft[n].valuation.amount \in Nat
  BY DEF NamesOK, NFTData, ClassData, Coin, NoCoin
<1>2. nft[n].bid.amount \in Nat
  BY DEF Coin
<1>3. SurplusFee(n) \in Nat
  <2> DEFINE rise == nft[n].bid.amount - nft[n].valuation.amount
             rest == IF CanExtend(n) THEN Remaining(n) ELSE class.period
  <2>1. CASE rise > 0 /\ Remaining(n) > 0
    <3>1. rise \in Nat
      BY <1>1, <1>2, <2>1
    <3>2. rest \in Nat
      BY <1>1, <2>1 DEF Remaining
    <3>3. DecFee(rise, Portion(rest, class.period)) \in Nat
      <4> HIDE DEF rise, rest
      <4>1. Portion(rest, class.period) \in Nat
        BY <3>2, <1>1, PortionNat
      <4>2. QED BY <4>1, <3>1, <1>1, DecFeeNat
    <3>4. QED BY <2>1, <3>3 DEF SurplusFee
  <2>2. CASE ~(rise > 0 /\ Remaining(n) > 0)
    BY <2>2 DEF SurplusFee
  <2>3. QED BY <2>1, <2>2
<1>4. RenewalFee(n) \in Nat
  <2>1. nft[n].bid.amount * class.feePct \in Nat
    BY <1>1, <1>2, ProductNat
  <2>2. QED BY <2>1 DEF RenewalFee
<1>5. ClaimFee(n) \in Nat
  <2>1. SurplusFee(n) + RenewalFee(n) \in Nat
    BY <1>3, <1>4
  <2>2. QED BY <2>1, TruncatedNat DEF ClaimFee
<1>6. ClaimExpiry(n) \in Nat /\ ClaimExpiry(n) >= nft[n].expiry
  BY <1>1 DEF ClaimExpiry, Extended, Later
<1>7. QED BY <1>5, <1>6

\* A setter takes one field of other settings.
LEMMA SettersType == ASSUME class \in ClassData, SetClass PROVE class' \in ClassData
<1>1. PICK c \in ClassSettings :
         \/ SetNFTClassAlwaysListed(c)
         \/ SetNFTClassBidTimeout(c)
         \/ SetNFTClassMinimumBidPercentIncrease(c)
         \/ SetNFTClassRejectBidValuationFeePercent(c)
         \/ SetNFTClassValuationFeePct(c)
         \/ SetNFTClassValuationPeriod(c)
         \/ SetNFTClassAllowedDenoms(c)
  BY DEF SetClass
<1>2. c \in ClassData
  BY ClassAssumption
<1>3. QED BY <1>1, <1>2 DEF ClassData, SetNFTClassAlwaysListed, SetNFTClassBidTimeout,
         SetNFTClassMinimumBidPercentIncrease, SetNFTClassRejectBidValuationFeePercent,
         SetNFTClassValuationFeePct, SetNFTClassValuationPeriod, SetNFTClassAllowedDenoms

(* Every step keeps the data and owners of names in order. *)
LEMMA NamesStep == ASSUME BidsInv, Next PROVE NamesOK'
<1>1. /\ owner \in [NFTs -> Parties \cup {Nobody}] /\ nft \in [NFTs -> NFTData]
      /\ class \in ClassData /\ now \in Nat /\ class.period \in Nat \ {0}
  BY DEF BidsInv, NamesOK, ClassData
<1>2. SUFFICES /\ owner' \in [NFTs -> Parties \cup {Nobody}] /\ nft' \in [NFTs -> NFTData]
               /\ class' \in ClassData /\ now' \in Nat
  BY DEF NamesOK
<1>3. ASSUME NEW n \in NFTs, MintNFT(n) PROVE <1>2!1
  <2>1. [Blank EXCEPT !.expiry = now + class.period] \in NFTData
    BY <1>1, BlankData
  <2>2. QED BY <1>1, <1>3, <2>1, PartiesAssumption DEF MintNFT
<1>4. ASSUME NEW n \in NFTs, BurnNFT(n) PROVE <1>2!1
  BY <1>1, <1>4, BlankData DEF BurnNFT
<1>5. ASSUME NEW n \in NFTs, NEW to \in Parties, MoveNft(n, to) \/ Send(n, to) PROVE <1>2!1
  BY <1>1, <1>5 DEF MoveNft, Send
<1>6. ASSUME NEW n \in NFTs, NEW listed \in BOOLEAN, SetListed(n, listed) PROVE <1>2!1
  BY <1>1, <1>6 DEF SetListed, NFTData
<1>7. ASSUME NEW n \in NFTs, NEW bidder \in Accounts, NEW coin \in Coins,
             PlaceBid(bidder, n, coin)
      PROVE  <1>2!1
  <2>1. coin \in Coin
    BY MessageCoin
  <2>2. /\ nft' = [nft EXCEPT ![n].bidder = bidder, ![n].bid = coin, ![n].bidTime = now]
        /\ UNCHANGED <<owner, class, now>>
    BY <1>7 DEF PlaceBid
  <2>3. nft' \in [NFTs -> NFTData]
    <3> DEFINE data == [nft[n] EXCEPT !.bidder = bidder, !.bid = coin, !.bidTime = now]
    <3>1. data \in NFTData
      BY <1>1, <2>1 DEF NFTData
    <3>2. nft' = [nft EXCEPT ![n] = data]
      BY <2>2, <1>1 DEF NFTData
    <3>3. QED BY <1>1, <3>1, <3>2
  <2>4. QED BY <1>1, <2>2, <2>3
<1>8. ASSUME NEW n \in NFTs, HasBid(n), nft[n].bidder # Nobody,
             NEW value \in Coin \cup {NoCoin}, NEW expiry \in Nat,
             \/ nft' = [nft EXCEPT ![n] = [Cleared(@) EXCEPT !.valuation = value]]
             \/ nft' = [nft EXCEPT ![n] =
                           [Cleared(@) EXCEPT !.valuation = value, !.expiry = expiry]]
      PROVE  nft' \in [NFTs -> NFTData]
  <2>1. nft[n] \in NFTData
    BY <1>1
  <2>2. /\ [Cleared(nft[n]) EXCEPT !.valuation = value] \in NFTData
        /\ [Cleared(nft[n]) EXCEPT !.valuation = value, !.expiry = expiry] \in NFTData
    BY <2>1, ClearedData
  <2>3. PICK data \in NFTData : nft' = [nft EXCEPT ![n] = data]
    BY <1>8, <2>2
  <2>4. QED BY <1>1, <2>3
<1>9. ASSUME NEW n \in NFTs, AcceptBid(n) PROVE <1>2!1
  <2>1. HasBid(n) /\ nft[n].bidder # Nobody
    BY <1>9 DEF AcceptBid, HasBid
  <2>2. nft[n].bid \in Coin /\ nft[n].bidder \in Accounts
    BY <2>1, BidIsCoin DEF BidsInv
  <2>3. nft' \in [NFTs -> NFTData]
    BY <1>8, <1>9, <2>1, <2>2, <1>1 DEF AcceptBid
  <2>4. QED BY <1>1, <1>9, <2>2, <2>3 DEF AcceptBid, Parties
<1>10. ASSUME NEW n \in NFTs, NEW coin \in Coins, RejectBid(n, coin) PROVE <1>2!1
  <2>1. HasBid(n) /\ nft[n].bidder # Nobody
    BY <1>10 DEF RejectBid, HasBid
  <2>2. coin \in Coin /\ now + Year \in Nat
    BY <1>1, MessageCoin, NumbersAssumption
  <2>3. nft' = [nft EXCEPT ![n] =
                   [Cleared(@) EXCEPT !.valuation = coin, !.expiry = now + Year]]
    BY <1>10 DEF RejectBid
  <2>4. nft' \in [NFTs -> NFTData]
    BY <1>8, <2>1, <2>2, <2>3
  <2>5. QED BY <1>1, <1>10, <2>4 DEF RejectBid
<1>11. ASSUME NEW n \in NFTs, ClaimBid(n) PROVE <1>2!1
  <2>1. nft[n].bidder # Nobody
    BY <1>11 DEF ClaimBid, Claimable
  <2>2. /\ nft[n].bid \in Coin /\ nft[n].bidder \in Accounts /\ nft[n].bid.amount # 0
    BY <2>1, BidIsCoin DEF BidsInv
  <2>3. ClaimExpiry(n) \in Nat
    BY <2>2, ClaimNumbers DEF BidsInv
  <2>4. nft' = [nft EXCEPT ![n] = [Cleared(@) EXCEPT
                   !.valuation = nft[n].bid, !.expiry = ClaimExpiry(n)]]
    BY <1>11 DEF ClaimBid
  <2>5. nft' \in [NFTs -> NFTData]
    BY <1>8, <2>1, <2>2, <2>3, <2>4 DEF HasBid
  <2>6. QED BY <1>1, <1>11, <2>2, <2>5 DEF ClaimBid, Parties
<1>12. ASSUME NEW n \in NFTs, NEW coin \in Coins, SetValuation(n, coin) PROVE <1>2!1
  BY <1>1, <1>12, MessageCoin DEF SetValuation, NFTData
<1>13. ASSUME NEW n \in NFTs, NEW payer \in Accounts, Renew(payer, n) PROVE <1>2!1
  <2>1. nft[n].expiry \in Nat
    BY <1>1 DEF NFTData
  <2>2. Extended(n) \in Nat
    BY <1>1, <2>1 DEF Extended, Later
  <2>3. nft' = [nft EXCEPT ![n].expiry = Extended(n)] /\ UNCHANGED <<owner, class, now>>
    BY <1>13 DEF Renew
  <2>4. QED BY <1>1, <2>2, <2>3 DEF NFTData
<1>14. CASE SetClass
  BY <1>1, <1>14, SettersType DEF SetClass
<1>15. CASE ExportImport \/ Tick
  BY <1>1, <1>15 DEF ExportImport, Tick
<1>16. QED
  BY <1>3, <1>4, <1>5, <1>6, <1>7, <1>9, <1>10, <1>11, <1>12, <1>13, <1>14, <1>15
     DEF Next, Message

-----------------------------------------------------------------------------
(* No step makes a balance negative.                                       *)

(* A fee that can be paid keeps balances natural numbers. *)
LEMMA FeePaid ==
    ASSUME BankOK, NEW from \in Parties, NEW denom \in Denoms, NEW amount \in Nat,
           NEW b \in [Purses -> [Denoms -> Nat]], CanPay(b, from, Fee(denom, amount))
    PROVE  Pay(b, from, FeeTo, Fee(denom, amount)) \in [Purses -> [Denoms -> Nat]]
<1>1. from \in Purses /\ FeeTo \in Purses
  BY Actors
<1>2. Fee(denom, amount).denom = denom /\ Fee(denom, amount).amount = amount
  BY DEF Fee
<1> DEFINE fee == Fee(denom, amount)
<1> HIDE DEF fee
<1>3. fee.denom \in Denoms /\ fee.amount \in Nat /\ CanPay(b, from, fee)
  BY <1>2 DEF fee
<1>4. Pay(b, from, FeeTo, fee) \in [Purses -> [Denoms -> Nat]]
  BY <1>1, <1>3, PayTypes
<1>5. QED BY <1>4 DEF fee

(* So does handing out the current bid. *)
LEMMA RefundTypes ==
    ASSUME BankOK, NamesOK, BidIsRecorded, NEW n \in NFTs, nft[n].bidder # Nobody,
           NEW to \in Parties, CanPay(bank, Escrow, nft[n].bid)
    PROVE  Pay(bank, Escrow, to, nft[n].bid) \in [Purses -> [Denoms -> Nat]]
<1>1. nft[n].bid.denom \in Denoms /\ nft[n].bid.amount \in Nat
  BY BidIsCoin
<1>2. Escrow \in Purses /\ to \in Purses /\ bank \in [Purses -> [Denoms -> Nat]]
  BY Actors DEF BankOK
<1>3. QED BY <1>1, <1>2, PayTypes

(* So does placing a bid, with its refund to the one before ... *)
LEMMA BankPlace ==
    ASSUME BidsInv, NEW n \in NFTs, NEW bidder \in Accounts, NEW coin \in Coins,
           PlaceBid(bidder, n, coin)
    PROVE  BankOK'
<1> DEFINE refunded == AfterRefund(n, bidder)
<1>1. bank \in [Purses -> [Denoms -> Nat]] /\ BankOK /\ NamesOK /\ BidIsRecorded
  BY DEF BidsInv, BankOK
<1>2. refunded \in [Purses -> [Denoms -> Nat]]
  <2>1. CASE Refunds(n, bidder)
    <3>1. nft[n].bidder # Nobody /\ CanPay(bank, Escrow, nft[n].bid)
      BY <2>1 DEF PlaceBid, Refunds
    <3>2. nft[n].bidder \in Parties
      BY <3>1, <1>1, BidIsCoin DEF Parties
    <3>3. Pay(bank, Escrow, nft[n].bidder, nft[n].bid) \in [Purses -> [Denoms -> Nat]]
      BY <3>1, <3>2, <1>1, RefundTypes
    <3>4. QED BY <2>1, <3>3 DEF AfterRefund
  <2>2. CASE ~Refunds(n, bidder)
    BY <2>2, <1>1 DEF AfterRefund
  <2>3. QED BY <2>1, <2>2
<1>3. CanPay(refunded, bidder, coin) /\ bank' = Pay(refunded, bidder, Escrow, coin)
  BY DEF PlaceBid
<1> HIDE DEF refunded
<1>4. coin.denom \in Denoms /\ coin.amount \in Nat
  BY NumbersAssumption DEF Coins
<1>5. bidder \in Purses /\ Escrow \in Purses
  BY Actors
<1>6. Pay(refunded, bidder, Escrow, coin) \in [Purses -> [Denoms -> Nat]]
  BY <1>2, <1>3, <1>4, <1>5, PayTypes
<1>7. QED BY <1>3, <1>6 DEF BankOK

(* ... accepting one ... *)
LEMMA BankAccept == ASSUME BidsInv, NEW n \in NFTs, AcceptBid(n) PROVE BankOK'
<1>1. nft[n].bidder # Nobody /\ CanPay(bank, Escrow, nft[n].bid)
  BY DEF AcceptBid, HasBid
<1>2. owner[n] \in Parties
  BY <1>1, BidIsCoin DEF BidsInv
<1>3. Pay(bank, Escrow, owner[n], nft[n].bid) \in [Purses -> [Denoms -> Nat]]
  BY <1>1, <1>2, RefundTypes DEF BidsInv
<1>4. QED BY <1>3 DEF AcceptBid, BankOK

(* ... rejecting one, with the fee on the valuation ... *)
LEMMA BankReject ==
    ASSUME BidsInv, NEW n \in NFTs, NEW value \in Coins, RejectBid(n, value)
    PROVE  BankOK'
<1> DEFINE refunded == Pay(bank, Escrow, nft[n].bidder, nft[n].bid)
           fee == RejectFee(value)
<1>1. nft[n].bidder # Nobody /\ CanPay(bank, Escrow, nft[n].bid)
  BY DEF RejectBid, HasBid
<1>2. owner[n] \in Parties /\ nft[n].bidder \in Parties
  BY <1>1, BidIsCoin DEF BidsInv, Parties
<1>3. refunded \in [Purses -> [Denoms -> Nat]]
  BY <1>1, <1>2, RefundTypes DEF BidsInv
<1>4. value.denom \in Denoms /\ value.amount \in Nat
  BY NumbersAssumption DEF Coins
<1>5. fee \in Nat
  <2>1. class.rejectFee \in Nat
    BY DEF BidsInv, NamesOK, ClassData
  <2>2. value.amount * class.rejectFee \in Nat
    BY <2>1, <1>4, ProductNat
  <2>3. QED BY <2>2, TruncatedNat DEF RejectFee
<1>6. /\ CanPay(refunded, owner[n], Fee(value.denom, fee))
      /\ bank' = Pay(refunded, owner[n], FeeTo, Fee(value.denom, fee))
  BY DEF RejectBid
<1> HIDE DEF refunded, fee
<1>7. Pay(refunded, owner[n], FeeTo, Fee(value.denom, fee)) \in [Purses -> [Denoms -> Nat]]
  BY <1>2, <1>3, <1>4, <1>5, <1>6, FeePaid DEF BidsInv
<1>8. QED BY <1>6, <1>7 DEF BankOK

\* The fee leaves in the escrow what the seller is owed.
LEMMA BankClaim == ASSUME BidsInv, NEW n \in NFTs, ClaimBid(n) PROVE BankOK'
<1> DEFINE denom  == nft[n].bid.denom
           amount == nft[n].bid.amount
           fee    == ClaimFee(n)
           tax    == Fee(denom, fee)
           rest   == Fee(denom, amount - fee)
           taxed  == Pay(bank, Escrow, FeeTo, tax)
<1>1. nft[n].bidder # Nobody /\ bank[Escrow][denom] >= amount /\ fee <= amount
  BY DEF ClaimBid, Claimable, CanPay
<1>2. denom \in Denoms /\ amount \in Nat /\ owner[n] \in Parties /\ nft[n].bid \in Coin
  BY <1>1, BidIsCoin DEF BidsInv
<1>3. fee \in Nat
  BY <1>2, ClaimNumbers DEF BidsInv
<1>4. bank' = Pay(taxed, Escrow, owner[n], rest)
  BY DEF ClaimBid
<1>5. tax.denom = denom /\ tax.amount = fee /\ rest.denom = denom /\ rest.amount = amount - fee
  BY DEF Fee
<1> HIDE DEF denom, amount, fee, tax, rest
<1>6. /\ bank \in [Purses -> [Denoms -> Nat]] /\ Escrow \in Purses /\ FeeTo \in Purses
      /\ FeeTo # Escrow /\ owner[n] \in Purses
  BY <1>2, Actors DEF BidsInv, BankOK
<1>7. bank[Escrow][denom] \in Nat /\ rest.amount \in Nat
  BY <1>1, <1>2, <1>3, <1>5, <1>6
<1>8. CanPay(bank, Escrow, tax)
  BY <1>1, <1>2, <1>3, <1>5, <1>7 DEF CanPay
<1>9. taxed \in [Purses -> [Denoms -> Nat]]
  BY <1>2, <1>3, <1>5, <1>6, <1>8, PayTypes
<1>10. taxed[Escrow][denom] = bank[Escrow][denom] - fee
  <2>1. tax.denom \in Denoms /\ tax.amount \in Nat
    BY <1>2, <1>3, <1>5
  <2>2. Pay(bank, Escrow, FeeTo, tax)[Escrow][tax.denom] = bank[Escrow][tax.denom] - tax.amount
    BY <1>6, <2>1, PayLeaves
  <2>3. QED BY <1>5, <2>2
<1> HIDE DEF taxed
<1>11. CanPay(taxed, Escrow, rest)
  BY <1>1, <1>2, <1>3, <1>5, <1>7, <1>10 DEF CanPay
<1>12. Pay(taxed, Escrow, owner[n], rest) \in [Purses -> [Denoms -> Nat]]
  BY <1>2, <1>5, <1>6, <1>7, <1>9, <1>11, PayTypes
<1>13. QED BY <1>4, <1>12 DEF BankOK

(* The fee on a raised valuation is a natural number. *)
LEMMA ValuationFeeNat ==
    ASSUME BidsInv, NEW n \in NFTs, NEW value \in Coins, SetValuation(n, value)
    PROVE  ValuationFee(n, value) \in Nat
<1> DEFINE rise == Rise(n, value)
<1>1. /\ nft[n].expiry \in Nat /\ now \in Nat /\ class \in ClassData
      /\ class.period \in Nat \ {0} /\ nft[n].valuation.amount \in Nat
  BY DEF BidsInv, NamesOK, NFTData, ClassData, Coin, NoCoin
<1>2. value.denom \in Denoms /\ value.amount \in Nat
  BY NumbersAssumption DEF Coins
<1>3. Remaining(n) \in Nat
  BY <1>1 DEF SetValuation, Expired, Remaining
<1>4. rise \in Int
  BY <1>1, <1>2 DEF Rise
<1> HIDE DEF rise
<1>5. CASE rise > 0
  <2>1. rise \in Nat
    BY <1>4, <1>5
  <2>2. Portion(Remaining(n), class.period) \in Nat
    BY <1>1, <1>3, PortionNat
  <2>3. DecFee(rise, Portion(Remaining(n), class.period)) \in Nat
    BY <2>1, <2>2, <1>1, DecFeeNat
  <2>4. Truncated(DecFee(rise, Portion(Remaining(n), class.period))) \in Nat
    BY <2>3, TruncatedNat
  <2>5. QED BY <1>5, <2>4 DEF ValuationFee, rise
<1>6. CASE ~(rise > 0)
  BY <1>6 DEF ValuationFee, rise
<1>7. QED BY <1>5, <1>6

(* ... setting a valuation ... *)
LEMMA BankSetValuation ==
    ASSUME BidsInv, NEW n \in NFTs, NEW value \in Coins, SetValuation(n, value)
    PROVE  BankOK'
<1> DEFINE fee == ValuationFee(n, value)
<1>1. owner[n] \in Parties /\ value.denom \in Denoms
  BY DEF BidsInv, NamesOK, SetValuation, Minted, Coins
<1>2. fee \in Nat
  BY ValuationFeeNat
<1>3. /\ CanPay(bank, owner[n], Fee(value.denom, fee))
      /\ bank' = Pay(bank, owner[n], FeeTo, Fee(value.denom, fee))
  BY DEF SetValuation
<1> HIDE DEF fee
<1>4. Pay(bank, owner[n], FeeTo, Fee(value.denom, fee)) \in [Purses -> [Denoms -> Nat]]
  BY <1>1, <1>2, <1>3, FeePaid DEF BidsInv, BankOK
<1>5. QED BY <1>3, <1>4 DEF BankOK

(* The fee for an extension is a natural number. *)
LEMMA RenewFeeNat ==
    ASSUME BidsInv, NEW n \in NFTs, NEW payer \in Accounts, Renew(payer, n)
    PROVE  LET value == nft[n].valuation
               part  == Portion(Extended(n) - nft[n].expiry, class.period)
           IN value.denom \in Denoms /\ Truncated(DecFee(value.amount, part)) \in Nat
<1> DEFINE value == nft[n].valuation
           span  == Extended(n) - nft[n].expiry
           part  == Portion(span, class.period)
<1>1. /\ nft[n].expiry \in Nat /\ now \in Nat /\ class \in ClassData
      /\ class.period \in Nat \ {0} /\ value \in Coin \cup {NoCoin} /\ value.amount > 0
  BY DEF BidsInv, NamesOK, NFTData, ClassData, Renew, Allowed
<1>2. value.denom \in Denoms /\ value.amount \in Nat
  BY <1>1 DEF Coin, NoCoin
<1>3. span \in Nat
  BY <1>1 DEF Extended, Later
<1> HIDE DEF value, span
<1>4. part \in Nat
  BY <1>1, <1>3, PortionNat
<1> HIDE DEF part
<1>5. DecFee(value.amount, part) \in Nat
  BY <1>1, <1>2, <1>4, DecFeeNat
<1>6. Truncated(DecFee(value.amount, part)) \in Nat
  BY <1>5, TruncatedNat
<1>7. QED BY <1>2, <1>6 DEF value, part, span

(* ... and renewing. *)
LEMMA BankRenew ==
    ASSUME BidsInv, NEW n \in NFTs, NEW payer \in Accounts, Renew(payer, n)
    PROVE  BankOK'
<1> DEFINE value == nft[n].valuation
           part  == Portion(Extended(n) - nft[n].expiry, class.period)
           fee   == Truncated(DecFee(value.amount, part))
<1>1. value.denom \in Denoms /\ fee \in Nat /\ payer \in Parties
  BY RenewFeeNat DEF Parties
<1>2. /\ CanPay(bank, payer, Fee(value.denom, fee))
      /\ bank' = Pay(bank, payer, FeeTo, Fee(value.denom, fee))
  BY DEF Renew
<1> HIDE DEF value, fee
<1>3. Pay(bank, payer, FeeTo, Fee(value.denom, fee)) \in [Purses -> [Denoms -> Nat]]
  BY <1>1, <1>2, FeePaid DEF BidsInv, BankOK
<1>4. QED BY <1>2, <1>3 DEF BankOK

(* No step takes a balance below zero. *)
LEMMA BankStep == ASSUME BidsInv, Next PROVE BankOK'
<1>1. CASE bank' = bank
  BY <1>1 DEF BidsInv, BankOK
<1>2. ASSUME NEW n \in NFTs, Message(n), bank' # bank PROVE BankOK'
  <2>1. CASE \E bidder \in Accounts, coin \in Coins : PlaceBid(bidder, n, coin)
    BY <2>1, BankPlace
  <2>2. CASE AcceptBid(n)
    BY <2>2, BankAccept
  <2>3. CASE \E coin \in Coins : RejectBid(n, coin)
    BY <2>3, BankReject
  <2>4. CASE \E coin \in Coins : SetValuation(n, coin)
    BY <2>4, BankSetValuation
  <2>5. CASE ClaimBid(n)
    BY <2>5, BankClaim
  <2>6. CASE \E payer \in Accounts : Renew(payer, n)
    BY <2>6, BankRenew
  <2>7. QED
    BY <1>2, <2>1, <2>2, <2>3, <2>4, <2>5, <2>6
       DEF Message, MintNFT, BurnNFT, MoveNft, Send, SetListed
<1>3. CASE SetClass \/ ExportImport \/ Tick
  BY <1>1, <1>3 DEF SetClass, ExportImport, Tick
<1>4. QED BY <1>1, <1>2, <1>3 DEF Next

-----------------------------------------------------------------------------
(* An NFT's bid has its record.                                            *)

\* A step that leaves the ledger alone keeps the bid of an NFT that stays
\* minted, or clears it.
LEMMA QuietRecorded ==
    ASSUME BidIsRecorded, bids' = bids, activeBid' = activeBid,
           \A n \in NFTs :
              \/ /\ nft'[n].bidder = nft[n].bidder /\ nft'[n].bid = nft[n].bid
                 /\ nft[n].bidder # Nobody => owner'[n] # Nobody
              \/ nft'[n].bidder = Nobody /\ nft'[n].bid = NoCoin
    PROVE  BidIsRecorded'
BY DEF BidIsRecorded, Minted

(* Closing the current bid in the ledger and taking it off the name keeps both in step. *)
LEMMA EndRecorded ==
    ASSUME LedgerOK, BidIsRecorded, NEW n \in NFTs, NEW status, NEW fee,
           CloseBid(n, status, fee),
           nft'[n].bidder = Nobody, nft'[n].bid = NoCoin,
           \A m \in NFTs \ {n} : nft'[m] = nft[m] /\ owner'[m] = owner[m]
    PROVE  BidIsRecorded'
<1>1. /\ activeBid[n] \in DOMAIN bids /\ bids[activeBid[n]].nft = n
      /\ \A m \in NFTs \ {n} : activeBid'[m] = activeBid[m]
      /\ DOMAIN bids' = DOMAIN bids
      /\ \A id \in DOMAIN bids : id # activeBid[n] => bids'[id] = bids[id]
  BY DEF LedgerOK, LedgerTypes, LedgerSync, CloseBid
<1>2. \A m \in NFTs \ {n} :
         nft[m].bidder # Nobody => activeBid[m] # activeBid[n] /\ activeBid[m] \in DOMAIN bids
  BY <1>1 DEF BidIsRecorded
<1>3. QED BY <1>1, <1>2 DEF BidIsRecorded, Minted

(* So does placing a bid, which closes the one before it. *)
LEMMA PlaceRecorded ==
    ASSUME LedgerOK, NamesOK, BidIsRecorded, NEW n \in NFTs, NEW bidder \in Accounts,
           NEW coin \in Coins, PlaceBid(bidder, n, coin)
    PROVE  BidIsRecorded'
<1>1. bidSeq \in Nat /\ DOMAIN bids = 0 .. bidSeq - 1
  BY DEF LedgerOK, LedgerTypes
<1>2. RecordBid(n, bidder, coin) /\ owner[n] # Nobody /\ owner' = owner
  BY DEF PlaceBid, Minted
<1>3. nft' = [nft EXCEPT ![n].bidder = bidder, ![n].bid = coin, ![n].bidTime = now]
  BY DEF PlaceBid
<1>4. nft'[n].bidder = bidder /\ nft'[n].bid = coin /\ \A m \in NFTs \ {n} : nft'[m] = nft[m]
  BY <1>3 DEF NamesOK, NFTData
<1>5. bidder # Nobody /\ coin # NoCoin
  BY Actors DEF Parties, Coins, NoCoin
<1>6. /\ activeBid'[n] = bidSeq /\ \A m \in NFTs \ {n} : activeBid'[m] = activeBid[m]
      /\ DOMAIN bids' = 0 .. bidSeq
      /\ bids'[bidSeq] = NewRecord(n, bidder, coin)
      /\ \A id \in 0 .. bidSeq - 1 : id # activeBid[n] => bids'[id] = bids[id]
  BY <1>1, <1>2 DEF RecordBid, LedgerOK, LedgerTypes
<1>7. ASSUME NEW m \in NFTs, m # n, nft[m].bidder # Nobody
      PROVE  /\ activeBid[m] \in 0 .. bidSeq - 1 /\ activeBid[m] # activeBid[n]
             /\ bids'[activeBid[m]] = bids[activeBid[m]]
  <2>1. activeBid[m] \in DOMAIN bids /\ bids[activeBid[m]].nft = m
    BY <1>7 DEF BidIsRecorded
  <2>2. activeBid[n] # activeBid[m]
    BY <2>1, <1>1, <1>7 DEF LedgerOK, LedgerSync, NoBid
  <2>3. QED BY <2>1, <2>2, <1>1, <1>6
<1>8. ASSUME NEW m \in NFTs
      PROVE  /\ (nft'[m].bidder = Nobody) <=> (nft'[m].bid = NoCoin)
             /\ nft'[m].bidder # Nobody =>
                   /\ owner'[m] # Nobody /\ activeBid'[m] \in DOMAIN bids'
                   /\ bids'[activeBid'[m]].nft = m
                   /\ bids'[activeBid'[m]].status = "ACTIVE"
                   /\ bids'[activeBid'[m]].bidder = nft'[m].bidder
                   /\ bids'[activeBid'[m]].amount = nft'[m].bid
  <2>1. CASE m = n
    BY <2>1, <1>1, <1>2, <1>4, <1>5, <1>6 DEF NewRecord
  <2>2. CASE m # n
    BY <2>2, <1>1, <1>2, <1>4, <1>6, <1>7 DEF BidIsRecorded, Minted
  <2>3. QED BY <2>1, <2>2
<1>9. QED BY <1>8 DEF BidIsRecorded, Minted

\* The actions that touch the ledger, and what the others leave of it.
LEMMA OtherSteps ==
    ASSUME BidsInv, Next,
           \A n \in NFTs, bidder \in Accounts, coin \in Coins : ~PlaceBid(bidder, n, coin),
           \A n \in NFTs : ~AcceptBid(n) /\ ~ClaimBid(n),
           \A n \in NFTs, coin \in Coins : ~RejectBid(n, coin)
    PROVE  /\ bids' = bids /\ bidSeq' = bidSeq /\ activeBid' = activeBid
           /\ \A n \in NFTs :
                 \/ /\ nft'[n].bidder = nft[n].bidder /\ nft'[n].bid = nft[n].bid
                    /\ owner[n] # Nobody => owner'[n] # Nobody
                 \/ /\ nft'[n].bidder = Nobody /\ nft'[n].bid = NoCoin
                    /\ owner[n] = Nobody \/ owner'[n] = Nobody
<1> DEFINE Held(n) == /\ nft'[n].bidder = nft[n].bidder /\ nft'[n].bid = nft[n].bid
                      /\ owner[n] # Nobody => owner'[n] # Nobody
           Gone(n) == /\ nft'[n].bidder = Nobody /\ nft'[n].bid = NoCoin
                      /\ owner[n] = Nobody \/ owner'[n] = Nobody
           Kept    == /\ bids' = bids /\ bidSeq' = bidSeq /\ activeBid' = activeBid
                      /\ \A n \in NFTs : Held(n) \/ Gone(n)
<1>1. /\ owner \in [NFTs -> Parties \cup {Nobody}] /\ nft \in [NFTs -> NFTData]
      /\ now \in Nat /\ class.period \in Nat
  BY DEF BidsInv, NamesOK, ClassData
<1>2. CASE UNCHANGED <<nft, owner, ledger>>
  BY <1>2 DEF ledger
<1>3. ASSUME NEW n \in NFTs, MintNFT(n) \/ BurnNFT(n) PROVE Kept
  <2>1. now + class.period \in Nat
    BY <1>1
  <2>2. nft'[n].bidder = Nobody /\ nft'[n].bid = NoCoin
    BY <1>1, <1>3, <2>1, BlankData DEF MintNFT, BurnNFT
  <2>3. owner[n] = Nobody \/ owner'[n] = Nobody
    BY <1>1, <1>3 DEF MintNFT, BurnNFT, Minted
  <2>4. \A m \in NFTs \ {n} : nft'[m] = nft[m] /\ owner'[m] = owner[m]
    BY <1>1, <1>3 DEF MintNFT, BurnNFT
  <2>5. UNCHANGED ledger
    BY <1>3 DEF MintNFT, BurnNFT
  <2>6. QED BY <2>2, <2>3, <2>4, <2>5 DEF ledger
<1>4. ASSUME NEW n \in NFTs, NEW to \in Parties, MoveNft(n, to) \/ Send(n, to) PROVE Kept
  BY <1>1, <1>4, Actors DEF MoveNft, Send, ledger
<1>5. ASSUME NEW n \in NFTs,
             \/ \E listed \in BOOLEAN : SetListed(n, listed)
             \/ \E value \in Coins : SetValuation(n, value)
             \/ \E payer \in Accounts : Renew(payer, n)
      PROVE  Kept
  <2>1. /\ UNCHANGED <<owner, ledger>>
        /\ \/ \E listed \in BOOLEAN : nft' = [nft EXCEPT ![n].listed = listed]
           \/ \E value \in Coins : nft' = [nft EXCEPT ![n].valuation = value]
           \/ nft' = [nft EXCEPT ![n].expiry = Extended(n)]
    BY <1>5 DEF SetListed, SetValuation, Renew
  <2>2. \A m \in NFTs : nft'[m].bidder = nft[m].bidder /\ nft'[m].bid = nft[m].bid
    BY <1>1, <2>1 DEF NFTData
  <2>3. QED BY <2>1, <2>2 DEF ledger
<1>6. CASE ExportImport
  <2>1. activeBid' = activeBid
    <3>1. \A n \in NFTs : activeBid[n] = RebuiltIndex(n)
      BY SyncGivesIndex DEF BidsInv, IndexFromLedger
    <3>2. activeBid = [n \in NFTs |-> activeBid[n]]
      BY DEF BidsInv, LedgerOK, LedgerTypes
    <3>3. QED BY <1>6, <3>1, <3>2 DEF ExportImport
  <2>2. QED BY <1>6, <2>1 DEF ExportImport
<1>7. CASE SetClass \/ Tick
  BY <1>2, <1>7 DEF SetClass, Tick
<1>8. Kept
  BY <1>3, <1>4, <1>5, <1>6, <1>7 DEF Next, Message
<1>9. QED BY <1>8

\* What a step that ends the bid on an NFT does to the ledger and the names.
LEMMA EndingStep ==
    ASSUME BidsInv, NEW n \in NFTs,
           \/ AcceptBid(n) \/ ClaimBid(n) \/ \E coin \in Coins : RejectBid(n, coin)
    PROVE  /\ \E status \in Closed, fee \in Nat : CloseBid(n, status, fee)
           /\ nft'[n].bidder = Nobody /\ nft'[n].bid = NoCoin
           /\ \A m \in NFTs \ {n} : nft'[m] = nft[m] /\ owner'[m] = owner[m]
<1>1. nft \in [NFTs -> NFTData] /\ owner \in [NFTs -> Parties \cup {Nobody}] /\ now \in Nat
  BY DEF BidsInv, NamesOK
<1>2. nft[n].bidder # Nobody
  BY DEF AcceptBid, ClaimBid, RejectBid, HasBid, Claimable
<1>3. nft[n].bid \in Coin /\ nft[n] \in NFTData
  BY <1>1, <1>2, BidIsCoin DEF BidsInv
<1>4. CASE AcceptBid(n)
  <2>1. nft' = [nft EXCEPT ![n] = [Cleared(nft[n]) EXCEPT !.valuation = nft[n].bid]]
    BY <1>4 DEF AcceptBid
  <2>2. nft'[n] = [Cleared(nft[n]) EXCEPT !.valuation = nft[n].bid]
    BY <1>1, <2>1
  <2>3. nft'[n].bidder = Nobody /\ nft'[n].bid = NoCoin
    BY <1>3, <2>2 DEF Cleared, NFTData
  <2>4. CloseBid(n, "ACCEPTED", 0) /\ owner' = [owner EXCEPT ![n] = nft[n].bidder]
    BY <1>4 DEF AcceptBid
  <2>5. QED BY <1>1, <2>1, <2>3, <2>4 DEF Closed
<1>5. CASE ClaimBid(n)
  <2>1. nft' = [nft EXCEPT ![n] = [Cleared(nft[n]) EXCEPT
                   !.valuation = nft[n].bid, !.expiry = ClaimExpiry(n)]]
    BY <1>5 DEF ClaimBid
  <2>2. nft'[n] = [Cleared(nft[n]) EXCEPT !.valuation = nft[n].bid, !.expiry = ClaimExpiry(n)]
    BY <1>1, <2>1
  <2>3. ClaimExpiry(n) \in Nat
    BY <1>3, ClaimNumbers DEF BidsInv
  <2>4. nft'[n].bidder = Nobody /\ nft'[n].bid = NoCoin
    BY <1>3, <2>2 DEF Cleared, NFTData
  <2>5. CloseBid(n, "CLAIMED", 0) /\ owner' = [owner EXCEPT ![n] = nft[n].bidder]
    BY <1>5 DEF ClaimBid
  <2>6. QED BY <1>1, <2>1, <2>4, <2>5 DEF Closed
<1>6. ASSUME NEW value \in Coins, RejectBid(n, value)
      PROVE  /\ \E status \in Closed, fee \in Nat : CloseBid(n, status, fee)
             /\ nft'[n].bidder = Nobody /\ nft'[n].bid = NoCoin
             /\ \A m \in NFTs \ {n} : nft'[m] = nft[m] /\ owner'[m] = owner[m]
  <2>1. nft' = [nft EXCEPT ![n] = [Cleared(nft[n]) EXCEPT
                   !.valuation = value, !.expiry = now + Year]]
    BY <1>6 DEF RejectBid
  <2>2. nft'[n] = [Cleared(nft[n]) EXCEPT !.valuation = value, !.expiry = now + Year]
    BY <1>1, <2>1
  <2>3. now + Year \in Nat /\ value \in Coin
    BY <1>1, NumbersAssumption, MessageCoin
  <2>4. nft'[n].bidder = Nobody /\ nft'[n].bid = NoCoin
    BY <1>3, <2>2 DEF Cleared, NFTData
  <2>5. CloseBid(n, "REJECTED", RejectFee(value)) /\ owner' = owner
    BY <1>6 DEF RejectBid
  <2>6. value.amount * class.rejectFee \in Nat
    BY <2>3, ProductNat DEF BidsInv, NamesOK, ClassData, Coin
  <2>7. RejectFee(value) \in Nat
    BY <2>6, TruncatedNat DEF RejectFee
  <2>8. QED BY <1>1, <2>1, <2>4, <2>5, <2>7 DEF Closed
<1>7. QED BY <1>4, <1>5, <1>6

-----------------------------------------------------------------------------
(* The invariant holds at first ... *)
LEMMA InitInv == Init => BidsInv
<1> SUFFICES ASSUME Init PROVE BidsInv
  OBVIOUS
<1>1. BankOK
  BY NumbersAssumption DEF Init, BankOK
<1>2. NamesOK
  BY BlankData, ClassAssumption DEF Init, NamesOK
<1>3. LedgerOK
  BY DEF Init, LedgerOK, LedgerTypes, LedgerSync, OutbidChain
<1>4. BidIsRecorded
  BY BlankData DEF Init, BidIsRecorded
<1>5. QED BY <1>1, <1>2, <1>3, <1>4 DEF BidsInv

(* ... and is kept by every step. *)
LEMMA NextInv == BidsInv /\ [Next]_vars => BidsInv'
<1> SUFFICES ASSUME BidsInv, [Next]_vars PROVE BidsInv'
  OBVIOUS
<1>1. CASE UNCHANGED vars
  <2>1. LedgerOK'
    BY <1>1, SameLedger DEF vars, BidsInv
  <2>2. QED BY <1>1, <2>1 DEF vars, ledger, BidsInv, BankOK, NamesOK, BidIsRecorded, Minted
<1>2. CASE Next
  <2>1. BankOK' /\ NamesOK'
    BY <1>2, BankStep, NamesStep
  <2>2. ASSUME NEW n \in NFTs, NEW bidder \in Accounts, NEW coin \in Coins,
               PlaceBid(bidder, n, coin)
        PROVE  LedgerOK' /\ BidIsRecorded'
    <3>1. LedgerOK'
      BY <2>2, RecordKeeps, MessageCoin DEF PlaceBid, BidsInv
    <3>2. BidIsRecorded'
      BY <2>2, PlaceRecorded DEF BidsInv
    <3>3. QED BY <3>1, <3>2
  <2>3. ASSUME NEW n \in NFTs,
               \/ AcceptBid(n) \/ ClaimBid(n) \/ \E coin \in Coins : RejectBid(n, coin)
        PROVE  LedgerOK' /\ BidIsRecorded'
    <3>1. /\ nft'[n].bidder = Nobody /\ nft'[n].bid = NoCoin
          /\ \A m \in NFTs \ {n} : nft'[m] = nft[m] /\ owner'[m] = owner[m]
      BY <2>3, EndingStep
    <3>2. PICK status \in Closed, fee \in Nat : CloseBid(n, status, fee)
      BY <2>3, EndingStep
    <3>3. LedgerOK'
      BY <3>2, CloseKeeps DEF BidsInv
    <3>4. BidIsRecorded'
      BY <3>1, <3>2, EndRecorded DEF BidsInv
    <3>5. QED BY <3>3, <3>4
  <2>4. CASE /\ \A n \in NFTs, bidder \in Accounts, coin \in Coins : ~PlaceBid(bidder, n, coin)
             /\ \A n \in NFTs : ~AcceptBid(n) /\ ~ClaimBid(n)
             /\ \A n \in NFTs, coin \in Coins : ~RejectBid(n, coin)
    <3>1. /\ bids' = bids /\ bidSeq' = bidSeq /\ activeBid' = activeBid
          /\ \A n \in NFTs :
                \/ /\ nft'[n].bidder = nft[n].bidder /\ nft'[n].bid = nft[n].bid
                   /\ owner[n] # Nobody => owner'[n] # Nobody
                \/ nft'[n].bidder = Nobody /\ nft'[n].bid = NoCoin
      BY <1>2, <2>4, OtherSteps
    <3>2. \A n \in NFTs : nft[n].bidder # Nobody => owner[n] # Nobody
      BY DEF BidsInv, BidIsRecorded, Minted
    <3>3. LedgerOK'
      BY <3>1, SameLedger DEF ledger, BidsInv
    <3>4. \A n \in NFTs :
             \/ /\ nft'[n].bidder = nft[n].bidder /\ nft'[n].bid = nft[n].bid
                /\ nft[n].bidder # Nobody => owner'[n] # Nobody
             \/ nft'[n].bidder = Nobody /\ nft'[n].bid = NoCoin
      BY <3>1, <3>2
    <3>5. BidIsRecorded'
      BY <3>1, <3>4, QuietRecorded DEF BidsInv
    <3>6. QED BY <2>1, <3>3, <3>5 DEF BidsInv
  <2>5. CASE LedgerOK' /\ BidIsRecorded'
    BY <2>1, <2>5 DEF BidsInv
  <2>6. QED BY <2>2, <2>3, <2>4, <2>5
<1>3. QED BY <1>1, <1>2

\* The inductive invariant holds in every state.
THEOREM Invariance == Spec => []BidsInv
BY InitInv, NextInv, PTL DEF Spec

\* The state has its types for any settings, amounts and times: no handler of
\* the nameservice drives a balance below zero, a claim's two payments included.
THEOREM Types == Spec => []TypeOK
<1>1. BidsInv => TypeOK
  BY DEF BidsInv, BankOK, NamesOK, LedgerOK, LedgerTypes, TypeOK
<1>2. QED BY Invariance, <1>1, PTL

\* The index of active bids can be made anew from the ledger at any time, as
\* RebuildDerivedIndexes does at genesis.
THEOREM IndexRebuilds == Spec => []IndexFromLedger
<1>1. BidsInv => IndexFromLedger
  BY SyncGivesIndex DEF BidsInv
<1>2. QED BY Invariance, <1>1, PTL

\* The bid an NFT shows is the active record the index leads to, so ending it
\* (getActiveBid, closeActiveBid) never fails after the funds moved.
THEOREM BidsRecorded == Spec => []BidIsRecorded
<1>1. BidsInv => BidIsRecorded
  BY DEF BidsInv
<1>2. QED BY Invariance, <1>1, PTL

\* Outbid records are chained forward on one NFT (PlaceBid).
THEOREM OutbidsChained == Spec => []OutbidChain
<1>1. BidsInv => OutbidChain
  BY DEF BidsInv, LedgerOK
<1>2. QED BY Invariance, <1>1, PTL

-----------------------------------------------------------------------------
(* Steps: proofs of the action properties                                  *)

HistoryStep ==
    \A id \in DOMAIN bids :
        /\ id \in DOMAIN bids'
        /\ bids'[id].nft = bids[id].nft /\ bids'[id].bidder = bids[id].bidder
        /\ bids'[id].amount = bids[id].amount
        /\ bids[id].status # "ACTIVE" => bids'[id] = bids[id]

RefundStep ==
    \A n \in NFTs :
        LET who == nft[n].bidder
            bid == nft[n].bid
        IN who \notin {Nobody, owner[n], nft'[n].bidder} /\ owner'[n] \notin {Nobody, who}
           => bank'[who][bid.denom] >= bank[who][bid.denom] + bid.amount

ExpiryStep ==
    \A n \in NFTs :
        Minted(n) /\ owner'[n] # Nobody /\ nft'[n].expiry < nft[n].expiry
        => \E id \in DOMAIN bids : bids[id].nft = n /\ bids[id].status = "ACTIVE"
                                   /\ bids'[id].status = "REJECTED"

-----------------------------------------------------------------------------
(* The history of bids                                                     *)

(* Recording a bid changes no entry of the ledger but the one it outbids ... *)
LEMMA RecordHistory ==
    ASSUME LedgerOK, NEW n \in NFTs, NEW bidder, NEW coin, RecordBid(n, bidder, coin)
    PROVE  HistoryStep
<1>1. bidSeq \in Nat /\ DOMAIN bids = 0 .. bidSeq - 1
  BY DEF LedgerOK, LedgerTypes
<1>2. /\ DOMAIN bids' = 0 .. bidSeq
      /\ \A id \in 0 .. bidSeq - 1 :
            bids'[id] = IF id = activeBid[n] THEN Outbid(id) ELSE bids[id]
  BY <1>1 DEF RecordBid
<1>3. ASSUME NEW id \in DOMAIN bids, id = activeBid[n]
      PROVE  /\ bids'[id].nft = bids[id].nft /\ bids'[id].bidder = bids[id].bidder
             /\ bids'[id].amount = bids[id].amount /\ bids[id].status = "ACTIVE"
  <2>1. bids'[id] = Outbid(id) /\ bids[id] \in BidRecord
    BY <1>1, <1>2, <1>3 DEF LedgerOK, LedgerTypes
  <2>2. bids[id].status = "ACTIVE"
    BY <1>1, <1>3 DEF LedgerOK, LedgerSync, NoBid
  <2>3. QED BY <2>1, <2>2 DEF Outbid, BidRecord
<1>4. QED BY <1>1, <1>2, <1>3 DEF HistoryStep

(* ... and closing one changes no other. *)
LEMMA CloseHistory ==
    ASSUME LedgerOK, NEW n \in NFTs, NEW status, NEW fee, CloseBid(n, status, fee)
    PROVE  HistoryStep
<1> DEFINE gone == activeBid[n]
<1>1. gone \in DOMAIN bids /\ bids[gone].status = "ACTIVE" /\ bids[gone] \in BidRecord
  BY DEF LedgerOK, LedgerTypes, LedgerSync, CloseBid
<1>2. /\ DOMAIN bids' = DOMAIN bids
      /\ \A id \in DOMAIN bids : id # gone => bids'[id] = bids[id]
      /\ bids'[gone].nft = bids[gone].nft /\ bids'[gone].bidder = bids[gone].bidder
      /\ bids'[gone].amount = bids[gone].amount
  BY <1>1 DEF CloseBid, BidRecord
<1>3. QED BY <1>1, <1>2 DEF HistoryStep

\* No message rewrites the ledger: what a record says of a bid stays, and so
\* does everything in it once the bid is over (updateBidStatus is only called
\* through the index of active bids).
THEOREM HistoryHolds == Spec => HistoryKept
<1>1. BidsInv /\ [Next]_vars => [HistoryStep]_vars
  <2> SUFFICES ASSUME BidsInv, Next PROVE HistoryStep
    OBVIOUS
  <2>1. ASSUME NEW n \in NFTs, NEW bidder \in Accounts, NEW coin \in Coins,
               PlaceBid(bidder, n, coin)
        PROVE  HistoryStep
    BY <2>1, RecordHistory DEF PlaceBid, BidsInv
  <2>2. ASSUME NEW n \in NFTs,
               \/ AcceptBid(n) \/ ClaimBid(n) \/ \E coin \in Coins : RejectBid(n, coin)
        PROVE  HistoryStep
    <3>1. PICK status \in Closed, fee \in Nat : CloseBid(n, status, fee)
      BY <2>2, EndingStep
    <3>2. QED BY <3>1, CloseHistory DEF BidsInv
  <2>3. CASE /\ \A n \in NFTs, bidder \in Accounts, coin \in Coins : ~PlaceBid(bidder, n, coin)
             /\ \A n \in NFTs : ~AcceptBid(n) /\ ~ClaimBid(n)
             /\ \A n \in NFTs, coin \in Coins : ~RejectBid(n, coin)
    <3>1. bids' = bids
      BY <2>3, OtherSteps
    <3>2. QED BY <3>1 DEF HistoryStep
  <2>4. QED BY <2>1, <2>2, <2>3
<1>2. QED BY <1>1, Invariance, PTL DEF Spec, HistoryKept, HistoryStep

-----------------------------------------------------------------------------
(* Refunds                                                                 *)

\* Whoever neither is the escrow nor pays has the refund of its bid.
LEMMA RefundArrives ==
    ASSUME BankOK, NamesOK, BidIsRecorded, NEW n \in NFTs, nft[n].bidder # Nobody,
           NEW from \in Purses, NEW to \in Purses, NEW coin,
           coin.denom \in Denoms, coin.amount \in Nat, from # nft[n].bidder,
           LET refunded == Pay(bank, Escrow, nft[n].bidder, nft[n].bid)
           IN bank' = Pay(refunded, from, to, coin)
    PROVE  bank'[nft[n].bidder][nft[n].bid.denom]
              >= bank[nft[n].bidder][nft[n].bid.denom] + nft[n].bid.amount
<1> DEFINE who == nft[n].bidder
           bid == nft[n].bid
           refunded == Pay(bank, Escrow, who, bid)
<1>1. /\ who \in Purses /\ who # Escrow /\ Escrow \in Purses
      /\ bid.denom \in Denoms /\ bid.amount \in Nat
  BY BidIsCoin, Actors, PartiesAssumption DEF Parties
<1>2. bank \in [Purses -> [Denoms -> Nat]] /\ bank' = Pay(refunded, from, to, coin)
  BY DEF BankOK
<1> HIDE DEF who, bid
<1>3. /\ refunded \in [Purses -> [Denoms -> Int]]
      /\ refunded[who][bid.denom] = bank[who][bid.denom] + bid.amount
  <2> DEFINE taken == Take(bank, Escrow, bid)
  <2>1. taken \in [Purses -> [Denoms -> Int]] /\ taken[who] = bank[who]
    BY <1>1, <1>2 DEF Take
  <2>2. refunded = Put(taken, who, bid)
    BY DEF Pay
  <2> HIDE DEF taken
  <2>3. QED BY <1>1, <2>1, <2>2 DEF Put
<1> HIDE DEF refunded
<1>4. from # who
  BY DEF who
<1>5. bank'[who][bid.denom] >= refunded[who][bid.denom]
  <2> DEFINE taken == Take(refunded, from, coin)
  <2>1. taken \in [Purses -> [Denoms -> Int]] /\ taken[who] = refunded[who]
    BY <1>1, <1>3, <1>4 DEF Take
  <2>2. bank' = Put(taken, to, coin)
    BY <1>2 DEF Pay
  <2> HIDE DEF taken
  <2>3. QED BY <1>1, <1>3, <2>1, <2>2 DEF Put
<1>6. bank'[who][bid.denom] >= bank[who][bid.denom] + bid.amount
  BY <1>3, <1>5
<1>7. QED BY <1>6 DEF who, bid

(* A bidder who is outbid by another has the coins of the bid back. *)
LEMMA PlaceRefunds ==
    ASSUME BidsInv, NEW n \in NFTs, NEW bidder \in Accounts, NEW coin \in Coins,
           PlaceBid(bidder, n, coin), nft[n].bidder \notin {Nobody, nft'[n].bidder}
    PROVE  bank'[nft[n].bidder][nft[n].bid.denom]
              >= bank[nft[n].bidder][nft[n].bid.denom] + nft[n].bid.amount
<1>1. nft'[n].bidder = bidder
  BY DEF PlaceBid, BidsInv, NamesOK, NFTData
<1>2. Refunds(n, bidder) /\ bidder # nft[n].bidder /\ nft[n].bidder # Nobody
  BY <1>1 DEF Refunds
<1>3. bank' = Pay(Pay(bank, Escrow, nft[n].bidder, nft[n].bid), bidder, Escrow, coin)
  BY <1>2 DEF PlaceBid, AfterRefund
<1>4. bidder \in Purses /\ Escrow \in Purses
  BY Actors
<1>5. coin.denom \in Denoms /\ coin.amount \in Nat
  BY NumbersAssumption DEF Coins
<1>6. QED BY <1>2, <1>3, <1>4, <1>5, RefundArrives DEF BidsInv

(* So does one whose bid is rejected. *)
LEMMA RejectRefunds ==
    ASSUME BidsInv, NEW n \in NFTs, NEW value \in Coins, RejectBid(n, value),
           nft[n].bidder # owner[n]
    PROVE  bank'[nft[n].bidder][nft[n].bid.denom]
              >= bank[nft[n].bidder][nft[n].bid.denom] + nft[n].bid.amount
<1> DEFINE fee == Fee(value.denom, RejectFee(value))
<1>1. nft[n].bidder # Nobody
  BY DEF RejectBid, HasBid
<1>2. bank' = Pay(Pay(bank, Escrow, nft[n].bidder, nft[n].bid), owner[n], FeeTo, fee)
  BY DEF RejectBid
<1>3. owner[n] \in Purses /\ FeeTo \in Purses
  BY <1>1, BidIsCoin, Actors DEF BidsInv
<1>4. fee.denom \in Denoms /\ fee.amount \in Nat
  <2>1. value.denom \in Denoms /\ value.amount \in Nat /\ class.rejectFee \in Nat
    BY NumbersAssumption DEF Coins, BidsInv, NamesOK, ClassData
  <2>2. value.amount * class.rejectFee \in Nat
    BY <2>1, ProductNat
  <2>3. RejectFee(value) \in Nat
    BY <2>2, TruncatedNat DEF RejectFee
  <2>4. QED BY <2>1, <2>3 DEF Fee
<1> HIDE DEF fee
<1>5. QED BY <1>1, <1>2, <1>3, <1>4, RefundArrives DEF BidsInv

\* A bidder who is outbid or rejected has the whole bid back in that very step,
\* whatever fee or new bid is paid along with it.
THEOREM LosersAreRefunded == Spec => LoserIsRefunded
<1>1. BidsInv /\ [Next]_vars => [RefundStep]_vars
  <2> SUFFICES ASSUME BidsInv, Next, NEW n \in NFTs,
                      nft[n].bidder \notin {Nobody, owner[n], nft'[n].bidder},
                      owner'[n] \notin {Nobody, nft[n].bidder}
               PROVE  bank'[nft[n].bidder][nft[n].bid.denom]
                         >= bank[nft[n].bidder][nft[n].bid.denom] + nft[n].bid.amount
    BY DEF RefundStep
  <2> DEFINE Goal == bank'[nft[n].bidder][nft[n].bid.denom]
                         >= bank[nft[n].bidder][nft[n].bid.denom] + nft[n].bid.amount
  <2>1. ASSUME NEW m \in NFTs, NEW bidder \in Accounts, NEW coin \in Coins,
               PlaceBid(bidder, m, coin)
        PROVE  Goal
    <3>1. m = n
      BY <2>1 DEF PlaceBid, BidsInv, NamesOK
    <3>2. QED BY <2>1, <3>1, PlaceRefunds
  <2>2. ASSUME NEW m \in NFTs,
               \/ AcceptBid(m) \/ ClaimBid(m) \/ \E coin \in Coins : RejectBid(m, coin)
        PROVE  Goal
    <3>1. m = n
      BY <2>2, EndingStep
    <3>2. ~AcceptBid(m) /\ ~ClaimBid(m)
      BY <3>1 DEF AcceptBid, ClaimBid, BidsInv, NamesOK
    <3>3. QED BY <2>2, <3>1, <3>2, RejectRefunds
  <2>3. CASE /\ \A m \in NFTs, bidder \in Accounts, coin \in Coins : ~PlaceBid(bidder, m, coin)
             /\ \A m \in NFTs : ~AcceptBid(m) /\ ~ClaimBid(m)
             /\ \A m \in NFTs, coin \in Coins : ~RejectBid(m, coin)
    <3>1. owner[n] = Nobody
      BY <2>3, OtherSteps
    <3>2. QED BY <3>1 DEF BidsInv, BidIsRecorded, Minted
  <2>4. QED BY <2>1, <2>2, <2>3
<1>2. QED BY <1>1, Invariance, PTL DEF Spec, LoserIsRefunded, RefundStep

-----------------------------------------------------------------------------
(* Expiry                                                                  *)

\* A renewal, a claim and every other step but a rejection keep what was paid.
THEOREM PaidTimeIsKept == Spec => ExpiryKept
<1>1. BidsInv /\ [Next]_vars => [ExpiryStep]_vars
  <2> SUFFICES ASSUME BidsInv, Next, NEW n \in NFTs, Minted(n), owner'[n] # Nobody,
                      nft'[n].expiry < nft[n].expiry
               PROVE  \E id \in DOMAIN bids : bids[id].nft = n /\ bids[id].status = "ACTIVE"
                                              /\ bids'[id].status = "REJECTED"
    BY DEF ExpiryStep
  <2> DEFINE Goal == \E id \in DOMAIN bids : bids[id].nft = n /\ bids[id].status = "ACTIVE"
                                             /\ bids'[id].status = "REJECTED"
  <2>1. /\ nft \in [NFTs -> NFTData] /\ nft[n].expiry \in Nat /\ now \in Nat
        /\ class.period \in Nat \ {0} /\ owner \in [NFTs -> Parties \cup {Nobody}]
    BY DEF BidsInv, NamesOK, NFTData, ClassData
  <2>2. nft'[n].expiry # nft[n].expiry /\ nft' # nft
    BY <2>1
  <2>3. ASSUME NEW m \in NFTs, MintNFT(m) \/ BurnNFT(m) PROVE FALSE
    <3>1. m = n
      BY <2>1, <2>2, <2>3 DEF MintNFT, BurnNFT
    <3>2. CASE MintNFT(m)
      BY <3>1, <3>2 DEF MintNFT
    <3>3. CASE BurnNFT(m)
      BY <2>1, <3>1, <3>3 DEF BurnNFT
    <3>4. QED BY <2>3, <3>2, <3>3
  <2>4. ASSUME NEW m \in NFTs,
               \/ \E to \in Parties : MoveNft(m, to) \/ Send(m, to)
               \/ \E listed \in BOOLEAN : SetListed(m, listed)
               \/ \E bidder \in Accounts, coin \in Coins : PlaceBid(bidder, m, coin)
               \/ \E value \in Coins : SetValuation(m, value)
        PROVE  FALSE
    <3>1. \/ nft' = nft
          \/ \E listed \in BOOLEAN : nft' = [nft EXCEPT ![m].listed = listed]
          \/ \E bidder \in Accounts, coin \in Coins :
                nft' = [nft EXCEPT ![m].bidder = bidder, ![m].bid = coin, ![m].bidTime = now]
          \/ \E value \in Coins : nft' = [nft EXCEPT ![m].valuation = value]
      BY <2>4 DEF MoveNft, Send, SetListed, PlaceBid, SetValuation
    <3>2. ASSUME NEW listed \in BOOLEAN, nft' = [nft EXCEPT ![m].listed = listed] PROVE FALSE
      BY <2>1, <2>2, <3>2 DEF NFTData
    <3>3. ASSUME NEW bidder \in Accounts, NEW coin \in Coins,
                 nft' = [nft EXCEPT ![m].bidder = bidder, ![m].bid = coin, ![m].bidTime = now]
          PROVE  FALSE
      BY <2>1, <2>2, <3>3 DEF NFTData
    <3>4. ASSUME NEW value \in Coins, nft' = [nft EXCEPT ![m].valuation = value] PROVE FALSE
      BY <2>1, <2>2, <3>4 DEF NFTData
    <3>5. QED BY <2>2, <3>1, <3>2, <3>3, <3>4
  <2>5. ASSUME NEW m \in NFTs, NEW payer \in Accounts, Renew(payer, m) PROVE FALSE
    <3>1. nft' = [nft EXCEPT ![m].expiry = Extended(m)]
      BY <2>5 DEF Renew
    <3>2. m = n /\ nft'[n].expiry = Extended(n)
      BY <2>1, <2>2, <3>1 DEF NFTData
    <3>3. QED BY <2>1, <3>2 DEF Extended, Later
  <2>6. ASSUME NEW m \in NFTs, AcceptBid(m) PROVE FALSE
    <3>1. nft' = [nft EXCEPT ![m] = [Cleared(nft[m]) EXCEPT !.valuation = nft[m].bid]]
      BY <2>6 DEF AcceptBid
    <3>2. m = n
      BY <2>1, <2>2, <3>1
    <3>3. nft'[n] = [Cleared(nft[n]) EXCEPT !.valuation = nft[n].bid]
      BY <2>1, <3>1, <3>2
    <3>4. nft'[n].expiry = nft[n].expiry
      BY <2>1, <3>3 DEF Cleared, NFTData
    <3>5. QED BY <2>2, <3>4
  <2>7. ASSUME NEW m \in NFTs, ClaimBid(m) PROVE FALSE
    <3>1. nft' = [nft EXCEPT ![m] = [Cleared(nft[m]) EXCEPT
                     !.valuation = nft[m].bid, !.expiry = ClaimExpiry(m)]]
      BY <2>7 DEF ClaimBid
    <3>2. m = n
      BY <2>1, <2>2, <3>1
    <3>3. nft'[n] = [Cleared(nft[n]) EXCEPT !.valuation = nft[n].bid,
                                            !.expiry = ClaimExpiry(n)]
      BY <2>1, <3>1, <3>2
    <3>4. nft'[n].expiry = ClaimExpiry(n)
      BY <2>1, <3>3 DEF Cleared, NFTData
    <3>5. nft[n].bidder # Nobody
      BY <2>7, <3>2 DEF ClaimBid, Claimable
    <3>6. nft[n].bid \in Coin
      BY <3>5, BidIsCoin DEF BidsInv
    <3>7. ClaimExpiry(n) \in Nat /\ ClaimExpiry(n) >= nft[n].expiry
      BY <3>6, ClaimNumbers DEF BidsInv
    <3>8. QED BY <2>1, <3>4, <3>7
  <2>8. ASSUME NEW m \in NFTs, NEW value \in Coins, RejectBid(m, value) PROVE Goal
    <3>1. m = n
      BY <2>1, <2>2, <2>8 DEF RejectBid
    <3>2. CloseBid(n, "REJECTED", RejectFee(value))
      BY <2>8, <3>1 DEF RejectBid
    <3>3. /\ activeBid[n] \in DOMAIN bids /\ bids[activeBid[n]].nft = n
          /\ bids[activeBid[n]].status = "ACTIVE" /\ bids[activeBid[n]] \in BidRecord
      BY <3>2 DEF CloseBid, BidsInv, LedgerOK, LedgerTypes, LedgerSync
    <3>4. bids'[activeBid[n]].status = "REJECTED"
      BY <3>2, <3>3 DEF CloseBid, BidRecord
    <3>5. QED BY <3>3, <3>4
  <2>9. ~SetClass /\ ~ExportImport /\ ~Tick
    BY <2>2 DEF SetClass, ExportImport, Tick
  <2>10. QED
    BY <2>3, <2>4, <2>5, <2>6, <2>7, <2>8, <2>9 DEF Next, Message
<1>2. QED BY <1>1, Invariance, PTL DEF Spec, ExpiryKept, ExpiryStep

-----------------------------------------------------------------------------
(* The class's settings and time                                           *)

\* A setting comes from the settings a class may be given.
LEMMA SettingsMove ==
    ASSUME class \in ClassData, [Next]_vars
    PROVE  \/ class' = class
           \/ \E c \in ClassSettings : /\ class'.period \in {class.period, c.period}
                                       /\ class'.feePct \in {class.feePct, c.feePct}
<1>1. CASE SetClass
  <2>1. PICK c \in ClassSettings :
           \/ SetNFTClassAlwaysListed(c)
           \/ SetNFTClassBidTimeout(c)
           \/ SetNFTClassMinimumBidPercentIncrease(c)
           \/ SetNFTClassRejectBidValuationFeePercent(c)
           \/ SetNFTClassValuationFeePct(c)
           \/ SetNFTClassValuationPeriod(c)
           \/ SetNFTClassAllowedDenoms(c)
    BY <1>1 DEF SetClass
  <2>2. class'.period \in {class.period, c.period} /\ class'.feePct \in {class.feePct, c.feePct}
    BY <2>1 DEF ClassData, SetNFTClassAlwaysListed, SetNFTClassBidTimeout,
           SetNFTClassMinimumBidPercentIncrease, SetNFTClassRejectBidValuationFeePercent,
           SetNFTClassValuationFeePct, SetNFTClassValuationPeriod, SetNFTClassAllowedDenoms
  <2>3. QED BY <2>2
<1>2. ASSUME NEW n \in NFTs, Message(n) PROVE class' = class
  <2>1. \A to \in Parties : MoveNft(n, to) \/ Send(n, to) => class' = class
    BY DEF MoveNft, Send
  <2>2. \A listed \in BOOLEAN : SetListed(n, listed) => class' = class
    BY DEF SetListed
  <2>3. \A bidder \in Accounts, coin \in Coins : PlaceBid(bidder, n, coin) => class' = class
    BY DEF PlaceBid
  <2>4. \A coin \in Coins : RejectBid(n, coin) \/ SetValuation(n, coin) => class' = class
    BY DEF RejectBid, SetValuation
  <2>5. \A payer \in Accounts : Renew(payer, n) => class' = class
    BY DEF Renew
  <2>6. MintNFT(n) \/ BurnNFT(n) \/ AcceptBid(n) \/ ClaimBid(n) => class' = class
    BY DEF MintNFT, BurnNFT, AcceptBid, ClaimBid
  <2>7. QED BY <1>2, <2>1, <2>2, <2>3, <2>4, <2>5, <2>6 DEF Message
<1>3. CASE ExportImport \/ Tick \/ UNCHANGED vars
  BY <1>3 DEF ExportImport, Tick, vars
<1>4. QED BY <1>1, <1>2, <1>3 DEF Next

(* Time does not go back. *)
LEMMA TimeMoves == ASSUME now \in Nat, [Next]_vars PROVE now' \in Nat /\ now' >= now
<1>1. CASE Tick
  BY <1>1 DEF Tick
<1>2. ASSUME NEW n \in NFTs, Message(n) PROVE now' = now
  <2>1. \A to \in Parties : MoveNft(n, to) \/ Send(n, to) => now' = now
    BY DEF MoveNft, Send
  <2>2. \A listed \in BOOLEAN : SetListed(n, listed) => now' = now
    BY DEF SetListed
  <2>3. \A bidder \in Accounts, coin \in Coins : PlaceBid(bidder, n, coin) => now' = now
    BY DEF PlaceBid
  <2>4. \A coin \in Coins : RejectBid(n, coin) \/ SetValuation(n, coin) => now' = now
    BY DEF RejectBid, SetValuation
  <2>5. \A payer \in Accounts : Renew(payer, n) => now' = now
    BY DEF Renew
  <2>6. MintNFT(n) \/ BurnNFT(n) \/ AcceptBid(n) \/ ClaimBid(n) => now' = now
    BY DEF MintNFT, BurnNFT, AcceptBid, ClaimBid
  <2>7. QED BY <1>2, <2>1, <2>2, <2>3, <2>4, <2>5, <2>6 DEF Message
<1>3. CASE SetClass \/ ExportImport \/ UNCHANGED vars
  BY <1>3 DEF SetClass, ExportImport, vars
<1>4. QED BY <1>1, <1>2, <1>3 DEF Next

-----------------------------------------------------------------------------
(* What a claim costs                                                      *)

\* the valuation fee of any settings is at most half the value per period
ModestFees == \A c \in ClassSettings : 2 * c.feePct <= DecOne

(* Products grow with their factors. *)
LEMMA ProductMono ==
    ASSUME NEW a \in Nat, NEW b \in Nat, NEW c \in Nat, a <= b
    PROVE  a * c <= b * c
OBVIOUS

(* A quotient is no larger than what the dividend is at most, in divisors. *)
LEMMA QuotientBound ==
    ASSUME NEW n \in Nat, NEW d \in Nat \ {0}, NEW m \in Nat, n <= m * d
    PROVE  n \div d <= m
<1> DEFINE q == n \div d
<1>1. q \in Nat /\ d * q <= n
  OBVIOUS
<1> HIDE DEF q
<1>2. SUFFICES ASSUME q >= m + 1 PROVE FALSE
  BY <1>1 DEF q
<1>3. (m + 1) * d <= q * d
  BY <1>1, <1>2, ProductMono
<1>4. (m + 1) * d = m * d + d /\ q * d = d * q /\ m * d \in Nat
  BY <1>1
<1>5. QED BY <1>1, <1>3, <1>4

\* Rounding does not pass a bound that is a whole number.
LEMMA HalfEvenBound ==
    ASSUME NEW n \in Nat, NEW d \in Nat \ {0}, NEW m \in Nat, n <= m * d
    PROVE  HalfEven(n, d) <= m
<1> DEFINE q == n \div d
           r == n % d
<1>1. q \in Nat /\ r \in Nat /\ n = d * q + r
  OBVIOUS
<1>2. q <= m
  BY QuotientBound
<1> HIDE DEF q, r
<1>3. CASE q < m
  BY <1>1, <1>3 DEF HalfEven, q, r
<1>4. CASE q = m
  <2>1. d * q = m * d
    BY <1>4, <1>1
  <2>2. m * d \in Nat
    BY ProductNat
  <2>3. r = 0
    BY <1>1, <2>1, <2>2
  <2>4. HalfEven(n, d) = q
    BY <2>3 DEF HalfEven, q, r
  <2>5. QED BY <2>4, <1>4
<1>5. QED BY <1>1, <1>2, <1>3, <1>4

\* The rest of a period is at most the whole of it.
LEMMA PortionBound ==
    ASSUME NEW seconds \in Nat, NEW period \in Nat \ {0}, seconds <= period
    PROVE  Portion(seconds, period) <= DecOne
<1> DEFINE one == DecOne * DecOne
<1>1. DecOne \in Nat \ {0} /\ one \in Nat
  BY NumbersAssumption, ProductNat
<1>2. seconds * DecOne * DecOne = seconds * one
  BY <1>1
<1>3. one = DecOne * DecOne
  OBVIOUS
<1> HIDE DEF one
<1>4. seconds * one <= period * one /\ period * one = one * period /\ seconds * one \in Nat
  BY <1>1, ProductMono, ProductNat
<1>5. (seconds * one) \div period <= one /\ (seconds * one) \div period \in Nat
  BY <1>1, <1>4, QuotientBound
<1>6. HalfEven((seconds * one) \div period, DecOne) <= DecOne
  BY <1>1, <1>3, <1>5, HalfEvenBound
<1>7. QED BY <1>2, <1>6 DEF Portion

(* A fee is at most the whole percentage. *)
LEMMA DecFeeBound ==
    ASSUME class \in ClassData, NEW amount \in Nat, NEW portion \in Nat, portion <= DecOne
    PROVE  DecFee(amount, portion) <= amount * class.feePct
<1> DEFINE full == amount * class.feePct
<1>1. full \in Nat /\ DecOne \in Nat \ {0}
  BY NumbersAssumption, ProductNat DEF ClassData
<1> HIDE DEF full
<1>2. portion * full <= DecOne * full
  BY <1>1, ProductMono
<1>3. full * portion \in Nat /\ full * portion <= full * DecOne
  BY <1>1, <1>2, ProductNat
<1>4. HalfEven(full * portion, DecOne) <= full
  BY <1>1, <1>3, HalfEvenBound
<1>5. QED BY <1>4 DEF DecFee, full

(* Where the percentage is at most a half, the fee of a claim is at most the bid. *)
LEMMA FeeBelowBid ==
    ASSUME NamesOK, BidIsRecorded, 2 * class.feePct <= DecOne,
           NEW n \in NFTs, nft[n].bidder # Nobody
    PROVE  ClaimFee(n) <= nft[n].bid.amount
<1> DEFINE bid  == nft[n].bid.amount
           pct  == class.feePct
           rise == bid - nft[n].valuation.amount
           rest == IF CanExtend(n) THEN Remaining(n) ELSE class.period
<1>1. /\ nft[n].expiry \in Nat /\ now \in Nat /\ class \in ClassData
      /\ class.period \in Nat \ {0} /\ pct \in Nat
      /\ nft[n].valuation.amount \in Nat /\ DecOne \in Nat \ {0}
  BY NumbersAssumption DEF NamesOK, NFTData, ClassData, Coin, NoCoin
<1>2. bid \in Nat
  BY BidIsCoin
<1>3. bid * pct \in Nat
  BY <1>1, <1>2, ProductNat
<1>4. SurplusFee(n) <= bid * pct /\ SurplusFee(n) \in Nat
  <2>1. CASE rise > 0 /\ Remaining(n) > 0
    <3>1. rise \in Nat /\ rise <= bid
      BY <1>1, <1>2, <2>1
    <3>2. rest \in Nat /\ rest <= class.period
      BY <1>1, <2>1 DEF Remaining, CanExtend
    <3>3. SurplusFee(n) = DecFee(rise, Portion(rest, class.period))
      BY <2>1 DEF SurplusFee
    <3> HIDE DEF bid, rise, rest
    <3>4. Portion(rest, class.period) \in Nat /\ Portion(rest, class.period) <= DecOne
      BY <1>1, <3>2, PortionNat, PortionBound
    <3>5. /\ DecFee(rise, Portion(rest, class.period)) \in Nat
          /\ DecFee(rise, Portion(rest, class.period)) <= rise * pct
      BY <1>1, <3>1, <3>4, DecFeeNat, DecFeeBound
    <3>6. rise * pct <= bid * pct /\ rise * pct \in Nat
      BY <1>1, <1>2, <3>1, ProductMono, ProductNat
    <3>7. QED BY <1>3, <3>3, <3>5, <3>6
  <2>2. CASE ~(rise > 0 /\ Remaining(n) > 0)
    <3>1. SurplusFee(n) = 0
      BY <2>2 DEF SurplusFee
    <3>2. QED BY <1>3, <3>1
  <2>3. QED BY <2>1, <2>2
<1>5. RenewalFee(n) <= bid * pct /\ RenewalFee(n) \in Nat
  BY <1>3 DEF RenewalFee
<1> HIDE DEF bid, pct
<1>6. SurplusFee(n) + RenewalFee(n) <= bid * DecOne
  <2>1. (2 * pct) * bid <= DecOne * bid
    BY <1>1, <1>2, ProductMono DEF pct
  <2>2. (2 * pct) * bid = bid * pct + bid * pct /\ DecOne * bid = bid * DecOne
    BY <1>1, <1>2
  <2>3. bid * DecOne \in Nat
    BY <1>1, <1>2, ProductNat
  <2>4. QED BY <1>3, <1>4, <1>5, <2>1, <2>2, <2>3
<1>7. SurplusFee(n) + RenewalFee(n) \in Nat
  BY <1>4, <1>5
<1>8. Truncated(SurplusFee(n) + RenewalFee(n)) <= bid
  BY <1>1, <1>2, <1>6, <1>7, QuotientBound DEF Truncated
<1>9. QED BY <1>8 DEF ClaimFee, bid

\* Whatever the amounts, the times and the rounding, and whenever the class was
\* changed: with fees of at most half the value per period the two fees of a claim never
\* exceed the bid they are subtracted from (ClaimBid's Coins.Sub).
THEOREM ClaimFeesFit == ModestFees => (Spec => []ClaimFeeFits)
<1> SUFFICES ASSUME ModestFees PROVE Spec => []ClaimFeeFits
  OBVIOUS
<1> DEFINE Modest == 2 * class.feePct <= DecOne
<1>1. Init => Modest
  BY ClassAssumption DEF Init, ModestFees
<1>2. BidsInv /\ Modest /\ [Next]_vars => Modest'
  <2> SUFFICES ASSUME BidsInv, Modest, [Next]_vars PROVE Modest'
    OBVIOUS
  <2>1. class' = class \/ \E c \in ClassSettings : class'.feePct \in {class.feePct, c.feePct}
    BY SettingsMove DEF BidsInv, NamesOK
  <2>2. QED BY <2>1 DEF ModestFees
<1>3. BidsInv /\ Modest => ClaimFeeFits
  <2> SUFFICES ASSUME BidsInv, Modest, NEW n \in NFTs, Claimable(n)
               PROVE  ClaimFee(n) <= nft[n].bid.amount
    BY DEF ClaimFeeFits
  <2>1. nft[n].bidder # Nobody
    BY DEF Claimable
  <2>2. QED BY <2>1, FeeBelowBid DEF BidsInv
<1>4. QED BY <1>1, <1>2, <1>3, Invariance, PTL DEF Spec

-----------------------------------------------------------------------------
(* How far an expiry may be                                                *)

(* The longest period is one, if the settings are finitely many, as those of a fixed width are. *)
LEMMA LongestIsIt ==
    ASSUME IsFiniteSet(ClassSettings)
    PROVE  Longest \in Nat /\ \A c \in ClassSettings : c.period <= Longest
<1> DEFINE P == {c.period : c \in ClassSettings}
<1>1. P \in SUBSET Nat /\ P # {}
  BY ClassAssumption DEF ClassData
<1>2. IsFiniteSet(P)
  <2> DEFINE period == [c \in ClassSettings |-> c.period]
  <2>1. period \in Surjection(ClassSettings, P)
    BY DEF Surjection
  <2> HIDE DEF period, P
  <2>2. QED BY <2>1, FS_Surjection
<1> HIDE DEF P
<1>3. \E x \in P : \A y \in P : x >= y
  BY <1>1, <1>2, GreatestExists
<1>4. Max(P) \in P /\ \A y \in P : Max(P) >= y
  BY <1>3 DEF Max
<1>5. Longest = Max(P)
  BY DEF Longest, P
<1>6. Longest \in Nat /\ \A y \in P : y <= Longest
  BY <1>1, <1>4, <1>5
<1>7. QED BY <1>6 DEF P

\* What a step makes of an expiry.
LEMMA ExpiryMoves ==
    ASSUME BidsInv, Next, NEW n \in NFTs
    PROVE  \/ nft'[n].expiry = nft[n].expiry
           \/ nft'[n].expiry = 0
           \/ nft'[n].expiry = now + class.period
           \/ nft'[n].expiry = Extended(n) /\ CanExtend(n)
           \/ nft'[n].expiry = now + Year
<1> DEFINE Goal == \/ nft'[n].expiry = nft[n].expiry
                   \/ nft'[n].expiry = 0
                   \/ nft'[n].expiry = now + class.period
                   \/ nft'[n].expiry = Extended(n) /\ CanExtend(n)
                   \/ nft'[n].expiry = now + Year
<1>1. nft \in [NFTs -> NFTData] /\ nft[n] \in NFTData
  BY DEF BidsInv, NamesOK
<1>2. CASE nft'[n] = nft[n]
  BY <1>2
<1>3. ASSUME MintNFT(n) \/ BurnNFT(n) PROVE Goal
  BY <1>1, <1>3 DEF MintNFT, BurnNFT, Blank
<1>4. ASSUME NEW bidder \in Accounts, NEW coin \in Coins, PlaceBid(bidder, n, coin) PROVE Goal
  <2>1. nft'[n] = [nft[n] EXCEPT !.bidder = bidder, !.bid = coin, !.bidTime = now]
    BY <1>1, <1>4 DEF PlaceBid, NFTData
  <2>2. QED BY <1>1, <2>1 DEF NFTData
<1>5. ASSUME NEW coin \in Coins, SetValuation(n, coin) PROVE Goal
  <2>1. nft'[n] = [nft[n] EXCEPT !.valuation = coin]
    BY <1>1, <1>5 DEF SetValuation
  <2>2. QED BY <1>1, <2>1 DEF NFTData
<1>6. ASSUME NEW listed \in BOOLEAN, SetListed(n, listed) PROVE Goal
  <2>1. nft'[n] = [nft[n] EXCEPT !.listed = listed]
    BY <1>1, <1>6 DEF SetListed
  <2>2. QED BY <1>1, <2>1 DEF NFTData
<1>7. ASSUME NEW payer \in Accounts, Renew(payer, n) PROVE Goal
  <2>1. nft'[n] = [nft[n] EXCEPT !.expiry = Extended(n)] /\ CanExtend(n)
    BY <1>1, <1>7 DEF Renew
  <2>2. QED BY <1>1, <2>1 DEF NFTData
<1>8. ASSUME AcceptBid(n) PROVE Goal
  <2>1. nft'[n] = [Cleared(nft[n]) EXCEPT !.valuation = nft[n].bid]
    BY <1>1, <1>8 DEF AcceptBid
  <2>2. QED BY <1>1, <2>1 DEF Cleared, NFTData
<1>9. ASSUME NEW coin \in Coins, RejectBid(n, coin) PROVE Goal
  <2>1. nft'[n] = [Cleared(nft[n]) EXCEPT !.valuation = coin, !.expiry = now + Year]
    BY <1>1, <1>9 DEF RejectBid
  <2>2. QED BY <1>1, <2>1 DEF Cleared, NFTData
<1>10. ASSUME ClaimBid(n) PROVE Goal
  <2>1. nft'[n] = [Cleared(nft[n]) EXCEPT !.valuation = nft[n].bid, !.expiry = ClaimExpiry(n)]
    BY <1>1, <1>10 DEF ClaimBid
  <2>2. nft'[n].expiry = ClaimExpiry(n)
    BY <1>1, <2>1 DEF Cleared, NFTData
  <2>3. QED BY <2>2 DEF ClaimExpiry
<1>11. ASSUME NEW m \in NFTs, Message(m) PROVE Goal
  <2>1. CASE m # n
    <3>1. nft'[n] = nft[n]
      BY <1>1, <1>11, <2>1
         DEF Message, MintNFT, BurnNFT, MoveNft, Send, SetListed, PlaceBid, AcceptBid,
             RejectBid, SetValuation, ClaimBid, Renew
    <3>2. QED BY <3>1
  <2>2. CASE m = n
    <3>1. CASE \E to \in Parties : MoveNft(n, to) \/ Send(n, to)
      BY <3>1 DEF MoveNft, Send
    <3>2. QED BY <1>11, <2>2, <3>1, <1>3, <1>4, <1>5, <1>6, <1>7, <1>8, <1>9, <1>10 DEF Message
  <2>3. QED BY <2>1, <2>2
<1>12. CASE SetClass \/ ExportImport \/ Tick
  BY <1>2, <1>12 DEF SetClass, ExportImport, Tick
<1>13. QED BY <1>11, <1>12 DEF Next

\* Renewals and claims by turns do not add up: an extension starts from an
\* expiry that is at most one period away (Renew and ClaimBid's remaining time).
THEOREM ExpiriesInReach == IsFiniteSet(ClassSettings) => (Spec => []ExpiryInReach)
<1> SUFFICES ASSUME IsFiniteSet(ClassSettings) PROVE Spec => []ExpiryInReach
  OBVIOUS
<1>0. Longest \in Nat /\ \A c \in ClassSettings : c.period <= Longest
  BY LongestIsIt
<1> DEFINE Bounded == class.period <= Longest
<1>1. Init => Bounded /\ ExpiryInReach
  <2> SUFFICES ASSUME Init PROVE Bounded /\ ExpiryInReach
    OBVIOUS
  <2>1. Bounded
    BY <1>0, ClassAssumption DEF Init
  <2>2. now = 0 /\ \A n \in NFTs : nft[n].expiry = 0
    BY DEF Init, Blank
  <2>3. Later(2 * Longest, Year) \in Nat
    BY <1>0, NumbersAssumption DEF Later
  <2>4. QED BY <2>1, <2>2, <2>3 DEF ExpiryInReach
<1>2. BidsInv /\ Bounded /\ [Next]_vars => Bounded'
  <2> SUFFICES ASSUME BidsInv, Bounded, [Next]_vars PROVE Bounded'
    OBVIOUS
  <2>1. class' = class \/ \E c \in ClassSettings : class'.period \in {class.period, c.period}
    BY SettingsMove DEF BidsInv, NamesOK
  <2>2. QED BY <1>0, <2>1
<1>3. BidsInv /\ Bounded /\ ExpiryInReach /\ [Next]_vars => ExpiryInReach'
  <2> SUFFICES ASSUME BidsInv, Bounded, ExpiryInReach, [Next]_vars, NEW n \in NFTs
               PROVE  nft'[n].expiry <= now' + Later(2 * Longest, Year)
    BY DEF ExpiryInReach
  <2>1. /\ nft[n].expiry \in Nat /\ now \in Nat /\ class.period \in Nat
        /\ Longest \in Nat /\ Year \in Nat
    BY <1>0, NumbersAssumption DEF BidsInv, NamesOK, NFTData, ClassData
  <2>2. now' \in Nat /\ now' >= now
    BY <2>1, TimeMoves
  <2>3. nft[n].expiry <= now + Later(2 * Longest, Year)
    BY DEF ExpiryInReach
  <2>4. CASE nft' = nft
    BY <2>1, <2>2, <2>3, <2>4 DEF Later
  <2>5. CASE Next
    BY <2>1, <2>2, <2>3, <2>5, ExpiryMoves DEF Later, Extended, CanExtend, Remaining
  <2>6. QED BY <2>4, <2>5 DEF vars
<1>4. QED BY <1>1, <1>2, <1>3, Invariance, PTL DEF Spec

-----------------------------------------------------------------------------
(* The auction                                                             *)

\* the state function that NameAuction's variable offer stands for
Offer == [n \in NFTs |-> [by |-> nft[n].bidder, denom |-> nft[n].bid.denom,
                          amount |-> nft[n].bid.amount]]

(* The offer for a name in the auction it implements is its current bid. *)
LEMMA OfferIs ==
    ASSUME NamesOK, BidIsRecorded, NEW n \in NFTs
    PROVE  /\ nft[n].bidder = Nobody => Offer[n] = Auction!NoOffer
           /\ nft[n].bidder # Nobody =>
                 /\ Offer[n] \in Auction!Offers /\ Offer[n] # Auction!NoOffer
                 /\ Offer[n].by = nft[n].bidder
<1>1. CASE nft[n].bidder = Nobody
  <2>1. nft[n].bid = NoCoin
    BY <1>1 DEF BidIsRecorded
  <2>2. QED BY <1>1, <2>1 DEF Offer, NoCoin, Auction!NoOffer
<1>2. CASE nft[n].bidder # Nobody
  <2>1. /\ nft[n].bidder \in Accounts
        /\ nft[n].bid.denom \in Denoms /\ nft[n].bid.amount \in Nat \ {0}
    BY <1>2, BidIsCoin
  <2>2. QED BY <1>2, <2>1 DEF Offer, Auction!Offers, Auction!NoOffer
<1>3. QED BY <1>1, <1>2

(* Offers stay where the bids do. *)
LEMMA OfferKept ==
    ASSUME \A n \in NFTs : nft'[n].bidder = nft[n].bidder /\ nft'[n].bid = nft[n].bid
    PROVE  Offer' = Offer
BY DEF Offer

(* A bid taken off its name ends the offer for it alone. *)
LEMMA OfferEnds ==
    ASSUME NEW n \in NFTs, nft'[n].bidder = Nobody, nft'[n].bid = NoCoin,
           \A m \in NFTs \ {n} : nft'[m] = nft[m]
    PROVE  Offer' = [Offer EXCEPT ![n] = Auction!NoOffer]
<1>1. Offer'[n] = Auction!NoOffer
  BY DEF Offer, NoCoin, Auction!NoOffer
<1>2. \A m \in NFTs \ {n} : Offer'[m] = Offer[m]
  BY DEF Offer
<1>3. Offer' = [m \in NFTs |-> Offer'[m]] /\ Offer = [m \in NFTs |-> Offer[m]]
  BY DEF Offer
<1> HIDE DEF Offer
<1>4. QED BY <1>1, <1>2, <1>3

(* Placing a bid is a bid of the auction. *)
LEMMA PlaceIsBid ==
    ASSUME BidsInv, NEW n \in NFTs, NEW bidder \in Accounts, NEW coin \in Coins,
           PlaceBid(bidder, n, coin)
    PROVE  Auction!Bid(n)
<1>1. /\ owner[n] # Nobody /\ owner' = owner /\ Enough(n, coin)
      /\ nft' = [nft EXCEPT ![n].bidder = bidder, ![n].bid = coin, ![n].bidTime = now]
  BY DEF PlaceBid, Minted
<1>2. nft'[n].bidder = bidder /\ nft'[n].bid = coin /\ \A m \in NFTs \ {n} : nft'[m] = nft[m]
  BY <1>1 DEF BidsInv, NamesOK, NFTData
<1>3. /\ Offer'[n] = [by |-> bidder, denom |-> coin.denom, amount |-> coin.amount]
      /\ \A m \in NFTs \ {n} : Offer'[m] = Offer[m]
  BY <1>2 DEF Offer
<1>4. Offer' = [Offer EXCEPT ![n] = Offer'[n]]
  BY <1>3 DEF Offer
<1>5. Offer'[n] \in Auction!Offers
  BY <1>3, NumbersAssumption DEF Auction!Offers, Coins
<1>6. ASSUME Offer[n] # Auction!NoOffer
      PROVE  Offer'[n].denom = Offer[n].denom /\ Offer'[n].amount > Offer[n].amount
  <2>1. nft[n].bidder # Nobody
    BY <1>6, OfferIs DEF BidsInv
  <2>2. coin.denom = nft[n].bid.denom /\ coin.amount > nft[n].bid.amount
    BY <1>1, <2>1 DEF Enough
  <2>3. Offer[n].denom = nft[n].bid.denom /\ Offer[n].amount = nft[n].bid.amount
    BY DEF Offer
  <2>4. QED BY <1>3, <2>2, <2>3
<1>7. QED BY <1>1, <1>4, <1>5, <1>6 DEF Auction!Bid, Auction!Exists, Offer

(* Accepting, claiming and rejecting sell the name or turn the offer down. *)
LEMMA EndingIsSale ==
    ASSUME BidsInv, NEW n \in NFTs,
           \/ AcceptBid(n) \/ ClaimBid(n) \/ \E coin \in Coins : RejectBid(n, coin)
    PROVE  Auction!Sell(n) \/ Auction!TurnDown(n)
<1>1. nft[n].bidder # Nobody
  BY DEF AcceptBid, ClaimBid, RejectBid, HasBid, Claimable
<1>2. Offer[n] # Auction!NoOffer /\ Offer[n].by = nft[n].bidder
  BY <1>1, OfferIs DEF BidsInv
<1>3. Offer' = [Offer EXCEPT ![n] = Auction!NoOffer]
  BY EndingStep, OfferEnds
<1>4. owner' = owner \/ owner' = [owner EXCEPT ![n] = nft[n].bidder]
  BY DEF AcceptBid, ClaimBid, RejectBid
<1>5. QED BY <1>2, <1>3, <1>4 DEF Auction!Sell, Auction!TurnDown, Offer

\* NameBids implements NameAuction: bids, sales, gifts and burns are what the
\* auction allows, however they interleave with listing, valuation, renewal,
\* changes of the class's settings and an export.
THEOREM AuctionIsKept == Spec => KeepsAuction
<1>1. Init => Auction!Init
  <2> SUFFICES ASSUME Init PROVE Auction!Init
    OBVIOUS
  <2>1. \A n \in NFTs : nft[n].bidder = Nobody /\ nft[n].bid = NoCoin
    BY BlankData DEF Init
  <2>2. Offer = [n \in NFTs |-> Auction!NoOffer]
    BY <2>1 DEF Offer, NoCoin, Auction!NoOffer
  <2>3. QED BY <2>2 DEF Init, Auction!Init, Offer
<1>2. BidsInv /\ [Next]_vars => [Auction!Next]_<<owner, Offer>>
  <2> SUFFICES ASSUME BidsInv, [Next]_vars
               PROVE  Auction!Next \/ UNCHANGED <<owner, Offer>>
    OBVIOUS
  <2>1. /\ owner \in [NFTs -> Parties \cup {Nobody}] /\ nft \in [NFTs -> NFTData]
        /\ now \in Nat /\ class.period \in Nat
    BY DEF BidsInv, NamesOK, ClassData
  <2>2. CASE UNCHANGED <<owner, nft>>
    BY <2>2 DEF Offer
  <2>3. ASSUME NEW n \in NFTs, MintNFT(n) PROVE Auction!Create(n)
    <3>1. nft[n].bidder = Nobody /\ nft[n].bid = NoCoin
      BY <2>3 DEF MintNFT, BidsInv, BidIsRecorded
    <3>2. now + class.period \in Nat
      BY <2>1
    <3>3. nft'[n].bidder = Nobody /\ nft'[n].bid = NoCoin /\ \A m \in NFTs \ {n} : nft'[m] = nft[m]
      BY <2>1, <2>3, <3>2, BlankData DEF MintNFT
    <3>4. Offer' = Offer
      BY <3>1, <3>3, OfferKept
    <3>5. ClassAdmin \in Parties
      BY PartiesAssumption
    <3>6. QED BY <2>3, <3>4, <3>5
             DEF MintNFT, Minted, Auction!Create, Auction!Exists, Offer
  <2>4. ASSUME NEW n \in NFTs, BurnNFT(n) PROVE Auction!Destroy(n)
    <3>1. nft'[n].bidder = Nobody /\ nft'[n].bid = NoCoin /\ \A m \in NFTs \ {n} : nft'[m] = nft[m]
      BY <2>1, <2>4, BlankData DEF BurnNFT
    <3>2. Offer' = [Offer EXCEPT ![n] = Auction!NoOffer]
      BY <3>1, OfferEnds
    <3>3. QED BY <2>4, <3>2 DEF BurnNFT, Minted, Auction!Destroy, Auction!Exists, Offer
  <2>5. ASSUME NEW n \in NFTs, NEW to \in Parties, MoveNft(n, to) \/ Send(n, to)
        PROVE  Auction!Give(n)
    <3>1. Offer' = Offer
      BY <2>5, OfferKept DEF MoveNft, Send
    <3>2. QED BY <2>5, <3>1 DEF MoveNft, Send, Minted, Auction!Give, Auction!Exists, Offer
  <2>6. ASSUME NEW n \in NFTs,
               \/ \E listed \in BOOLEAN : SetListed(n, listed)
               \/ \E value \in Coins : SetValuation(n, value)
               \/ \E payer \in Accounts : Renew(payer, n)
        PROVE  UNCHANGED <<owner, Offer>>
    <3>1. /\ owner' = owner
          /\ \/ \E listed \in BOOLEAN : nft' = [nft EXCEPT ![n].listed = listed]
             \/ \E value \in Coins : nft' = [nft EXCEPT ![n].valuation = value]
             \/ nft' = [nft EXCEPT ![n].expiry = Extended(n)]
      BY <2>6 DEF SetListed, SetValuation, Renew
    <3>2. \A m \in NFTs : nft'[m].bidder = nft[m].bidder /\ nft'[m].bid = nft[m].bid
      BY <2>1, <3>1 DEF NFTData
    <3>3. Offer' = Offer
      BY <3>2, OfferKept
    <3>4. QED BY <3>1, <3>3
  <2>7. ASSUME NEW n \in NFTs, Message(n) PROVE Auction!Next \/ UNCHANGED <<owner, Offer>>
    BY <2>3, <2>4, <2>5, <2>6, <2>7, PlaceIsBid, EndingIsSale DEF Message, Auction!Next
  <2>8. CASE SetClass \/ ExportImport \/ Tick \/ UNCHANGED vars
    BY <2>2, <2>8 DEF SetClass, ExportImport, Tick, vars
  <2>9. QED BY <2>7, <2>8 DEF Next
<1>3. QED BY <1>1, <1>2, Invariance, PTL DEF Spec, KeepsAuction, Auction!Spec, Offer

-----------------------------------------------------------------------------
(* The escrow                                                              *)

\* What a payment does to the escrow: it pays, is paid, or neither.
Balances == [Purses -> [Denoms -> Int]]
InCoin(coin, d) == IF d = coin.denom THEN coin.amount ELSE 0

(* What a payment does to the escrow, by who pays and who gets it. *)
LEMMA EscrowMoves ==
    ASSUME NEW b \in Balances, NEW from \in Purses, NEW to \in Purses,
           NEW coin, coin.denom \in Denoms, coin.amount \in Int, NEW d \in Denoms
    PROVE  /\ Pay(b, from, to, coin) \in Balances
           /\ Pay(b, from, to, coin)[Escrow][d] =
                 IF from = to \/ Escrow \notin {from, to} THEN b[Escrow][d]
                 ELSE IF to = Escrow THEN b[Escrow][d] + InCoin(coin, d)
                 ELSE b[Escrow][d] - InCoin(coin, d)
<1> DEFINE taken == Take(b, from, coin)
           after == Put(taken, to, coin)
<1>1. taken \in Balances /\ Escrow \in Purses
  BY Actors DEF Take, Balances
<1>2. taken[Escrow][d] = IF from = Escrow THEN b[Escrow][d] - InCoin(coin, d) ELSE b[Escrow][d]
  BY <1>1 DEF Take, InCoin, Balances
<1> HIDE DEF taken
<1>3. after \in Balances
  BY <1>1 DEF Put, Balances
<1>4. after[Escrow][d] =
         IF to = Escrow THEN taken[Escrow][d] + InCoin(coin, d) ELSE taken[Escrow][d]
  BY <1>1 DEF Put, InCoin, Balances
<1>5. after = Pay(b, from, to, coin)
  BY DEF Pay, taken
<1>6. InCoin(coin, d) \in Int /\ b[Escrow][d] \in Int
  BY <1>1 DEF InCoin, Balances
<1> HIDE DEF after
<1>7. QED BY <1>2, <1>3, <1>4, <1>5, <1>6

\* An NFT bears a number of coins of each denomination.
LEMMA BidInNat ==
    ASSUME NEW n \in NFTs, NEW d
    PROVE  /\ NamesOK => BidIn(n, d) \in Nat
           /\ NamesOK' => BidIn(n, d)' \in Nat
<1>1. \A data \in NFTData : data.bid.amount \in Nat
  BY DEF NFTData, Coin, NoCoin
<1>2. QED BY <1>1 DEF NamesOK, BidIn

\* When the bid on one NFT changes, the current bids change by that bid.
LEMMA OneBidChanges ==
    ASSUME NamesOK, NamesOK', NEW n \in NFTs,
           \A m \in NFTs \ {n} : nft'[m].bid = nft[m].bid, NEW d
    PROVE  /\ CurrentBids(d) \in Nat /\ BidIn(n, d) \in Nat /\ BidIn(n, d)' \in Nat
           /\ CurrentBids(d)' = CurrentBids(d) - BidIn(n, d) + BidIn(n, d)'
<1> DEFINE f == [m \in NFTs |-> BidIn(m, d)]
           g == [m \in NFTs |-> BidIn(m, d)']
<1>1. \A m \in NFTs : f[m] \in Nat /\ g[m] \in Nat
  BY BidInNat
<1>2. \A m \in NFTs : m # n => g[m] = f[m]
  BY DEF BidIn
<1>3. CurrentBids(d) = SumFunctionOnSet(f, NFTs) /\ CurrentBids(d)' = SumFunctionOnSet(g, NFTs)
  BY DEF CurrentBids, SumFunction
<1>4. f[n] = BidIn(n, d) /\ g[n] = BidIn(n, d)'
  OBVIOUS
<1> HIDE DEF f, g
<1>5. SumFunctionOnSet(g, NFTs) = SumFunctionOnSet(f, NFTs) - f[n] + g[n]
  BY <1>1, <1>2, NFTsAssumption, SumWithOneChanged
<1>6. SumFunctionOnSet(f, NFTs) \in Nat
  BY <1>1, NFTsAssumption, SumIsNat
<1>7. QED BY <1>1, <1>3, <1>4, <1>5, <1>6

\* They are a number of coins, before a step and after it.
LEMMA BidsAreNat ==
    ASSUME NEW d
    PROVE  /\ NamesOK => CurrentBids(d) \in Nat
           /\ NamesOK' => CurrentBids(d)' \in Nat
<1>1. ASSUME NEW f, \A m \in NFTs : f[m] \in Nat PROVE SumFunctionOnSet(f, NFTs) \in Nat
  BY <1>1, NFTsAssumption, SumIsNat
<1> DEFINE f == [m \in NFTs |-> BidIn(m, d)]
           g == [m \in NFTs |-> BidIn(m, d)']
<1>2. CurrentBids(d) = SumFunctionOnSet(f, NFTs) /\ CurrentBids(d)' = SumFunctionOnSet(g, NFTs)
  BY DEF CurrentBids, SumFunction
<1>3. (NamesOK => \A m \in NFTs : f[m] \in Nat) /\ (NamesOK' => \A m \in NFTs : g[m] \in Nat)
  BY BidInNat
<1> HIDE DEF f, g
<1>4. QED BY <1>1, <1>2, <1>3

(* What the escrow pays to others leaves it. *)
LEMMA EscrowPays ==
    ASSUME NEW b \in Balances, NEW to \in Purses, to # Escrow,
           NEW coin, coin.denom \in Denoms, coin.amount \in Int, NEW d \in Denoms
    PROVE  /\ Pay(b, Escrow, to, coin) \in Balances
           /\ Pay(b, Escrow, to, coin)[Escrow][d] = b[Escrow][d] - InCoin(coin, d)
<1>1. Escrow \in Purses
  BY Actors
<1>2. QED BY <1>1, EscrowMoves

\* What is in the escrow follows what the NFTs bear, but for a bid that is left
\* behind by a burn or by its own bidder's next one.
Follows(n, d) ==
    \/ bank'[Escrow][d] = bank[Escrow][d] - BidIn(n, d) + BidIn(n, d)'
    \/ /\ Strands(n) /\ nft[n].bid.denom = d
       /\ bank'[Escrow][d] = bank[Escrow][d] + BidIn(n, d)'

(* Placing a bid moves the escrow by the new bid and the one paid back. *)
LEMMA PlaceFollows ==
    ASSUME BidsInv, NEW n \in NFTs, NEW bidder \in Accounts, NEW coin \in Coins,
           PlaceBid(bidder, n, coin), NEW d \in Denoms
    PROVE  Follows(n, d)
<1> DEFINE refunded == AfterRefund(n, bidder)
           bid == nft[n].bid
<1>1. /\ bank \in Balances /\ Escrow \in Purses /\ bidder \in Purses
      /\ bidder # Escrow /\ bank[Escrow][d] \in Int
  BY Actors, PartiesAssumption DEF BidsInv, BankOK, Parties, Balances
<1>2. coin.denom \in Denoms /\ coin.amount \in Nat
  BY NumbersAssumption DEF Coins
<1>3. nft'[n].bidder = bidder /\ nft'[n].bid = coin
  BY DEF PlaceBid, BidsInv, NamesOK, NFTData
<1>4. BidIn(n, d)' = InCoin(coin, d)
  BY <1>3 DEF BidIn, InCoin
<1>5. bank' = Pay(refunded, bidder, Escrow, coin)
  BY DEF PlaceBid
<1>6. BidIn(n, d) \in Nat
  BY BidInNat DEF BidsInv
<1>7. CASE Refunds(n, bidder)
  <2>1. nft[n].bidder # Nobody
    BY <1>7 DEF Refunds
  <2>2. /\ bid.denom \in Denoms /\ bid.amount \in Int /\ nft[n].bidder \in Purses
        /\ nft[n].bidder # Escrow
    BY <2>1, BidIsCoin, Actors, PartiesAssumption DEF BidsInv, Parties
  <2>3. refunded = Pay(bank, Escrow, nft[n].bidder, bid)
    BY <1>7 DEF AfterRefund
  <2>4. BidIn(n, d) = InCoin(bid, d)
    BY DEF BidIn, InCoin
  <2> HIDE DEF refunded, bid
  <2>5. /\ refunded \in Balances
        /\ refunded[Escrow][d] = bank[Escrow][d] - BidIn(n, d)
    <3>1. /\ Pay(bank, Escrow, nft[n].bidder, bid) \in Balances
          /\ Pay(bank, Escrow, nft[n].bidder, bid)[Escrow][d] = bank[Escrow][d] - InCoin(bid, d)
      BY <1>1, <2>2, EscrowPays
    <3>2. QED BY <2>3, <2>4, <3>1
  <2>6. bank'[Escrow][d] = refunded[Escrow][d] + BidIn(n, d)'
    <3>1. Pay(refunded, bidder, Escrow, coin)[Escrow][d] = refunded[Escrow][d] + InCoin(coin, d)
      BY <1>1, <1>2, <2>5, EscrowMoves
    <3>2. QED BY <1>4, <1>5, <3>1
  <2>7. QED BY <2>5, <2>6 DEF Follows
<1>8. CASE ~Refunds(n, bidder)
  <2>1. refunded = bank
    BY <1>8 DEF AfterRefund
  <2>2. bank'[Escrow][d] = bank[Escrow][d] + BidIn(n, d)'
    <3> HIDE DEF refunded
    <3>1. Pay(bank, bidder, Escrow, coin)[Escrow][d] = bank[Escrow][d] + InCoin(coin, d)
      BY <1>1, <1>2, EscrowMoves
    <3>2. QED BY <1>4, <1>5, <2>1, <3>1
  <2>3. CASE nft[n].bidder = Nobody \/ bid.denom # d
    <3>1. bid.denom # d
      BY <2>3, Actors DEF BidsInv, BidIsRecorded, NoCoin
    <3>2. BidIn(n, d) = 0
      BY <3>1 DEF BidIn
    <3>3. QED BY <1>1, <2>2, <3>2 DEF Follows
  <2>4. CASE nft[n].bidder # Nobody /\ bid.denom = d
    <3>1. nft[n].bidder = bidder
      BY <1>8, <2>4 DEF Refunds
    <3>2. Strands(n)
      BY <1>3, <2>4, <3>1 DEF Strands
    <3>3. QED BY <2>2, <2>4, <3>2 DEF Follows
  <2>5. QED BY <2>3, <2>4
<1>9. QED BY <1>7, <1>8

\* A bid that ends leaves the escrow whole: to its bidder, to the owner, or to the
\* owner and the fee together.
LEMMA EndingFollows ==
    ASSUME BidsInv, NEW n \in NFTs,
           \/ AcceptBid(n) \/ ClaimBid(n) \/ \E coin \in Coins : RejectBid(n, coin),
           NEW d \in Denoms
    PROVE  Follows(n, d)
<1> DEFINE bid == nft[n].bid
<1>1. /\ bank \in Balances /\ Escrow \in Purses /\ FeeTo \in Purses
      /\ FeeTo # Escrow /\ bank[Escrow][d] \in Int
  BY Actors DEF BidsInv, BankOK, Balances
<1>2. nft[n].bidder # Nobody
  BY DEF AcceptBid, ClaimBid, RejectBid, HasBid, Claimable
<1>3. /\ bid \in Coin /\ bid.denom \in Denoms /\ bid.amount \in Nat
      /\ nft[n].bidder \in Purses /\ nft[n].bidder # Escrow
      /\ owner[n] \in Purses /\ owner[n] # Escrow
  BY <1>2, BidIsCoin, Actors, PartiesAssumption DEF BidsInv, Parties
<1>4. BidIn(n, d) = InCoin(bid, d)
  BY DEF BidIn, InCoin
<1>5. BidIn(n, d)' = 0
  <2>1. nft'[n].bid = NoCoin
    BY EndingStep
  <2>2. QED BY <2>1 DEF BidIn, NoCoin
<1>6. SUFFICES bank'[Escrow][d] = bank[Escrow][d] - BidIn(n, d)
  BY <1>1, <1>3, <1>4, <1>5 DEF Follows, InCoin
<1>7. CASE AcceptBid(n)
  <2>1. bank' = Pay(bank, Escrow, owner[n], bid)
    BY <1>7 DEF AcceptBid
  <2> HIDE DEF bid
  <2>2. Pay(bank, Escrow, owner[n], bid)[Escrow][d] = bank[Escrow][d] - InCoin(bid, d)
    BY <1>1, <1>3, EscrowPays
  <2>3. QED BY <1>4, <2>1, <2>2
<1>8. ASSUME NEW value \in Coins, RejectBid(n, value)
      PROVE  bank'[Escrow][d] = bank[Escrow][d] - BidIn(n, d)
  <2> DEFINE refunded == Pay(bank, Escrow, nft[n].bidder, bid)
             fee == Fee(value.denom, RejectFee(value))
  <2>1. bank' = Pay(refunded, owner[n], FeeTo, fee)
    BY <1>8 DEF RejectBid
  <2>2. fee.denom \in Denoms /\ fee.amount \in Int
    <3>1. value.denom \in Denoms /\ value.amount \in Nat /\ class.rejectFee \in Nat
      BY NumbersAssumption DEF Coins, BidsInv, NamesOK, ClassData
    <3>2. RejectFee(value) \in Nat
      BY <3>1, ProductNat, TruncatedNat DEF RejectFee
    <3>3. QED BY <3>1, <3>2 DEF Fee
  <2> HIDE DEF fee, bid
  <2>3. /\ refunded \in Balances
        /\ refunded[Escrow][d] = bank[Escrow][d] - BidIn(n, d)
    <3>1. /\ Pay(bank, Escrow, nft[n].bidder, bid) \in Balances
          /\ Pay(bank, Escrow, nft[n].bidder, bid)[Escrow][d] = bank[Escrow][d] - InCoin(bid, d)
      BY <1>1, <1>3, EscrowPays
    <3>2. QED BY <1>4, <3>1
  <2> HIDE DEF refunded
  <2>4. Pay(refunded, owner[n], FeeTo, fee)[Escrow][d] = refunded[Escrow][d]
    BY <1>1, <1>3, <2>2, <2>3, EscrowMoves
  <2>5. QED BY <2>1, <2>3, <2>4
<1>9. CASE ClaimBid(n)
  <2> DEFINE tax == Fee(bid.denom, ClaimFee(n))
             rest == Fee(bid.denom, bid.amount - ClaimFee(n))
             taxed == Pay(bank, Escrow, FeeTo, tax)
  <2>1. bank' = Pay(taxed, Escrow, owner[n], rest)
    BY <1>9 DEF ClaimBid
  <2>2. ClaimFee(n) \in Nat
    BY <1>3, ClaimNumbers DEF BidsInv
  <2>3. /\ tax.denom = bid.denom /\ tax.amount = ClaimFee(n)
        /\ rest.denom = bid.denom /\ rest.amount = bid.amount - ClaimFee(n)
    BY DEF Fee
  <2> HIDE DEF tax, rest, bid
  <2>4. tax.amount \in Int /\ rest.amount \in Int
    BY <1>3, <2>2, <2>3
  <2>5. /\ taxed \in Balances
        /\ taxed[Escrow][d] = bank[Escrow][d] - InCoin(tax, d)
    BY <1>1, <1>3, <2>3, <2>4, EscrowPays
  <2> HIDE DEF taxed
  <2>6. bank'[Escrow][d] =
           taxed[Escrow][d] - InCoin(rest, d)
    <3>1. /\ taxed \in Balances /\ Escrow \in Purses /\ owner[n] \in Purses /\ owner[n] # Escrow
          /\ rest.denom \in Denoms /\ rest.amount \in Int
      BY <1>1, <1>3, <2>3, <2>4, <2>5
    <3>2. Pay(taxed, Escrow, owner[n], rest)[Escrow][d] = taxed[Escrow][d] - InCoin(rest, d)
      BY <3>1, EscrowPays
    <3>3. QED BY <2>1, <3>2
  <2>7. InCoin(tax, d) + InCoin(rest, d) = InCoin(bid, d) /\ InCoin(tax, d) \in Int
        /\ InCoin(rest, d) \in Int
    BY <1>3, <2>2, <2>3 DEF InCoin
  <2>8. QED BY <1>1, <1>4, <2>5, <2>6, <2>7
<1>10. QED BY <1>7, <1>8, <1>9

\* A payment of fees passes the escrow by.
LEMMA FeePasses ==
    ASSUME BankOK, NEW from \in Parties, NEW denom \in Denoms, NEW amount \in Int,
           bank' = Pay(bank, from, FeeTo, Fee(denom, amount)), NEW d \in Denoms
    PROVE  bank'[Escrow][d] = bank[Escrow][d]
<1> DEFINE fee == Fee(denom, amount)
<1>1. /\ bank \in Balances /\ from \in Purses /\ FeeTo \in Purses
      /\ from # Escrow /\ FeeTo # Escrow
  BY Actors, PartiesAssumption DEF BankOK, Balances
<1>2. fee.denom \in Denoms /\ fee.amount \in Int
  BY DEF Fee
<1> HIDE DEF fee
<1>3. Pay(bank, from, FeeTo, fee)[Escrow][d] = bank[Escrow][d]
  BY <1>1, <1>2, EscrowMoves
<1>4. QED BY <1>3 DEF fee

\* Every message on an NFT moves the escrow as it moves the bid of that NFT.
LEMMA MessageFollows ==
    ASSUME BidsInv, NEW n \in NFTs, Message(n), NEW d \in Denoms
    PROVE  /\ \A m \in NFTs \ {n} : nft'[m].bid = nft[m].bid
           /\ Follows(n, d)
<1> DEFINE Goal == (\A m \in NFTs \ {n} : nft'[m].bid = nft[m].bid) /\ Follows(n, d)
<1>1. /\ nft \in [NFTs -> NFTData] /\ now \in Nat /\ class.period \in Nat
      /\ bank[Escrow][d] \in Int /\ BidIn(n, d) \in Nat /\ BankOK
  BY BidInNat, Actors DEF BidsInv, BankOK, NamesOK, ClassData
<1>2. ASSUME bank'[Escrow][d] = bank[Escrow][d], \A m \in NFTs : nft'[m].bid = nft[m].bid
      PROVE  Goal
  BY <1>1, <1>2 DEF Follows, BidIn
<1>3. CASE MintNFT(n)
  <2>1. nft[n].bid = NoCoin
    BY <1>3 DEF MintNFT, BidsInv, BidIsRecorded
  <2>2. nft'[n].bid = NoCoin /\ \A m \in NFTs \ {n} : nft'[m] = nft[m]
    <3>1. now + class.period \in Nat
      BY <1>1
    <3>2. QED BY <1>1, <1>3, <3>1, BlankData DEF MintNFT
  <2>3. QED BY <1>2, <1>3, <2>1, <2>2 DEF MintNFT
<1>4. CASE BurnNFT(n)
  <2>1. nft'[n].bid = NoCoin /\ owner'[n] = Nobody /\ \A m \in NFTs \ {n} : nft'[m] = nft[m]
    BY <1>1, <1>4, BlankData DEF BurnNFT, BidsInv, NamesOK
  <2>2. BidIn(n, d)' = 0 /\ bank'[Escrow][d] = bank[Escrow][d]
    BY <1>4, <2>1 DEF BidIn, NoCoin, BurnNFT
  <2>3. CASE nft[n].bid.denom = d
    <3>1. nft[n].bidder # Nobody
      BY <2>3, Actors DEF BidsInv, BidIsRecorded, NoCoin
    <3>2. QED BY <1>1, <2>1, <2>2, <2>3, <3>1 DEF Follows, Strands
  <2>4. CASE nft[n].bid.denom # d
    <3>1. BidIn(n, d) = 0
      BY <2>4 DEF BidIn
    <3>2. QED BY <1>1, <2>1, <2>2, <3>1 DEF Follows
  <2>5. QED BY <2>3, <2>4
<1>5. CASE \/ \E to \in Parties : MoveNft(n, to) \/ Send(n, to)
           \/ \E listed \in BOOLEAN : SetListed(n, listed)
  <2>1. bank' = bank /\ \A m \in NFTs : nft'[m].bid = nft[m].bid
    BY <1>1, <1>5 DEF MoveNft, Send, SetListed, NFTData
  <2>2. QED BY <1>2, <2>1
<1>6. ASSUME NEW bidder \in Accounts, NEW coin \in Coins, PlaceBid(bidder, n, coin) PROVE Goal
  <2>1. \A m \in NFTs \ {n} : nft'[m] = nft[m]
    BY <1>1, <1>6 DEF PlaceBid
  <2>2. QED BY <1>6, <2>1, PlaceFollows
<1>7. CASE AcceptBid(n) \/ ClaimBid(n) \/ \E coin \in Coins : RejectBid(n, coin)
  <2>1. \A m \in NFTs \ {n} : nft'[m] = nft[m]
    BY <1>7, EndingStep
  <2>2. QED BY <1>7, <2>1, EndingFollows
<1>8. ASSUME NEW value \in Coins, SetValuation(n, value) PROVE Goal
  <2>1. \A m \in NFTs : nft'[m].bid = nft[m].bid
    BY <1>1, <1>8 DEF SetValuation, NFTData
  <2>2. /\ bank' = Pay(bank, owner[n], FeeTo, Fee(value.denom, ValuationFee(n, value)))
        /\ owner[n] \in Parties /\ value.denom \in Denoms
    BY <1>8 DEF SetValuation, Minted, BidsInv, NamesOK, Coins
  <2>3. ValuationFee(n, value) \in Nat
    BY <1>8, ValuationFeeNat
  <2>4. bank'[Escrow][d] = bank[Escrow][d]
    BY <1>1, <2>2, <2>3, FeePasses
  <2>5. QED BY <1>2, <2>1, <2>4
<1>9. ASSUME NEW payer \in Accounts, Renew(payer, n) PROVE Goal
  <2> DEFINE value == nft[n].valuation
             fee == Truncated(DecFee(value.amount, Portion(Extended(n) - nft[n].expiry, class.period)))
  <2>1. \A m \in NFTs : nft'[m].bid = nft[m].bid
    BY <1>1, <1>9 DEF Renew, NFTData
  <2>2. bank' = Pay(bank, payer, FeeTo, Fee(value.denom, fee))
    BY <1>9 DEF Renew
  <2>3. fee \in Nat /\ value.denom \in Denoms
    BY <1>9, RenewFeeNat
  <2>4. payer \in Parties
    BY DEF Parties
  <2> HIDE DEF fee, value
  <2>5. bank'[Escrow][d] = bank[Escrow][d]
    BY <1>1, <2>2, <2>3, <2>4, FeePasses
  <2>6. QED BY <1>2, <2>1, <2>5
<1>10. QED BY <1>3, <1>4, <1>5, <1>6, <1>7, <1>8, <1>9 DEF Message

\* So every step keeps the surplus of the escrow, or strands one bid in it.
SurplusStep ==
    \A d \in Denoms :
       /\ Surplus(d)' >= Surplus(d)
       /\ Surplus(d)' > Surplus(d) => \E n \in NFTs : Strands(n) /\ nft[n].bid.denom = d

(* No step takes from the escrow what no current bid accounts for. *)
LEMMA SurplusKept == ASSUME BidsInv, [Next]_vars PROVE SurplusStep
<1> SUFFICES ASSUME NEW d \in Denoms
             PROVE  /\ Surplus(d)' >= Surplus(d)
                    /\ Surplus(d)' > Surplus(d) =>
                          \E n \in NFTs : Strands(n) /\ nft[n].bid.denom = d
  BY DEF SurplusStep
<1>1. NamesOK /\ NamesOK' /\ bank[Escrow][d] \in Nat /\ bank'[Escrow][d] \in Nat
  <2>1. BidsInv'
    BY NextInv
  <2>2. QED BY <2>1, Actors DEF BidsInv, BankOK
<1>2. ASSUME NEW n \in NFTs, Message(n)
      PROVE  /\ Surplus(d)' >= Surplus(d)
             /\ Surplus(d)' > Surplus(d) => Strands(n) /\ nft[n].bid.denom = d
  <2>1. (\A m \in NFTs \ {n} : nft'[m].bid = nft[m].bid) /\ Follows(n, d)
    BY <1>2, MessageFollows
  <2>2. /\ CurrentBids(d) \in Nat /\ BidIn(n, d) \in Nat /\ BidIn(n, d)' \in Nat
        /\ CurrentBids(d)' = CurrentBids(d) - BidIn(n, d) + BidIn(n, d)'
    BY <1>1, <2>1, OneBidChanges
  <2>3. QED BY <1>1, <2>1, <2>2 DEF Surplus, Follows
<1>3. CASE SetClass \/ ExportImport \/ Tick \/ UNCHANGED vars
  <2>1. bank' = bank /\ nft' = nft
    BY <1>3 DEF SetClass, ExportImport, Tick, vars
  <2>2. Surplus(d)' = Surplus(d)
    BY <2>1 DEF Surplus, CurrentBids, BidIn
  <2>3. Surplus(d) \in Int
    <3>1. CurrentBids(d) \in Nat
      BY <1>1, BidsAreNat
    <3>2. QED BY <1>1, <3>1 DEF Surplus
  <2>4. QED BY <2>2, <2>3
<1>4. QED BY <1>2, <1>3 DEF Next

\* What the escrow holds beyond the current bids is never paid out, and grows only by
\* a bid whose NFT is burnt or whose bidder outbids itself.
THEOREM SurplusStays == Spec => SurplusIsStranded
<1>1. BidsInv /\ [Next]_vars => [SurplusStep]_vars
  BY SurplusKept
<1>2. QED BY <1>1, Invariance, PTL DEF Spec, SurplusIsStranded, SurplusStep

\* The escrow covers the current bids of all NFTs, so no handler that ends a bid fails
\* for want of funds, or pays it out of those of another.
THEOREM EscrowIsEnough == Spec => []EscrowCovers
<1>1. Init => EscrowCovers
  <2> SUFFICES ASSUME Init, NEW d \in Denoms PROVE bank[Escrow][d] >= CurrentBids(d)
    BY DEF EscrowCovers
  <2>1. \A n \in NFTs : BidIn(n, d) = 0
    BY DEF Init, BidIn, Blank, NoCoin
  <2>2. CurrentBids(d) = 0
    <3> DEFINE f == [n \in NFTs |-> BidIn(n, d)]
    <3>1. \A n \in NFTs : f[n] = 0
      BY <2>1
    <3>2. CurrentBids(d) = SumFunctionOnSet(f, NFTs)
      BY DEF CurrentBids, SumFunction
    <3> HIDE DEF f
    <3>3. QED BY <3>1, <3>2, NFTsAssumption, SumOfZeros
  <2>3. bank[Escrow][d] = 0
    BY PartiesAssumption DEF Init, Purses, Parties
  <2>4. QED BY <2>2, <2>3
<1>2. BidsInv /\ EscrowCovers /\ [Next]_vars => EscrowCovers'
  <2> SUFFICES ASSUME BidsInv, EscrowCovers, [Next]_vars, NEW d \in Denoms
               PROVE  bank'[Escrow][d] >= CurrentBids(d)'
    BY DEF EscrowCovers
  <2>1. BidsInv'
    BY NextInv
  <2>2. bank[Escrow][d] \in Nat /\ bank'[Escrow][d] \in Nat
    BY <2>1, Actors DEF BidsInv, BankOK
  <2>3. CurrentBids(d) \in Nat /\ CurrentBids(d)' \in Nat
    BY <2>1, BidsAreNat DEF BidsInv
  <2>4. Surplus(d)' >= Surplus(d) /\ bank[Escrow][d] >= CurrentBids(d)
    BY SurplusKept DEF SurplusStep, EscrowCovers
  <2>5. QED BY <2>2, <2>3, <2>4 DEF Surplus
<1>3. QED BY <1>1, <1>2, Invariance, PTL DEF Spec
-----------------------------------------------------------------------------
(* Bids can end                                                            *)

(* The escrow can pay out the bid on any NFT. *)
LEMMA BidIsCovered ==
    ASSUME BidsInv, EscrowCovers, NEW n \in NFTs, nft[n].bidder # Nobody
    PROVE  CanPay(bank, Escrow, nft[n].bid)
<1> DEFINE bid == nft[n].bid
           d == bid.denom
           f == [m \in NFTs |-> BidIn(m, d)]
<1>1. d \in Denoms /\ bid.amount \in Nat
  BY BidIsCoin DEF BidsInv
<1>2. CurrentBids(d) = SumFunctionOnSet(f, NFTs) /\ f[n] = bid.amount
  BY DEF CurrentBids, SumFunction, BidIn
<1>3. \A m \in NFTs : f[m] \in Nat
  BY BidInNat DEF BidsInv
<1>4. bank[Escrow][d] >= CurrentBids(d) /\ bank[Escrow][d] \in Nat
  BY <1>1, Actors DEF EscrowCovers, BidsInv, BankOK
<1> HIDE DEF d, f
<1>5. SumFunctionOnSet(f, NFTs) = f[n] + SumFunctionOnSet(f, NFTs \ {n})
  BY <1>3, NFTsAssumption, SumOfRest
<1>6. SumFunctionOnSet(f, NFTs \ {n}) \in Nat
  <2>1. IsFiniteSet(NFTs \ {n})
    BY NFTsAssumption, FS_RemoveElement
  <2>2. QED BY <1>3, <2>1, SumIsNat
<1>7. bank[Escrow][d] >= bid.amount
  BY <1>1, <1>2, <1>4, <1>5, <1>6
<1>8. QED BY <1>7 DEF CanPay, d

\* what AcceptBid, RejectBid, ClaimBid and the refund of PlaceBid check of the state
\* beyond their signer, their arguments and the time
BidsCanEnd ==
    \A n \in NFTs : nft[n].bidder # Nobody =>
        /\ Minted(n) /\ activeBid[n] # NoBid
        /\ CanPay(bank, Escrow, nft[n].bid)
        /\ Claimable(n) => ClaimFee(n) <= nft[n].bid.amount

\* No bid is stuck: whatever happened before, the escrow can pay it out, the ledger knows it,
\* and, with fees of at most half the value per period, a claim's fees fit in it.  What
\* AcceptBid, RejectBid, ClaimBid and the refund of PlaceBid check, other than of their signer
\* and arguments, always holds; that the bidder then claims is what the fairness adds.
THEOREM NoBidIsStuck == ModestFees => (Spec => []BidsCanEnd)
<1> SUFFICES ASSUME ModestFees PROVE Spec => []BidsCanEnd
  OBVIOUS
<1>1. BidsInv /\ EscrowCovers /\ ClaimFeeFits => BidsCanEnd
  <2> SUFFICES ASSUME BidsInv, EscrowCovers, ClaimFeeFits, NEW n \in NFTs, nft[n].bidder # Nobody
               PROVE  /\ Minted(n) /\ activeBid[n] # NoBid
                      /\ CanPay(bank, Escrow, nft[n].bid)
                      /\ Claimable(n) => ClaimFee(n) <= nft[n].bid.amount
    BY DEF BidsCanEnd
  <2>1. Minted(n) /\ activeBid[n] \in DOMAIN bids
    BY DEF BidsInv, BidIsRecorded
  <2>2. bidSeq \in Nat /\ DOMAIN bids = 0 .. bidSeq - 1
    BY DEF BidsInv, LedgerOK, LedgerTypes
  <2>3. activeBid[n] # NoBid
    BY <2>1, <2>2 DEF NoBid
  <2>4. CanPay(bank, Escrow, nft[n].bid)
    BY BidIsCovered
  <2>5. QED BY <2>1, <2>3, <2>4 DEF ClaimFeeFits
<1>2. Spec => []ClaimFeeFits
  BY ClaimFeesFit
<1>3. QED BY <1>1, <1>2, Invariance, EscrowIsEnough, PTL
===============================================================================
