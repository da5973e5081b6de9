---------------------------- MODULE NameBidsClaims ----------------------------
(***************************************************************************)
(* What the comments and docs of x/nameservice say of bids and the code    *)
(* does not do; each is refuted by a run of its own.                       *)
(***************************************************************************)
EXTENDS NameBids

\* PlaceBid "refund[s] any previous bidder" and bid funds are escrowed only until
\* the bid ends: the escrow holds the current bids and nothing else.
EscrowIsCurrentBids == \A d \in Denoms : bank[Escrow][d] = CurrentBids(d)

\* The status BID_OUTBID is "superseded by a later higher bid".
OutbidByHigher ==
    \A id \in DOMAIN bids : bids[id].status = "OUTBID" =>
        LET next == bids[bids[id].replacedBy] IN
           next.amount.denom = bids[id].amount.denom => next.amount.amount > bids[id].amount.amount

\* The new valuation of a rejection is "higher than current valuation".
RejectRaisesValuation ==
    [][\A n \in NFTs, id \in DOMAIN bids :
          /\ bids[id].nft = n /\ bids[id].status = "ACTIVE" /\ bids'[id].status = "REJECTED"
          /\ nft'[n].valuation.denom = nft[n].valuation.denom
          => nft'[n].valuation.amount > nft[n].valuation.amount]_vars

\* ClaimBid returns errors, "no panics": Coins.Sub never gets a fee above the bid,
\* for any fee percentage the parameters allow (up to 1).
ClaimNeverPanics == \A n \in NFTs : Claimable(n) => ClaimFee(n) <= nft[n].bid.amount

\* A claim "resets valuation expiry to bid timestamp".
ClaimResetsExpiry ==
    [][\A n \in NFTs, id \in DOMAIN bids :
          bids[id].nft = n /\ bids[id].status = "ACTIVE" /\ bids'[id].status = "CLAIMED"
          => nft'[n].expiry = nft[n].bidTime]_vars

\* A bid record that ValidateGenesis accepts.
ValidRecord(id, r) == id # 0 /\ r.nft \in NFTs /\ r.bidder # Nobody /\ r.amount.amount > 0

\* ValidateGenesis checks "that the expected invariants hold[]" of an exported
\* state: every record of the ledger passes it.
ExportedBidsAreValid == \A id \in DOMAIN bids : ValidRecord(id, bids[id])
=============================================================================
