----------------------------- MODULE NameAuction -----------------------------
(***************************************************************************)
(* What the nameservice promises about the bids on its NFTs, without       *)
(* money, time, listing or ledger: an item has at most one standing offer, *)
(* an offer is replaced only by a higher one in the same denomination, and *)
(* an item changes hands only by a gift of whoever controls it or by a     *)
(* sale to the standing offer.                                             *)
(***************************************************************************)
EXTENDS Integers

CONSTANTS Items, Bidders, Holders, Denoms, Nobody

VARIABLES
    holder,     \* who holds an item; Nobody while it does not exist
    offer       \* the standing offer on an item, or NoOffer

NoOffer == [by |-> Nobody, denom |-> Nobody, amount |-> 0]
Offers  == [by: Bidders, denom: Denoms, amount: Nat \ {0}]

TypeOK == /\ holder \in [Items -> Holders \cup {Nobody}]
          /\ offer \in [Items -> Offers \cup {NoOffer}]

Init == /\ holder = [i \in Items |-> Nobody]
        /\ offer = [i \in Items |-> NoOffer]

Exists(i) == holder[i] # Nobody

Create(i) == /\ ~Exists(i)
             /\ \E h \in Holders : holder' = [holder EXCEPT ![i] = h]
             /\ UNCHANGED offer

\* anything may be offered first; after that only more of the same coin
Bid(i) == /\ Exists(i)
          /\ offer'[i] \in Offers
          /\ offer' = [offer EXCEPT ![i] = offer'[i]]
          /\ offer[i] # NoOffer => /\ offer'[i].denom = offer[i].denom
                                   /\ offer'[i].amount > offer[i].amount
          /\ UNCHANGED holder

Sell(i) == /\ offer[i] # NoOffer
           /\ holder' = [holder EXCEPT ![i] = offer[i].by]
           /\ offer' = [offer EXCEPT ![i] = NoOffer]

TurnDown(i) == /\ offer[i] # NoOffer
               /\ offer' = [offer EXCEPT ![i] = NoOffer]
               /\ UNCHANGED holder

\* the standing offer stays: the new holder may take it
Give(i) == /\ Exists(i)
           /\ \E h \in Holders : holder' = [holder EXCEPT ![i] = h]
           /\ UNCHANGED offer

Destroy(i) == /\ Exists(i)
              /\ holder' = [holder EXCEPT ![i] = Nobody]
              /\ offer' = [offer EXCEPT ![i] = NoOffer]

Next == \E i \in Items : \/ Create(i) \/ Bid(i) \/ Sell(i)
                         \/ TurnDown(i) \/ Give(i) \/ Destroy(i)

Spec == Init /\ [][Next]_<<holder, offer>>
=============================================================================
