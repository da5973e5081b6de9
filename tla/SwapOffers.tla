----------------------------- MODULE SwapOffers -----------------------------
(***************************************************************************)
(* The order book of x/whaleswap next to a pool: offers with their coins   *)
(* in escrow or, liquid, with the maker, against a deposit (pfand); trades *)
(* that take offers and swap in the pool at once and are settled in one    *)
(* multisend; and the export and import of a genesis.  All coins lie in    *)
(* the one account of the module.                                          *)
(*   Handlers end with AssertInvariants.  Of its two parts, the sums are   *)
(* not a guard here: BooksBalance says that they refuse nothing.  The      *)
(* other part, the index, is one, since an import can break it.            *)
(***************************************************************************)
EXTENDS SwapPool, SequencesExt

CONSTANTS
    Shapes,         \* of offers: an amount to give, an amount to get
    Pfands,         \* what PfandPerOffer is set to: coins of at most one denom
    Routes,         \* of swaps: sequences of legs
    MaxOffers, MaxTrades    \* bounds

Leg   == [kind: {"swap_in", "swap_out"}, denom: Denoms, amount: Nat]     \* denom is what the pool gets
Nil   == [d \in Denoms |-> 0]

ASSUME OfferAssumption ==
    /\ Shapes \subseteq (Nat \ {0}) \X (Nat \ {0})
    /\ Pfands \subseteq Coins
    /\ Routes \subseteq Seq(Leg)
    /\ {MaxOffers, MaxTrades} \subseteq Nat

VARIABLES
    offers,         \* OffersMap, in the order of their ids
    byDenom,        \* OffersByHave and OffersByWant, whose keys hold for the whole life of an offer
    byStatus,       \* OffersByOwnerStatus
    byPrice,        \* OffersByPairPrice
    trades          \* TradesMap, of which nothing but the number is read

index == <<byDenom, byStatus, byPrice>>
vars  == <<poolVars, offers, index, trades>>

Statuses == {"open", "closed", "cancelled"}

Offer == [maker: Users, status: Statuses, liquid: BOOLEAN,
          have: Denoms, unitHave: Nat \ {0}, unitWant: Nat \ {0},   \* wants the other denom
          units: Nat, pfand: Coins]

Open == {i \in DOMAIN offers : offers[i].status = "open"}

\* checkIndexConsistency, what a handler asks of the state it leaves
Asserted == byDenom = Open /\ {"open"} \X Open \subseteq byStatus

-----------------------------------------------------------------------------
(* Offers *)

Gcd(a, b) == Max({g \in 1..a : a % g = 0 /\ b % g = 0})

\* the price, a function of the ratio, whichever denom comes first
Price(d, h, w) == [e \in Denoms |-> (IF e = d THEN h ELSE w) \div Gcd(h, w)]

\* k units of an offer
Given(o, k) == One(o.have, k * o.unitHave)
Asked(o, k) == One(Other(o.have), k * o.unitWant)

\* what the module keeps for an open offer: the units that remain, or the deposit
Locked(o) == IF o.liquid THEN o.pfand ELSE Given(o, o.units)

OpenKey(o)  == Price(o.have, o.units * o.unitHave, o.units * o.unitWant)
CloseKey_Swapped(o) == Price(o.have, o.unitWant, o.unitHave)
CloseKey(o) == Price(o.have, o.unitHave, o.unitWant)

\* reindexOfferOnStatusChange for the offers S, which leave the status open
Reindex(S, status) ==
    /\ byDenom' = byDenom \ S
    /\ byStatus' = (byStatus \ ({"open"} \X S)) \cup ({status} \X S)
    /\ byPrice' = byPrice \ {<<CloseKey(offers[i]), i>> : i \in S}

MakeOffer(u, d, shape, liquid, pfand) ==
    LET g == Gcd(shape[1], shape[2])
        o == [maker |-> u, status |-> "open", liquid |-> liquid, have |-> d,
              unitHave |-> shape[1] \div g, unitWant |-> shape[2] \div g, units |-> g,
              pfand |-> IF liquid THEN pfand ELSE Nil]
        i == Len(offers) + 1
    IN /\ Len(offers) < MaxOffers
       /\ bank[u][d] >= shape[1] /\ Has(u, Locked(o))
       /\ bank' = Move(u, Module, Locked(o))
       /\ offers' = Append(offers, o)
       /\ byDenom' = byDenom \cup {i}
       /\ byStatus' = byStatus \cup {<<"open", i>>}
       /\ byPrice' = byPrice \cup {<<OpenKey(o), i>>}
       /\ Asserted'
       /\ UNCHANGED <<pool, shares, supply, poolSeq, trades>>

\* anybody may cancel a liquid offer whose maker cannot deliver a unit, and earns the deposit
CancelOffer(v, i) ==
    LET o == offers[i]
        refund == IF o.liquid THEN Nil ELSE Given(o, o.units)
    IN /\ i \in Open
       /\ v = o.maker \/ (o.pfand # Nil /\ bank[o.maker][o.have] < o.unitHave)
       /\ offers' = [offers EXCEPT ![i].status = "cancelled"]
       /\ Reindex({i}, "cancelled") /\ Asserted'
       /\ bank' = [a \in Accounts |->
                      Plus(Plus(IF a = Module THEN Minus(bank[a], Plus(refund, o.pfand)) ELSE bank[a],
                                IF a = o.maker THEN refund ELSE Nil),
                           IF a = v THEN o.pfand ELSE Nil)]
       /\ UNCHANGED <<pool, shares, supply, poolSeq, trades>>

-----------------------------------------------------------------------------
(* The operations of a trade *)

\* a swap after those before it; an amount of 0 means what the last one paid in that denom
After(s, leg) ==
    LET d == leg.denom
        n == IF leg.kind = "swap_in" /\ leg.amount = 0 THEN s.chained[d] ELSE leg.amount
        out == IF leg.kind = "swap_in" THEN ExactIn(s.coins, d, n) ELSE n
        in == IF leg.kind = "swap_in" THEN n ELSE ExactOut(s.coins, d, n)
    IN IF ~s.ok \/ n = 0 \/ out <= 0 \/ out >= s.coins[Other(d)] THEN [s EXCEPT !.ok = FALSE]
       ELSE [ok |-> TRUE, coins |-> Swapped(s.coins, d, in, out),
             delta |-> [s.delta EXCEPT ![d] = @ + in, ![Other(d)] = @ - out],
             chained |-> [s.chained EXCEPT ![Other(d)] = out]]

\* the pool's coins after a route, and what the module's account gets by it, per denom
Swaps(route) ==
    LET s[k \in 0..Len(route)] ==
            IF k = 0 THEN [ok |-> TRUE, coins |-> pool.coins, delta |-> Nil, chained |-> Nil]
            ELSE After(s[k-1], route[k])
    IN s[Len(route)]

Delta(route) == IF route = <<>> THEN Nil ELSE Swaps(route).delta

\* takes: a number of units for some of the open offers
Takes == UNION {[S -> UNION {1..offers[i].units : i \in S}] : S \in SUBSET Open}

CanTake(t) == \A i \in DOMAIN t :
    LET o == offers[i]
    IN t[i] <= o.units /\ (o.liquid => bank[o.maker][o.have] >= t[i] * o.unitHave)

CanSwap(route) == route # <<>> => /\ pool # NoPool /\ pool.uses + Len(route) <= MaxUses
                                  /\ Swaps(route).ok

\* of the units t, in the denom d: what offers in S give and ask, and the deposits set free
GivenOf(t, d, S) == SumFunction([i \in S |-> Given(offers[i], t[i])[d]])
AskedOf(t, d, S) == SumFunction([i \in S |-> Asked(offers[i], t[i])[d]])

Done(t) == {i \in DOMAIN t : t[i] = offers[i].units}

Freed_Always(t, d) == SumFunction([i \in DOMAIN t |-> offers[i].pfand[d]])
Freed(t, d) == SumFunction([i \in Done(t) |-> offers[i].pfand[d]])

OffersOf(t, S)   == {i \in DOMAIN t : offers[i].maker \in S}
Liquid(t, S)     == {i \in OffersOf(t, S) : offers[i].liquid}
Escrowed(t)      == {i \in DOMAIN t : ~offers[i].liquid}
Makers(u)        == Users \ {u}

-----------------------------------------------------------------------------
(* Settlement.  No step of it relates one denom to another: what follows is about one denom, whose *)
(* amount the swaps leave with the pool is n. *)

Rows == [trader: Nat, module: Nat, makers: Nat]
Row(trader, module, makers) == [trader |-> trader, module |-> module, makers |-> makers]
Sum3(row) == row.trader + row.module + row.makers

\* what is paid in ...
Ins(u, t, n, d) ==
    Row(GivenOf(t, d, Liquid(t, {u})) + (IF n > 0 THEN n ELSE 0),
        GivenOf(t, d, Escrowed(t)) + Freed(t, d) + (IF n < 0 THEN -n ELSE 0),
        GivenOf(t, d, Liquid(t, Makers(u))))

\* ... and out; nobody is paid for the own offer
Outs(u, t, n, d) ==
    Row(GivenOf(t, d, DOMAIN t) + Freed(t, d) + (IF n < 0 THEN -n ELSE 0),
        IF n > 0 THEN n ELSE 0,
        AskedOf(t, d, OffersOf(t, Makers(u))))

\* tradeNetAndCover: what the trader gets goes to makers who want it, and what they miss the
\* trader pays, as far as the balance goes
Netted(out) == Lower(out.trader, out.makers)

Covered(in, out, balance) ==
    Row(in.trader + Lower(out.makers - Netted(out), balance), in.module, in.makers)

\* the makers' rows shrink too, where neither the module nor another maker pays
Reduced(in, out) ==
    Row(out.trader - Netted(out), out.module,
        IF in.module + in.makers = 0 THEN out.makers - Netted(out) ELSE out.makers)

\* MakeTrade nets what the trader pays and gets, and takes it off the module's rows
SelfNet(row, n) ==
    Row(row.trader - n, IF row.module > 0 THEN row.module - n ELSE row.module, row.makers)

Settled(in0, out0, balance) ==
    LET in  == Covered(in0, out0, balance)
        out == Reduced(in0, out0)
        own == Lower(in.trader, out.trader)
    IN [covered |-> Sum3(out) <= Sum3(in), in |-> SelfNet(in, own), out |-> SelfNet(out, own)]

Settlement(u, t, n, d) == Settled(Ins(u, t, n, d), Outs(u, t, n, d), bank[u][d])

\* rows below zero make Coins.Sub panic
Settlements == [Denoms -> [covered: {TRUE}, in: Rows, out: Rows]]

\* wsMoveCoins takes only rows with equal sums
Balanced_Any(s) == TRUE
Balanced(s) == \A d \in Denoms : Sum3(s[d].in) = Sum3(s[d].out)

Funded_Any(u, t, s) == TRUE
Funded(u, t, s) == \A d \in Denoms :
    /\ bank[u][d] >= s[d].in.trader /\ bank[Module][d] >= s[d].in.module
    /\ \A m \in Makers(u) : bank[m][d] >= GivenOf(t, d, Liquid(t, {m}))

\* which makers' rows shrink is up to the order of a map
Shrinks(u, t, s) ==
    LET n(d) == AskedOf(t, d, OffersOf(t, Makers(u))) - s[d].out.makers
    IN {c \in [Makers(u) -> [Denoms -> UNION {0..n(d) : d \in Denoms}]] : \A d \in Denoms :
           /\ SumFunction([m \in Makers(u) |-> c[m][d]]) = n(d)
           /\ \A m \in Makers(u) : c[m][d] <= AskedOf(t, d, OffersOf(t, {m}))}

\* first everybody pays the module, then the module pays everybody
Settle(u, t, s, c) ==
    bank' = [a \in Accounts |-> [d \in Denoms |-> bank[a][d] +
               CASE a = u -> s[d].out.trader - s[d].in.trader
                 [] a = Module -> s[d].in.trader + s[d].in.makers - s[d].out.trader - s[d].out.makers
                 [] a \in Makers(u) -> AskedOf(t, d, OffersOf(t, {a})) - c[a][d] - GivenOf(t, d, Liquid(t, {a}))
                 [] OTHER -> 0]]

-----------------------------------------------------------------------------
(* Trades and genesis *)

\* max_input and min_output are further reasons to fail and are left out
MakeTrade(u, t, route) ==
    LET delta == Delta(route)
        s == [d \in Denoms |-> Settlement(u, t, delta[d], d)]
    IN /\ DOMAIN t # {} \/ route # <<>>
       /\ trades < MaxTrades /\ trades' = trades + 1
       /\ s \in Settlements /\ Balanced(s) /\ Funded(u, t, s)
       /\ \E c \in Shrinks(u, t, s) : Settle(u, t, s, c)
       /\ offers' = [i \in DOMAIN offers |->
                        IF i \notin DOMAIN t THEN offers[i]
                        ELSE [offers[i] EXCEPT !.units = @ - t[i],
                                               !.status = IF i \in Done(t) THEN "closed" ELSE "open"]]
       /\ Reindex(Done(t), "closed") /\ Asserted'
       /\ pool' = IF route = <<>> THEN pool
                  ELSE [pool EXCEPT !.coins = Swaps(route).coins, !.uses = @ + Len(route)]
       /\ UNCHANGED <<shares, supply, poolSeq>>

\* every offer, open or not, comes into the index by denom; the ids of pools begin
\* after the last one kept
ExportImport ==
    /\ byDenom' = DOMAIN offers
    /\ byStatus' = {<<offers[i].status, i>> : i \in DOMAIN offers}
    /\ byPrice' = {<<OpenKey(offers[i]), i>> : i \in Open}
    /\ poolSeq' = IF pool = NoPool THEN 0 ELSE pool.id
    /\ UNCHANGED <<bank, pool, shares, supply, offers, trades>>

Init ==
    /\ PoolInit
    /\ offers = <<>>
    /\ byDenom = {} /\ byStatus = {} /\ byPrice = {}
    /\ trades = 0

Next ==
    \/ \E u \in Users :
         \/ PoolMessage(u) /\ Asserted /\ UNCHANGED <<offers, index, trades>>
         \/ \E d \in Denoms, s \in Shapes : \/ MakeOffer(u, d, s, FALSE, Nil)
                                           \/ \E p \in Pfands : MakeOffer(u, d, s, TRUE, p)
         \/ \E i \in DOMAIN offers : CancelOffer(u, i)
         \/ \E r \in Routes : CanSwap(r) /\ \E t \in Takes : CanTake(t) /\ MakeTrade(u, t, r)
    \/ ExportImport

Spec == Init /\ [][Next]_vars

-----------------------------------------------------------------------------
(* Properties *)

\* Types; nobody has a negative balance: what wsMoveCoins takes from an account is there, however
\* much the netting leaves of the rows.
TypeOK ==
    /\ bank \in [Accounts -> Coins]
    /\ pool \in Pool \cup {NoPool}
    /\ shares \in [Users -> Nat] /\ supply \in Nat /\ poolSeq \in Nat
    /\ offers \in Seq(Offer)
    /\ byDenom \subseteq DOMAIN offers /\ byStatus \subseteq Statuses \X DOMAIN offers
    /\ \A e \in byPrice : e[1] \in Coins /\ e[2] \in DOMAIN offers
    /\ trades \in 0..MaxTrades

\* what the module owes, by the tallies of its invariant
Owed(d) == SumFunction([i \in Open |-> Locked(offers[i])[d]]) + Reserve(d)

\* checkModuleBalancesInvariant refuses no message, ever: one coin too many or too few would stop
\* every handler that ends with it.  The account of the module holds what it owes to the coin,
\* through any netting of takes of both kinds, released deposits, swaps and own offers.
BooksBalance == \A d \in Denoms : bank[Module][d] = Owed(d)

\* a maker's offers, what a step takes of them, asks for it and gives of what lies with the maker
MadeBy(m)   == {i \in DOMAIN offers : offers[i].maker = m}
Taken(i)    == offers[i].units - offers'[i].units
AskedBy(m, d) == SumFunction([i \in MadeBy(m) |-> Asked(offers[i], Taken(i))[d]])
GivenBy(m, d) == SumFunction([i \in {j \in MadeBy(m) : offers[j].liquid} |-> Given(offers[i], Taken(i))[d]])

\* However a trade is netted, a maker other than the trader is paid the asked price of every unit
\* taken and gives what liquid offers promise of it, no more; others are not touched.
OnlyByPrice ==
    [][(\E i \in DOMAIN offers : Taken(i) # 0) =>
          \E u \in Users : \A m \in Makers(u), d \in Denoms :
              bank'[m][d] = bank[m][d] + AskedBy(m, d) - GivenBy(m, d)]_vars

\* The book by price and the one by status are exact, although the price key of an offer is made
\* of what remains when it is written and of its units when it is removed; no open offer is lost
\* from the book by denom.
IndexExact ==
    /\ byStatus = {<<offers[i].status, i>> : i \in DOMAIN offers}
    /\ byPrice = {<<OpenKey(offers[i]), i>> : i \in Open}
    /\ Open \subseteq byDenom

\* A trade of one swap, as the pool's own module and the loans take it for granted, is what the
\* general netting makes of it.
SwapsAgree ==
    [][trades' # trades => \A u \in Users, r \in {q \in Routes : Len(q) = 1} :
         LET swap == IF r[1].kind = "swap_in" THEN SwapIn(u, r[1].denom, r[1].amount)
                                              ELSE SwapOut(u, r[1].denom, r[1].amount)
         IN swap /\ UNCHANGED offers <=> CanSwap(r) /\ MakeTrade(u, <<>>, r)]_vars

=============================================================================
