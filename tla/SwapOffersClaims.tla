-------------------------- MODULE SwapOffersClaims --------------------------
(***************************************************************************)
(* What x/whaleswap says of offers and the code does not do.               *)
(***************************************************************************)
EXTENDS SwapOffers

\* checkIndexConsistency: "each OffersByHave entry must point to a valid open offer".
IndexedAreOpen == byDenom \subseteq Open

\* MakeTrade's self-netting is said to "keep totals balanced by subtracting the same amount from
\* the module's symmetric entries".
NettingBalances ==
    \A u \in Users, t \in Takes, r \in Routes, d \in Denoms : CanTake(t) /\ CanSwap(r) =>
        LET in0 == Ins(u, t, Delta(r)[d], d)
            out0 == Outs(u, t, Delta(r)[d], d)
            in == Covered(in0, out0, bank[u][d])
            out == Reduced(in0, out0)
            n == Lower(in.trader, out.trader)
        IN Sum3(in) = Sum3(out) => Sum3(SelfNet(in, n)) = Sum3(SelfNet(out, n))

=============================================================================
