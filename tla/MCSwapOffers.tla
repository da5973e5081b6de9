---------------------------- MODULE MCSwapOffers ----------------------------
(* Values of SwapOffers' constants for TLC. *)
EXTENDS SwapOffersClaims, TLC

CoinsOf(x, y) == [d \in Denoms |-> IF d = X THEN x ELSE y]
In(d, n)      == [kind |-> "swap_in", denom |-> d, amount |-> n]
Out(d, n)     == [kind |-> "swap_out", denom |-> d, amount |-> n]

MCReserves == {CoinsOf(4, 4)}
MCShapes   == {<<2, 4>>}
MCPfands   == {CoinsOf(1, 0), CoinsOf(0, 1)}

\* none, one swap, and there and back again
MCRoutes == {<<>>} \cup UNION {{<<In(d, 3)>>, <<Out(d, 1), In(Other(d), 0)>>} : d \in Denoms}

Symmetry == Permutations(Users) \cup Permutations(Denoms)
=============================================================================
