------------------------------ MODULE MCNameBids ------------------------------
(* Values of NameBids's constants for TLC. *)
EXTENDS NameBidsClaims

CONSTANTS dys, usd, alice, bob

\* decimals in tenths: a raise of 10%, a rejection fee of 30%
Settings(listed, timeout, fee, period, denoms) ==
    [alwaysListed |-> listed, bidTimeout |-> timeout, minIncrease |-> 1, rejectFee |-> 3,
     feePct |-> fee, period |-> period, denoms |-> denoms]

MCListing == Settings(FALSE, 1, 2, 1, {dys})
MCNames == Settings(TRUE, 1, 5, 1, {dys, usd})
MCSteep == Settings(TRUE, 0, 8, 2, {dys})
MCOneListing == {MCListing}
MCOneSteep == {MCSteep}
MCTwoPeriods == {MCNames, Settings(FALSE, 1, 5, 3, {dys})}
=============================================================================
