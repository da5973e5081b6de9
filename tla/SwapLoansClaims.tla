--------------------------- MODULE SwapLoansClaims ---------------------------
(***************************************************************************)
(* What the docs of x/whaleswap say of loans and the code does not do.     *)
(***************************************************************************)
EXTENDS SwapLoans

\* Closing, covering and liquidating return errors, "no panics": what the pool has lent is never
\* less than what a loan still has to repay.
RepayingNeverPanics ==
    \A i \in ActiveLoans : HasPool(loans[i]) => Lent(loans[i].owes, loans[i].borrowed)

\* RemoveCollateral withdraws "excess collateral [...] while maintaining the minimum collateral
\* ratio": at the prices and the interest of the moment.
RemovalKeepsRatio ==
    [][\A i \in DOMAIN loans, m \in Changes :
          RemoveCollateral(i, m) /\ HasPool(loans[i]) =>
              AtLeast(Ratio(loans[i]), MinRatio, DecOne * loans[i].borrowed + Interest(loans[i]))']_vars

\* Any liquidator may finalize "any position with initialized liquidation": its pool is there.
LiquidationHasPool ==
    \A i \in DOMAIN loans : loans[i].status = "LIQUIDATING" => HasPool(loans[i])

=============================================================================
