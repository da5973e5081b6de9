----------------------------- MODULE SwapLoans -----------------------------
(***************************************************************************)
(* Leverage in x/whaleswap: loans out of a pool against collateral.  What  *)
(* is borrowed is swapped in the same pool at once; the vault holds what   *)
(* comes out, the module's account the collateral.  A loan is closed by    *)
(* swapping back, covered by its owner, or liquidated by anybody.  Heights *)
(* stand for block times: a block takes one unit of time.                  *)
(* The handlers end with assertions on the balances of the module and the  *)
(* vault; they are not guards here, BooksMatch says they never refuse.     *)
(***************************************************************************)
EXTENDS SwapPool, Sequences, Functions

CONSTANTS
    Rate,               \* interest per unit of time
    MinRatio,           \* MinInitialCollateralRatio
    LiqThreshold,       \* LiquidationThreshold
    MaxBorrow,          \* MaxBorrowPercent
    CloseDelay,         \* BlockDelayBeforeClose
    LiqDelay,           \* BlockDelayBeforeLiquidation
    Borrows, Collaterals, Changes, Payments,    \* amounts in messages
    Fractions,          \* of a loan, to close
    MaxLoans, MaxHeight \* bounds

ASSUME LoanAssumption ==
    /\ {Rate, CloseDelay, LiqDelay, MaxLoans, MaxHeight} \subseteq Nat
    /\ MinRatio \in Nat /\ MinRatio > DecOne
    /\ LiqThreshold \in Nat /\ LiqThreshold > DecOne
    /\ MaxBorrow \in 0..DecOne-1
    /\ Borrows \cup Collaterals \cup Changes \cup Payments \subseteq Nat \ {0}
    /\ Fractions \subseteq 1..DecOne

VARIABLES
    loans,      \* LeveragePositions, in the order of their ids
    height      \* of the block

vars == <<poolVars, loans, height>>

Statuses == {"OPEN", "LIQUIDATING", "CLOSED", "LIQUIDATED"}

\* LiquidationStatus is INITIALIZED in the status LIQUIDATING and in no other
Loan == [user: Users, pool: Nat, status: Statuses, liqHeight: Nat, created: Nat,
         owes: Denoms, borrowed: Nat,       \* Borrowed
         held: Nat,                         \* Held, in the other denom
         by: Denoms, coll: Nat,             \* Collateral
         accrued: Nat, rem: Nat,            \* AccruedInterest and its remainder in 1/DecOne
         settled: Nat]                      \* LastInterestSettlementTime

Active(p) == p.status \in {"OPEN", "LIQUIDATING"}
HasPool(p) == pool # NoPool /\ pool.id = p.pool

-----------------------------------------------------------------------------
(* Interest and health *)

\* InterestStatus, in 1/DecOne
Interest(p) == DecOne * p.accrued + p.rem + p.borrowed * Rate * (height - p.settled)

SettleInterest(p) == [p EXCEPT !.accrued = Interest(p) \div DecOne,
                               !.rem = Interest(p) % DecOne,
                               !.settled = height]

\* what is left of x when the fraction f is closed
Kept(x, f) == ((DecOne - f) * x) \div DecOne

\* n coins d at the prices of the reserves c, in coins e, as a ratio
Worth(n, d, e, c) == IF d = e THEN <<n, 1>> ELSE <<n * c[e], c[d]>>

\* a worth over a debt in 1/DecOne
AtLeast(worth, ratio, debt) == worth[1] * DecOne * DecOne >= ratio * debt * worth[2]

\* ensureHealthyCollateralRatio: the collateral counts as if it were in the borrowed denom
Healthy(coll, debt) == \A ratio \in {MinRatio, LiqThreshold} : AtLeast(<<coll, 1>>, ratio, debt)

\* resetInterestRemainderIfNoDebt
Reset(p) == IF p.borrowed = 0 /\ p.accrued = 0 THEN [p EXCEPT !.rem = 0] ELSE p

\* ClearLiquidationPending
Cleared(p) == [p EXCEPT !.status = "OPEN", !.liqHeight = 0]

\* what is repaid comes off TotalBorrowed, which Coins.Sub or SafeSub do not let fall below zero
Lent_Any(d, n) == TRUE
Lent(d, n) == pool.borrowed[d] >= n

\* the vault hands h to the module's account, which pays c to u
Handed_VaultKeeps(u, h, c) == [bank EXCEPT ![Module] = Minus(Plus(@, h), c), ![u] = Plus(@, c)]
Handed(u, h, c) ==
    [bank EXCEPT ![Vault] = Minus(@, h), ![Module] = Minus(Plus(@, h), c), ![u] = Plus(@, c)]

-----------------------------------------------------------------------------
(* Opening *)

OpenPosition(u, d, n, e, m) ==
    LET lent == [pool.coins EXCEPT ![d] = @ - n]
        held == ExactIn(lent, d, n)
        coins == [pool.coins EXCEPT ![Other(d)] = @ - held]
        free == pool.coins[d] - pool.borrowed[d]
    IN /\ pool # NoPool /\ Len(loans) < MaxLoans
       /\ n * DecOne <= MaxBorrow * free
       /\ held > 0
       /\ \A c \in {pool.coins, coins} : AtLeast(Worth(m, e, d, c), MinRatio, n * DecOne)
       /\ bank[u][e] >= m
       /\ pool' = [pool EXCEPT !.coins = coins, !.borrowed[d] = @ + n]
       /\ bank' = [bank EXCEPT ![u] = Minus(@, One(e, m)),
                               ![Module] = Plus(Minus(@, One(Other(d), held)), One(e, m)),
                               ![Vault] = Plus(@, One(Other(d), held))]
       /\ loans' = Append(loans,
              [user |-> u, pool |-> pool.id, status |-> "OPEN", liqHeight |-> 0, created |-> height,
               owes |-> d, borrowed |-> n, held |-> held, by |-> e, coll |-> m,
               accrued |-> 0, rem |-> 0, settled |-> height])
       /\ UNCHANGED <<shares, supply, poolSeq, height>>

-----------------------------------------------------------------------------
(* Closing *)

Closeable_Ended(p) == HasPool(p) /\ height >= p.created + CloseDelay
Closeable(p) == Active(p) /\ HasPool(p) /\ height >= p.created + CloseDelay

\* ApplyInterestPayment: interest first, and all of it
Paid(p, n) == LET interest == Lower(n, p.accrued)
              IN Reset([p EXCEPT !.accrued = @ - interest, !.borrowed = @ - (n - interest)])

\* the pool gets coins, the vault gives h of the loan's held coins, u gets the payment
Settle(i, q, u, coins, principal, h, payment) ==
    LET d == loans[i].owes
    IN /\ Lent(d, principal)
       /\ pool' = [pool EXCEPT !.coins = coins, !.borrowed[d] = @ - principal]
       /\ bank' = Handed(u, One(Other(d), h), payment)
       /\ loans' = [loans EXCEPT ![i] = q]
       /\ UNCHANGED <<shares, supply, poolSeq, height>>

KeepsPart_Rounds(p, f) ==
    Healthy(Kept(p.coll, f), DecOne * (Kept(p.borrowed, f) + Kept(p.accrued, f)) + p.rem)

\* a partial close keeps something of each part and a ratio that is healthy
KeepsPart(p, f) ==
    /\ \A x \in {p.borrowed, p.held, p.coll} : x > 0 => Kept(x, f) > 0
    /\ Healthy(Kept(p.coll, f), DecOne * (Kept(p.borrowed, f) + Kept(p.accrued, f)) + p.rem)

ClosePosition(i, f) ==
    LET p == SettleInterest(loans[i])
        d == p.owes
        gone(x) == x - Kept(x, f)
        due == gone(p.borrowed) + gone(p.accrued)
        proceeds == ExactIn(pool.coins, Other(d), gone(p.held))
        swapped == Swapped(pool.coins, Other(d), gone(p.held), proceeds)
        spent == ExactOut(swapped, Other(d), due - proceeds)
        part == [Paid(p, due) EXCEPT !.held = @ - gone(p.held), !.coll = @ - gone(p.coll)]
        q == IF f = DecOne THEN [part EXCEPT !.status = "CLOSED", !.liqHeight = 0] ELSE part
        End(coins, payment) ==
            Settle(i, q, p.user, Plus(coins, One(d, due)), gone(p.borrowed), gone(p.held), payment)
    IN /\ Closeable(p)
       /\ f < DecOne => KeepsPart(p, f)
       /\ proceeds > 0
       /\ \/ \* the proceeds pay the debt
             /\ proceeds >= due
             /\ End(swapped, Plus(One(d, proceeds - due), One(p.by, gone(p.coll))))
          \/ \* collateral of the same denom pays the rest
             /\ proceeds < due /\ p.by = d
             /\ due - proceeds <= gone(p.coll)
             /\ End(swapped, One(d, gone(p.coll) - (due - proceeds)))
          \/ \* collateral of the other denom is swapped for the rest
             /\ proceeds < due /\ p.by # d
             /\ due - proceeds < swapped[d]
             /\ spent <= gone(p.coll)
             /\ End(Swapped(swapped, Other(d), spent, due - proceeds), One(p.by, gone(p.coll) - spent))

-----------------------------------------------------------------------------
(* Covering *)

\* CoverPosition with at least the whole debt: only what the proceeds leave open is paid
CoverAll(i, n) ==
    LET p == SettleInterest(loans[i])
        d == p.owes
        due == p.borrowed + p.accrued
        proceeds == ExactIn(pool.coins, Other(d), p.held)
        need == IF proceeds < due THEN due - proceeds ELSE 0
        profit == IF proceeds > due THEN proceeds - due ELSE 0
        coins == Swapped(pool.coins, Other(d), p.held, proceeds)
        back == Plus(One(d, profit - need), One(p.by, p.coll))
    IN /\ Closeable(p) /\ n >= due
       /\ proceeds > 0
       /\ bank[p.user][d] >= need
       /\ Settle(i, [p EXCEPT !.borrowed = 0, !.rem = 0, !.status = "CLOSED", !.liqHeight = 0],
                 p.user, Plus(coins, One(d, due)), p.borrowed, p.held, back)

CoverSome(i, n) ==
    LET p == SettleInterest(loans[i])
        d == p.owes
    IN /\ Active(p) /\ HasPool(p)
       /\ n >= p.accrued /\ n < p.borrowed + p.accrued
       /\ bank[p.user][d] >= n
       /\ Settle(i, Cleared(Paid(p, n)), p.user, Plus(pool.coins, One(d, n)), n - p.accrued, 0, One(d, -n))

-----------------------------------------------------------------------------
(* Collateral *)

\* a liquidation that has begun is called off, whatever the ratio is then
AddCollateral(i, m) ==
    LET p == loans[i]
    IN /\ Active(p) /\ bank[p.user][p.by] >= m
       /\ bank' = Move(p.user, Module, One(p.by, m))
       /\ loans' = [loans EXCEPT ![i] = Cleared([p EXCEPT !.coll = @ + m])]
       /\ UNCHANGED <<pool, shares, supply, poolSeq, height>>

\* the interest since the last settlement does not count
RemoveCollateral(i, m) ==
    LET p == loans[i]
    IN /\ p.status = "OPEN" /\ m < p.coll
       /\ Healthy(p.coll - m, DecOne * (p.borrowed + p.accrued) + p.rem)
       /\ bank' = Move(Module, p.user, One(p.by, m))
       /\ loans' = [loans EXCEPT ![i].coll = @ - m]
       /\ UNCHANGED <<pool, shares, supply, poolSeq, height>>

-----------------------------------------------------------------------------
(* Liquidation *)

Ratio(p) == Worth(p.coll, p.by, p.owes, pool.coins)

InitializeLiquidation(i) ==
    LET p == loans[i]
    IN /\ p.status = "OPEN" /\ HasPool(p)
       /\ ~AtLeast(Ratio(p), LiqThreshold, DecOne * p.borrowed + Interest(p))
       /\ loans' = [loans EXCEPT ![i].status = "LIQUIDATING", ![i].liqHeight = height]
       /\ UNCHANGED <<poolVars, height>>

\* the liquidator pays the debt and gets all the collateral, the pool what was held
FinalizeLiquidation(v, i) ==
    LET p == SettleInterest(loans[i])
        due == p.borrowed + p.accrued
        q == [p EXCEPT !.status = "LIQUIDATED", !.liqHeight = 0,
                       !.borrowed = 0, !.held = 0, !.accrued = 0, !.rem = 0]
        coins == Plus(pool.coins, Plus(One(p.owes, due), One(Other(p.owes), p.held)))
    IN /\ p.status = "LIQUIDATING" /\ HasPool(p)
       /\ height >= p.liqHeight + LiqDelay
       /\ bank[v][p.owes] >= due
       /\ Settle(i, q, v, coins, p.borrowed, p.held, Minus(One(p.by, p.coll), One(p.owes, due)))

-----------------------------------------------------------------------------
\* at the bound the height stays
Block == /\ height' = Lower(height + 1, MaxHeight)
         /\ UNCHANGED <<poolVars, loans>>

Init == PoolInit /\ loans = <<>> /\ height = 0

TraderMessage(u) ==
    \E d \in Denoms, n \in Borrows, e \in Denoms, m \in Collaterals : OpenPosition(u, d, n, e, m)

OwnerMessage(i) ==
    \/ \E f \in Fractions : ClosePosition(i, f)
    \/ \E n \in Payments : CoverAll(i, n) \/ CoverSome(i, n)
    \/ \E m \in Changes : AddCollateral(i, m) \/ RemoveCollateral(i, m)

LiquidatorMessage(u, i) == InitializeLiquidation(i) \/ FinalizeLiquidation(u, i)

Next == \/ \E u \in Users : \/ PoolMessage(u) /\ UNCHANGED <<loans, height>>
                            \/ TraderMessage(u)
                            \/ \E i \in DOMAIN loans : LiquidatorMessage(u, i)
        \/ \E i \in DOMAIN loans : OwnerMessage(i)
        \/ Block

Spec == Init /\ [][Next]_vars

-----------------------------------------------------------------------------
(* Properties *)

\* Every variable keeps its type: no balance, no reserve and no part of a loan goes below zero
\* in any handler, and a pool has reserves of both coins.
TypeOK == /\ bank \in [Accounts -> Coins]
          /\ pool \in Pool \cup {NoPool}
          /\ shares \in [Users -> Nat] /\ supply \in Nat
          /\ poolSeq \in Nat
          /\ loans \in Seq(Loan)
          /\ height \in Nat

ActiveLoans == {i \in DOMAIN loans : Active(loans[i])}

\* of a loan that is not ended: collateral in coins d, and coins d held against it
Secures(p, d) == IF Active(p) /\ p.by = d THEN p.coll ELSE 0
Holds(p, d)   == IF Active(p) /\ p.owes = Other(d) THEN p.held ELSE 0

Collateral(d) == SumFunction([i \in DOMAIN loans |-> Secures(loans[i], d)])
Held(d)       == SumFunction([i \in DOMAIN loans |-> Holds(loans[i], d)])

\* AssertInvariants and AssertBorrowVaultInvariant, which the handlers end with, refuse no
\* message: the module's account holds the reserves and the collateral of active loans, the vault
\* holds what those loans hold, to the coin, whatever was swapped, rounded and paid out on the way.
BooksMatch == \A d \in Denoms : /\ bank[Module][d] = Reserve(d) + Collateral(d)
                                /\ bank[Vault][d] = Held(d)

\* A loan that is not ended has a debt, something held against it and collateral, so that it can
\* be valued: AddCollateral divides by the debt, and a close of nothing held is refused.  Partial
\* closes and covers round each part on its own.
ActiveBacked == \A i \in ActiveLoans :
                    LET p == loans[i]
                    IN p.borrowed > 0 /\ p.held > 0 /\ p.coll > 0 /\ p.rem < DecOne

\* A loan that was closed or liquidated is never settled, paid or paid out a second time.
EndedForever == [][\A i \in DOMAIN loans : ~Active(loans[i]) => loans'[i] = loans[i]]_vars

\* what is owed to the pool, in coins d
Owes(p, d) == IF Active(p) /\ HasPool(p) /\ p.owes = d
              THEN p.borrowed + Interest(p) \div DecOne ELSE 0
Owed(d)    == SumFunction([i \in DOMAIN loans |-> Owes(loans[i], d)])

\* What a share stands for, the product of the reserves with the loans that are paid back counted
\* in, does not fall, through any rounding of a swap, an addition, a withdrawal, a partial or a full
\* close, a cover or a liquidation.  Opening a loan and an unbalanced addition are excepted: one
\* takes coins out against a debt, the other gives shares for one coin only.
SharesKeepWorth ==
    [][LET gain(d) == pool'.coins[d] + Owed(d)' - Owed(d)
       IN \/ pool = NoPool \/ pool' = NoPool
          \/ Len(loans') > Len(loans)
          \/ \E u \in Users, a \in Additions : AddUnbalanced(u, a)
          \/ gain(X) * gain(Y) * supply * supply >= pool.coins[X] * pool.coins[Y] * supply' * supply']_vars

=============================================================================
