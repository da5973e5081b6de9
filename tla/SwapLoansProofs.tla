--------------------------- MODULE SwapLoansProofs ---------------------------
(***************************************************************************)
(* Proofs about SwapLoans for any accounts, reserves, amounts, rates,      *)
(* ratios and delays.  First the pool and the loans, which need no account *)
(* to be looked at (LoansInv); then the accounts (BooksInv), where every   *)
(* handler has to move exactly what the reserves, the collateral and the   *)
(* held coins change by; last, what the loans owe to the pool and what a   *)
(* share of it is worth.                                                   *)
(***************************************************************************)
EXTENDS SwapLoans, SwapPoolProofs, SumProofs

Backed(p) == p.borrowed > 0 /\ p.held > 0 /\ p.coll > 0 /\ p.rem < DecOne

\* an amount that counts while the loan is active
Out(p, n) == IF Active(p) THEN n ELSE 0

\* A loan as the handlers leave it at height h.
Sound(p, h) == /\ p \in Loan
               /\ p.settled <= h
               /\ Active(p) => Backed(p)

(* The inductive invariant: the pool has reserves of both coins while it is there, and shares;   *)
(* every loan is a Loan, was settled in the past, and is backed while it is active.               *)
LoansInv == /\ pool \in Pool \cup {NoPool}
            /\ supply \in Nat
            /\ pool # NoPool => supply > 0
            /\ shares \in [Users -> Nat]
            /\ poolSeq \in Nat
            /\ height \in 0..MaxHeight
            /\ loans \in Seq(Loan)
            /\ \A i \in DOMAIN loans : Sound(loans[i], height)

-----------------------------------------------------------------------------
(* Loans *)

(* What is kept of an amount is between nothing and all of it. *)
LEMMA KeptTypes ==
    ASSUME NEW x \in Nat, NEW f \in 1..DecOne
    PROVE  Kept(x, f) \in Nat /\ Kept(x, f) <= x
<1> DEFINE n == (DecOne - f) * x
           q == n \div DecOne
<1>1. DecOne \in Nat \ {0} /\ DecOne - f \in Nat /\ DecOne - f <= DecOne
    BY FeeLeaves
<1>2. n \in Nat
    BY <1>1, MulNat
<1>3. q \in Nat
    BY <1>1, <1>2, DivNat
<1>4. n <= DecOne * x
    <2> DEFINE r == DecOne - f
    <2>1. r \in Nat /\ f \in Nat /\ DecOne = r + f
        BY <1>1
    <2>2. DecOne * x = r * x + f * x /\ f * x \in Nat /\ r * x \in Nat
        BY <2>1
    <2> QED
        BY <2>2
<1>5. DecOne * q <= n
    BY <1>1, <1>2
<1>6. q <= x
    <2> SUFFICES ASSUME q > x PROVE FALSE
        BY <1>3
    <2> HIDE DEF q, n
    <2>1. DecOne * q = DecOne * x + DecOne * (q - x)
        BY <1>1, <1>3
    <2>2. DecOne * (q - x) > 0
        BY <1>1, <1>3, MulPos
    <2>3. DecOne * x \in Nat /\ DecOne * (q - x) \in Nat
        BY <1>1, <1>3, MulNat
    <2> QED
        BY <1>2, <1>4, <1>5, <2>1, <2>2, <2>3
<1> QED
    BY <1>3, <1>6 DEF Kept

(* Nothing is kept when all of it is closed. *)
LEMMA NothingKept == ASSUME NEW x \in Nat PROVE Kept(x, DecOne) = 0
<1>1. DecOne \in Nat \ {0} /\ (DecOne - DecOne) * x = 0
    BY FeeLeaves
<1>2. 0 \div DecOne = 0
    BY <1>1
<1> QED
    BY <1>1, <1>2 DEF Kept

(* A loan that was in order stays so when the height does. *)
LEMMA OldLoans ==
    ASSUME LoansInv, height' = height, loans' = loans
    PROVE  loans' \in Seq(Loan) /\ \A i \in DOMAIN loans' : Sound(loans'[i], height')
    BY DEF LoansInv

(* Every message to the pool keeps the invariant. *)
LEMMA PoolKeeps ==
    ASSUME LoansInv, NEW u \in Users, PoolMessage(u), UNCHANGED <<loans, height>>
    PROVE  LoansInv'
<1>1. PoolInv
    BY DEF LoansInv, PoolInv
<1>2. PoolInv'
    BY <1>1, MessageKeepsPool
<1> QED
    BY <1>2, OldLoans DEF LoansInv, PoolInv

(* Interest is a natural number, as loans were settled in the past. *)
LEMMA InterestNat ==
    ASSUME LoansInv, NEW i \in DOMAIN loans PROVE Interest(loans[i]) \in Nat
<1> DEFINE p == loans[i]
<1>1. Sound(p, height) /\ height \in Nat
    BY LoanAssumption DEF LoansInv
<1>2. p.accrued \in Nat /\ p.rem \in Nat /\ p.borrowed \in Nat /\ height - p.settled \in Nat
    BY <1>1 DEF Sound, Loan
<1>3. DecOne * p.accrued \in Nat
    BY <1>2, MulNat, FeeLeaves
<1>4. p.borrowed * Rate \in Nat
    BY <1>2, MulNat, LoanAssumption
<1>5. p.borrowed * Rate * (height - p.settled) \in Nat
    BY <1>2, <1>4, MulNat
<1> QED
    BY <1>2, <1>3, <1>5 DEF Interest

(* Settling the interest of a loan leaves it sound, and what it is made of as it was. *)
LEMMA SettledSound ==
    ASSUME LoansInv, NEW i \in DOMAIN loans
    PROVE  LET p == SettleInterest(loans[i])
           IN /\ Sound(p, height)
              /\ p.settled = height
              /\ p.status = loans[i].status /\ p.owes = loans[i].owes /\ p.pool = loans[i].pool
              /\ p.held = loans[i].held /\ p.by = loans[i].by /\ p.coll = loans[i].coll
<1> DEFINE o == loans[i]
           p == SettleInterest(o)
<1>1. Sound(o, height) /\ height \in Nat
    BY LoanAssumption DEF LoansInv
<1>2. Interest(o) \div DecOne \in Nat /\ Interest(o) % DecOne \in Nat /\ Interest(o) % DecOne < DecOne
    BY InterestNat, DivNat, RestBelow, FeeLeaves
<1>3. p = [o EXCEPT !.accrued = Interest(o) \div DecOne, !.rem = Interest(o) % DecOne,
                    !.settled = height]
    BY DEF SettleInterest
<1>4. o \in Loan
    BY <1>1 DEF Sound
<1> HIDE DEF o, p
<1>5. p \in Loan
    BY <1>1, <1>2, <1>3, <1>4 DEF Loan
<1>6. /\ p.settled = height
      /\ p.status = o.status /\ p.owes = o.owes /\ p.pool = o.pool
      /\ p.borrowed = o.borrowed /\ p.held = o.held /\ p.coll = o.coll /\ p.by = o.by
      /\ p.rem = Interest(o) % DecOne
    BY <1>3, <1>4 DEF Loan
<1>7. Active(p) => Backed(p)
    BY <1>1, <1>2, <1>6 DEF Sound, Active, Backed
<1> QED
    BY <1>1, <1>5, <1>6, <1>7 DEF Sound, o, p

(* A sound loan in the place of another keeps the invariant. *)
LEMMA OneLoan ==
    ASSUME LoansInv, NEW i \in DOMAIN loans, NEW q, Sound(q, height),
           loans' = [loans EXCEPT ![i] = q],
           UNCHANGED <<pool, shares, supply, poolSeq, height>>
    PROVE  LoansInv'
<1>1. q \in Loan
    BY DEF Sound
<1>2. loans' \in Seq(Loan) /\ DOMAIN loans' = DOMAIN loans
    BY <1>1 DEF LoansInv
<1>3. \A j \in DOMAIN loans' : Sound(loans'[j], height')
    BY <1>2 DEF LoansInv
<1> QED
    BY <1>2, <1>3 DEF LoansInv

(* Settling keeps the invariant. *)
LEMMA SettleKeeps ==
    ASSUME LoansInv, pool # NoPool, NEW i \in DOMAIN loans, NEW q, Sound(q, height),
           NEW u, NEW coins \in PosCoins, NEW principal \in Nat, NEW h, NEW payment,
           Settle(i, q, u, coins, principal, h, payment)
    PROVE  LoansInv' /\ pool' \in Pool /\ pool'.coins = coins
<1> DEFINE d == loans[i].owes
<1>1. q \in Loan /\ loans[i] \in Loan /\ pool \in Pool
    BY DEF Sound, LoansInv
<1>2. d \in Denoms
    BY <1>1 DEF Loan
<1>3. /\ pool.borrowed[d] >= principal
      /\ pool' = [pool EXCEPT !.coins = coins, !.borrowed[d] = @ - principal]
      /\ loans' = [loans EXCEPT ![i] = q]
      /\ UNCHANGED <<shares, supply, poolSeq, height>>
    BY DEF Settle, Lent
<1> HIDE DEF d
<1>4. [pool.borrowed EXCEPT ![d] = @ - principal] \in Coins
    <2>1. pool.borrowed \in Coins /\ pool.borrowed[d] - principal \in Nat
        BY <1>1, <1>2, <1>3 DEF Pool, Coins
    <2> QED
        BY <1>2, <2>1 DEF Coins
<1>5. pool' \in Pool /\ pool'.coins = coins
    <2> DEFINE b == [pool.borrowed EXCEPT ![d] = @ - principal]
    <2>1. pool' = [pool EXCEPT !.coins = coins, !.borrowed = b]
        BY <1>1, <1>3 DEF Pool
    <2> HIDE DEF b
    <2>2. b \in Coins
        BY <1>4 DEF b
    <2> QED
        BY <1>1, <2>1, <2>2 DEF Pool, PosCoins
<1>6. loans' \in Seq(Loan) /\ DOMAIN loans' = DOMAIN loans
    BY <1>1, <1>3 DEF LoansInv
<1>7. \A j \in DOMAIN loans' : Sound(loans'[j], height')
    BY <1>3, <1>6 DEF LoansInv
<1> QED
    BY <1>3, <1>5, <1>6, <1>7 DEF LoansInv

(* A payment of at most the debt leaves a loan; of less than the debt, one with a debt. *)
LEMMA PaidTypes ==
    ASSUME NEW p \in Loan, NEW n \in Nat, n <= p.borrowed + p.accrued
    PROVE  LET q == Paid(p, n)
           IN /\ q \in Loan
              /\ q.settled = p.settled /\ q.status = p.status
              /\ q.held = p.held /\ q.coll = p.coll /\ q.rem \in {0, p.rem}
              /\ q.owes = p.owes /\ q.by = p.by
              /\ n < p.borrowed + p.accrued /\ p.borrowed > 0 => q.borrowed > 0
<1> DEFINE interest == Lower(n, p.accrued)
           b == p.borrowed - (n - interest)
           r == [p EXCEPT !.accrued = @ - interest, !.borrowed = b]
<1>1. p.borrowed \in Nat /\ p.accrued \in Nat
    BY DEF Loan
<1>2. /\ interest \in Nat /\ p.accrued - interest \in Nat /\ b \in Nat
      /\ n < p.borrowed + p.accrued /\ p.borrowed > 0 => b > 0
    BY <1>1 DEF Lower
<1>3. Paid(p, n) = Reset(r)
    BY DEF Paid, Loan
<1> HIDE DEF interest, b
<1>4. /\ r \in Loan
      /\ r.settled = p.settled /\ r.status = p.status /\ r.borrowed = b
      /\ r.held = p.held /\ r.coll = p.coll /\ r.rem = p.rem
      /\ r.owes = p.owes /\ r.by = p.by
    BY <1>2 DEF Loan
<1> HIDE DEF r
<1>5. /\ Reset(r) \in Loan
      /\ Reset(r).settled = r.settled /\ Reset(r).status = r.status
      /\ Reset(r).borrowed = r.borrowed /\ Reset(r).held = r.held /\ Reset(r).coll = r.coll
      /\ Reset(r).rem \in {0, r.rem}
      /\ Reset(r).owes = r.owes /\ Reset(r).by = r.by
    <2>1. CASE r.borrowed = 0 /\ r.accrued = 0
        <3>1. Reset(r) = [r EXCEPT !.rem = 0]
            BY <2>1 DEF Reset
        <3> QED
            BY <1>4, <3>1 DEF Loan
    <2>2. CASE ~(r.borrowed = 0 /\ r.accrued = 0)
        BY <1>4, <2>2 DEF Reset
    <2> QED
        BY <2>1, <2>2
<1> QED
    BY <1>2, <1>3, <1>4, <1>5

-----------------------------------------------------------------------------
(* Messages about loans *)

(* What is left of a loan after a partial close, and a loan that is closed, are sound. *)
LEMMA ClosedPart ==
    ASSUME LoansInv, NEW p, Sound(p, height), Active(p), NEW f \in 1..DecOne,
           f < DecOne => KeepsPart(p, f)
    PROVE  LET gone(x) == x - Kept(x, f)
               due == gone(p.borrowed) + gone(p.accrued)
               part == [Paid(p, due) EXCEPT !.held = @ - gone(p.held), !.coll = @ - gone(p.coll)]
               q == IF f = DecOne THEN [part EXCEPT !.status = "CLOSED", !.liqHeight = 0] ELSE part
           IN /\ due \in Nat /\ gone(p.borrowed) \in Nat /\ gone(p.held) \in Nat
              /\ gone(p.coll) \in Nat
              /\ Sound(q, height)
              /\ q.owes = p.owes /\ q.by = p.by
              /\ p.held - Out(q, q.held) = gone(p.held) /\ p.coll - Out(q, q.coll) = gone(p.coll)
<1> DEFINE gone(x) == x - Kept(x, f)
           due == gone(p.borrowed) + gone(p.accrued)
           r == Paid(p, due)
           part == [r EXCEPT !.held = @ - gone(p.held), !.coll = @ - gone(p.coll)]
           q == IF f = DecOne THEN [part EXCEPT !.status = "CLOSED", !.liqHeight = 0] ELSE part
<1>1. p \in Loan /\ p.settled <= height /\ Backed(p)
    BY DEF Sound
<1>2. p.borrowed \in Nat /\ p.accrued \in Nat /\ p.held \in Nat /\ p.coll \in Nat
    BY <1>1 DEF Loan
<1>3. \A x \in Nat : Kept(x, f) \in Nat /\ Kept(x, f) <= x
    BY KeptTypes
<1>4. \A x \in Nat : gone(x) \in Nat /\ x - gone(x) = Kept(x, f)
    BY <1>3
<1>5. due \in Nat /\ due <= p.borrowed + p.accrued
    <2>1. gone(p.borrowed) \in Nat /\ gone(p.borrowed) <= p.borrowed
        BY <1>2, <1>3
    <2>2. gone(p.accrued) \in Nat /\ gone(p.accrued) <= p.accrued
        BY <1>2, <1>3
    <2> QED
        BY <1>2, <2>1, <2>2
<1>6. f < DecOne => Kept(p.borrowed, f) > 0 /\ Kept(p.held, f) > 0 /\ Kept(p.coll, f) > 0
    BY <1>1, <1>2 DEF KeepsPart, Backed
<1>7. f < DecOne => due < p.borrowed + p.accrued
    <2> SUFFICES ASSUME f < DecOne PROVE due < p.borrowed + p.accrued
        OBVIOUS
    <2>1. gone(p.borrowed) \in Nat /\ gone(p.borrowed) < p.borrowed
        BY <1>2, <1>3, <1>6
    <2>2. gone(p.accrued) \in Nat /\ gone(p.accrued) <= p.accrued
        BY <1>2, <1>3
    <2> QED
        BY <1>2, <2>1, <2>2
<1> HIDE DEF due
<1>8. /\ r \in Loan
      /\ r.settled = p.settled /\ r.status = p.status
      /\ r.held = p.held /\ r.coll = p.coll /\ r.rem \in {0, p.rem}
      /\ r.owes = p.owes /\ r.by = p.by
      /\ due < p.borrowed + p.accrued /\ p.borrowed > 0 => r.borrowed > 0
    BY <1>1, <1>5, PaidTypes
<1> HIDE DEF r
<1>9. part = [r EXCEPT !.held = Kept(p.held, f), !.coll = Kept(p.coll, f)]
    BY <1>2, <1>4, <1>8 DEF Loan
<1>10. Kept(p.held, f) \in Nat /\ Kept(p.coll, f) \in Nat
    BY <1>2, <1>3
<1> HIDE DEF gone, part
<1>11. /\ part \in Loan /\ part.settled = r.settled /\ part.status = r.status
       /\ part.borrowed = r.borrowed /\ part.held = Kept(p.held, f) /\ part.coll = Kept(p.coll, f)
       /\ part.rem = r.rem /\ part.owes = r.owes /\ part.by = r.by
    BY <1>8, <1>9, <1>10 DEF Loan
<1>12. /\ Sound(q, height)
       /\ q.owes = p.owes /\ q.by = p.by
       /\ p.held - Out(q, q.held) = p.held - Kept(p.held, f)
       /\ p.coll - Out(q, q.coll) = p.coll - Kept(p.coll, f)
    <2>1. CASE f = DecOne
        <3>1. q = [part EXCEPT !.status = "CLOSED", !.liqHeight = 0]
            BY <2>1
        <3>2. /\ q \in Loan /\ q.settled = part.settled /\ q.status = "CLOSED"
              /\ q.owes = part.owes /\ q.by = part.by
            BY <1>11, <3>1 DEF Loan, Statuses
        <3> HIDE DEF q
        <3>3. Sound(q, height)
            BY <1>1, <1>8, <1>11, <3>2 DEF Sound, Active
        <3>4. Kept(p.held, f) = 0 /\ Kept(p.coll, f) = 0
            BY <1>2, <2>1, NothingKept
        <3>5. ~Active(q)
            BY <3>2 DEF Active
        <3>6. Out(q, q.held) = 0 /\ Out(q, q.coll) = 0
            BY <3>5 DEF Out
        <3> QED
            BY <1>8, <1>11, <3>2, <3>3, <3>4, <3>6
    <2>2. CASE f < DecOne
        <3>1. q = part
            BY <2>2, FeeLeaves
        <3>2. DecOne > 0 /\ p.rem < DecOne
            BY <1>1, FeeLeaves DEF Backed
        <3>3. Backed(part)
            BY <1>1, <1>6, <1>7, <1>8, <1>11, <2>2, <3>2 DEF Backed
        <3>4. Sound(part, height)
            BY <1>1, <1>8, <1>11, <3>3 DEF Sound
        <3>5. Out(part, part.held) = part.held /\ Out(part, part.coll) = part.coll
            BY <1>8, <1>11 DEF Out, Active
        <3> HIDE DEF q
        <3> QED
            BY <1>8, <1>11, <3>1, <3>4, <3>5
    <2> QED
        BY <2>1, <2>2, FeeLeaves
<1> QED
    BY <1>2, <1>4, <1>5, <1>12 DEF gone, due, part, q, r

(* Closing a loan or a part of it keeps the invariant. *)
LEMMA CloseKeeps ==
    ASSUME LoansInv, NEW i \in DOMAIN loans, NEW f \in Fractions, ClosePosition(i, f)
    PROVE  LoansInv'
<1> DEFINE p == SettleInterest(loans[i])
           d == p.owes
           gone(x) == x - Kept(x, f)
           due == gone(p.borrowed) + gone(p.accrued)
           in == gone(p.held)
           proceeds == ExactIn(pool.coins, Other(d), in)
           swapped == Swapped(pool.coins, Other(d), in, proceeds)
           spent == ExactOut(swapped, Other(d), due - proceeds)
           part == [Paid(p, due) EXCEPT !.held = @ - gone(p.held), !.coll = @ - gone(p.coll)]
           q == IF f = DecOne THEN [part EXCEPT !.status = "CLOSED", !.liqHeight = 0] ELSE part
<1>1. Sound(p, height) /\ p.owes = loans[i].owes
    BY SettledSound
<1>2. Closeable(p) /\ (f < DecOne => KeepsPart(p, f))
    BY DEF ClosePosition
<1>3. Active(p) /\ pool # NoPool
    BY <1>2 DEF Closeable, HasPool
<1>4. f \in 1..DecOne
    BY LoanAssumption
<1>5. due \in Nat /\ gone(p.borrowed) \in Nat /\ in \in Nat /\ Sound(q, height)
    BY <1>1, <1>2, <1>3, <1>4, ClosedPart
<1>6. d \in Denoms
    BY <1>1 DEF Sound, Loan
<1>7. pool.coins \in PosCoins
    BY <1>3 DEF LoansInv, Pool, PosCoins
<1>8. \E coins, payment :
          /\ \/ coins = swapped
             \/ /\ proceeds < due /\ due - proceeds < swapped[d]
                /\ coins = Swapped(swapped, Other(d), spent, due - proceeds)
          /\ Settle(i, q, p.user, Plus(coins, One(d, due)), gone(p.borrowed), gone(p.held), payment)
    BY DEF ClosePosition
<1> HIDE DEF p, q, d, due, in
<1>9. Other(d) \in Denoms /\ Other(Other(d)) = d
    BY <1>6, OtherDenom
<1>10. proceeds \in Int /\ proceeds < pool.coins[d]
    BY <1>5, <1>7, <1>9, SwapInBelow
<1> HIDE DEF proceeds
<1>11. swapped \in PosCoins
    BY <1>5, <1>7, <1>9, <1>10, SwappedPos
<1> HIDE DEF swapped
<1>12. ASSUME proceeds < due, due - proceeds < swapped[d]
       PROVE  Swapped(swapped, Other(d), spent, due - proceeds) \in PosCoins
    <2>1. due - proceeds \in Nat
        BY <1>5, <1>10, <1>12
    <2>2. spent \in Nat
        BY <1>9, <1>11, <1>12, <2>1, SwapOutNat
    <2> HIDE DEF spent
    <2> QED
        BY <1>9, <1>11, <1>12, <2>1, <2>2, SwappedPos
<1>13. PICK coins, payment :
          /\ coins \in PosCoins
          /\ Settle(i, q, p.user, Plus(coins, One(d, due)), gone(p.borrowed), gone(p.held), payment)
    BY <1>8, <1>11, <1>12
<1>14. Plus(coins, One(d, due)) \in PosCoins
    BY <1>5, <1>6, <1>13, OneCoins, PlusPos
<1> HIDE DEF gone
<1> QED
    BY <1>3, <1>5, <1>13, <1>14, SettleKeeps

(* So does covering all of it. *)
LEMMA CoverAllKeeps ==
    ASSUME LoansInv, NEW i \in DOMAIN loans, NEW n \in Payments, CoverAll(i, n)
    PROVE  LoansInv'
<1> DEFINE p == SettleInterest(loans[i])
           d == p.owes
           due == p.borrowed + p.accrued
           proceeds == ExactIn(pool.coins, Other(d), p.held)
           coins == Swapped(pool.coins, Other(d), p.held, proceeds)
           q == [p EXCEPT !.borrowed = 0, !.rem = 0, !.status = "CLOSED", !.liqHeight = 0]
<1>1. Sound(p, height) /\ pool # NoPool
    BY SettledSound DEF CoverAll, Closeable, HasPool
<1>2. \E h, payment : Settle(i, q, p.user, Plus(coins, One(d, due)), p.borrowed, h, payment)
    BY DEF CoverAll
<1> HIDE DEF p
<1>3. p \in Loan /\ p.settled <= height
    BY <1>1 DEF Sound
<1>4. d \in Denoms /\ due \in Nat /\ p.borrowed \in Nat /\ p.held \in Nat
    BY <1>3 DEF Loan
<1>5. Sound(q, height)
    <2>1. q \in Loan /\ q.settled = p.settled /\ q.status = "CLOSED"
        BY <1>3 DEF Loan, Statuses
    <2> QED
        BY <1>3, <2>1 DEF Sound, Active
<1>6. pool.coins \in PosCoins
    BY <1>1 DEF LoansInv, Pool, PosCoins
<1> HIDE DEF d, due, q
<1>7. Other(d) \in Denoms /\ Other(Other(d)) = d
    BY <1>4, OtherDenom
<1>8. proceeds \in Int /\ proceeds < pool.coins[d]
    BY <1>4, <1>6, <1>7, SwapInBelow
<1> HIDE DEF proceeds
<1>9. coins \in PosCoins
    BY <1>4, <1>6, <1>7, <1>8, SwappedPos
<1> HIDE DEF coins
<1>10. Plus(coins, One(d, due)) \in PosCoins
    BY <1>4, <1>9, OneCoins, PlusPos
<1> QED
    BY <1>1, <1>2, <1>4, <1>5, <1>10, SettleKeeps

(* So does covering some of it. *)
LEMMA CoverSomeKeeps ==
    ASSUME LoansInv, NEW i \in DOMAIN loans, NEW n \in Payments, CoverSome(i, n)
    PROVE  LoansInv'
<1> DEFINE p == SettleInterest(loans[i])
           d == p.owes
           r == Paid(p, n)
           q == Cleared(r)
<1>1. /\ Sound(p, height) /\ Active(p) /\ pool # NoPool
      /\ n >= p.accrued /\ n < p.borrowed + p.accrued
    BY SettledSound DEF CoverSome, HasPool
<1>2. \E payment : Settle(i, q, p.user, Plus(pool.coins, One(d, n)), n - p.accrued, 0, payment)
    BY DEF CoverSome
<1> HIDE DEF p
<1>3. p \in Loan /\ p.settled <= height /\ Backed(p) /\ n \in Nat
    BY <1>1, LoanAssumption DEF Sound
<1>4. d \in Denoms /\ n - p.accrued \in Nat
    BY <1>1, <1>3 DEF Loan
<1>5. n <= p.borrowed + p.accrued
    BY <1>1, <1>3 DEF Loan
<1>6. /\ r \in Loan
      /\ r.settled = p.settled /\ r.held = p.held /\ r.coll = p.coll /\ r.rem \in {0, p.rem}
      /\ r.borrowed > 0
    BY <1>1, <1>3, <1>5, PaidTypes DEF Backed
<1> HIDE DEF r
<1>7. Sound(q, height)
    <2>1. /\ q \in Loan /\ q.settled = r.settled /\ q.borrowed = r.borrowed
          /\ q.held = r.held /\ q.coll = r.coll /\ q.rem = r.rem
        BY <1>6 DEF Cleared, Loan, Statuses
    <2>2. DecOne > 0
        BY FeeLeaves
    <2> HIDE DEF q
    <2>3. Backed(q)
        BY <1>3, <1>6, <2>1, <2>2 DEF Backed
    <2> QED
        BY <1>3, <1>6, <2>1, <2>3 DEF Sound
<1>8. Plus(pool.coins, One(d, n)) \in PosCoins
    <2>1. pool.coins \in PosCoins
        BY <1>1 DEF LoansInv, Pool, PosCoins
    <2> QED
        BY <1>3, <1>4, <2>1, OneCoins, PlusPos
<1> HIDE DEF q, d
<1> QED
    BY <1>1, <1>2, <1>4, <1>7, <1>8, SettleKeeps

(* A liquidation keeps the invariant. *)
LEMMA FinalizeKeeps ==
    ASSUME LoansInv, NEW i \in DOMAIN loans, NEW v \in Users, FinalizeLiquidation(v, i)
    PROVE  LoansInv'
<1> DEFINE p == SettleInterest(loans[i])
           d == p.owes
           due == p.borrowed + p.accrued
           q == [p EXCEPT !.status = "LIQUIDATED", !.liqHeight = 0,
                          !.borrowed = 0, !.held = 0, !.accrued = 0, !.rem = 0]
           back == Plus(One(d, due), One(Other(d), p.held))
<1>1. Sound(p, height) /\ pool # NoPool
    BY SettledSound DEF FinalizeLiquidation, HasPool
<1>2. \E h, payment : Settle(i, q, v, Plus(pool.coins, back), p.borrowed, h, payment)
    BY DEF FinalizeLiquidation
<1> HIDE DEF p
<1>3. p \in Loan /\ p.settled <= height
    BY <1>1 DEF Sound
<1>4. d \in Denoms /\ due \in Nat /\ p.borrowed \in Nat /\ p.held \in Nat
    BY <1>3 DEF Loan
<1>5. Sound(q, height)
    <2>1. q \in Loan /\ q.settled = p.settled /\ q.status = "LIQUIDATED"
        BY <1>3 DEF Loan, Statuses
    <2> QED
        BY <1>3, <2>1 DEF Sound, Active
<1> HIDE DEF d, due, q
<1>6. back \in Coins
    <2>1. One(d, due) \in Coins /\ One(Other(d), p.held) \in Coins
        BY <1>4, OtherDenom, OneCoins
    <2> QED
        BY <2>1 DEF Plus, Coins
<1> HIDE DEF back
<1>7. Plus(pool.coins, back) \in PosCoins
    <2>1. pool.coins \in PosCoins
        BY <1>1 DEF LoansInv, Pool, PosCoins
    <2> QED
        BY <1>6, <2>1, PlusPos
<1> QED
    BY <1>1, <1>2, <1>4, <1>5, <1>7, SettleKeeps

(* What may be borrowed is less than the reserve it is taken from. *)
LEMMA BorrowBelow ==
    ASSUME NEW n \in Nat \ {0}, NEW r \in Nat, NEW b \in Nat, n * DecOne <= MaxBorrow * (r - b)
    PROVE  n < r
<1>1. DecOne \in Nat \ {0} /\ MaxBorrow \in Nat /\ DecOne - MaxBorrow \in Nat
    BY LoanAssumption, FeeLeaves
<1> SUFFICES ASSUME n >= r PROVE FALSE
    OBVIOUS
<1> DEFINE x == n - (r - b)
<1>2. x \in Nat /\ r - b = n - x
    OBVIOUS
<1> HIDE DEF x
<1>3. MaxBorrow * (r - b) = MaxBorrow * n - MaxBorrow * x
    BY <1>1, <1>2
<1>4. MaxBorrow * n \in Nat /\ MaxBorrow * x \in Nat
    BY <1>1, <1>2, MulNat
<1>5. n * DecOne = MaxBorrow * n + (DecOne - MaxBorrow) * n
    BY <1>1
<1>6. (DecOne - MaxBorrow) * n > 0
    <2>1. DecOne - MaxBorrow \in Nat \ {0}
        BY LoanAssumption, FeeLeaves
    <2> QED
        BY <2>1, MulPos
<1>7. (DecOne - MaxBorrow) * n \in Nat
    BY <1>1, MulNat
<1> QED
    BY <1>3, <1>4, <1>5, <1>6, <1>7

(* Opening a loan keeps the invariant: the new loan is backed, the reserves stay positive. *)
LEMMA OpenKeeps ==
    ASSUME LoansInv, NEW u \in Users, NEW d \in Denoms, NEW n \in Borrows,
           NEW e \in Denoms, NEW m \in Collaterals, OpenPosition(u, d, n, e, m)
    PROVE  LoansInv' /\ pool' \in Pool
<1> DEFINE lent == [pool.coins EXCEPT ![d] = @ - n]
           held == ExactIn(lent, d, n)
           coins == [pool.coins EXCEPT ![Other(d)] = @ - held]
           new == [user |-> u, pool |-> pool.id, status |-> "OPEN", liqHeight |-> 0,
                   created |-> height, owes |-> d, borrowed |-> n, held |-> held, by |-> e,
                   coll |-> m, accrued |-> 0, rem |-> 0, settled |-> height]
<1>1. /\ pool # NoPool
      /\ n * DecOne <= MaxBorrow * (pool.coins[d] - pool.borrowed[d])
      /\ held > 0
      /\ pool' = [pool EXCEPT !.coins = coins, !.borrowed[d] = @ + n]
      /\ loans' = Append(loans, new)
      /\ UNCHANGED <<shares, supply, poolSeq, height>>
    BY DEF OpenPosition
<1>2. n \in Nat \ {0} /\ m \in Nat \ {0}
    BY LoanAssumption
<1>3. pool \in Pool /\ pool.coins \in PosCoins /\ pool.borrowed \in Coins /\ pool.id \in Nat
    BY <1>1 DEF LoansInv, Pool, PosCoins, Coins
<1>4. pool.coins[d] \in Nat /\ pool.borrowed[d] \in Nat
    BY <1>3 DEF PosCoins, Coins
<1>5. n < pool.coins[d]
    BY <1>1, <1>2, <1>4, BorrowBelow
<1>6. lent \in PosCoins /\ lent[Other(d)] = pool.coins[Other(d)]
    BY <1>2, <1>3, <1>4, <1>5, OtherDenom DEF PosCoins
<1> HIDE DEF lent
<1>7. held \in Int /\ held < pool.coins[Other(d)]
    BY <1>2, <1>6, SwapInBelow
<1> HIDE DEF held
<1>8. coins \in PosCoins
    BY <1>3, <1>7, OtherDenom DEF PosCoins
<1> HIDE DEF coins
<1>9. pool' \in Pool
    <2> DEFINE b == [pool.borrowed EXCEPT ![d] = @ + n]
    <2>1. pool' = [pool EXCEPT !.coins = coins, !.borrowed = b]
        BY <1>1, <1>3 DEF Pool
    <2>2. b \in Coins
        BY <1>2, <1>3 DEF Coins
    <2> HIDE DEF b
    <2> QED
        BY <1>3, <1>8, <2>1, <2>2 DEF Pool, PosCoins
<1>10. Sound(new, height)
    <2>1. height \in Nat
        BY LoanAssumption DEF LoansInv
    <2>2. new \in Loan
        BY <1>1, <1>2, <1>3, <1>7, <2>1 DEF Loan, Statuses
    <2>3. Backed(new)
        BY <1>1, <1>2, FeeLeaves DEF Backed
    <2> QED
        BY <2>1, <2>2, <2>3 DEF Sound
<1> HIDE DEF new
<1>11. /\ loans' \in Seq(Loan)
       /\ \A j \in DOMAIN loans' : Sound(loans'[j], height')
    BY <1>1, <1>10 DEF LoansInv, Sound
<1> QED
    BY <1>1, <1>9, <1>11 DEF LoansInv

(* Adding and removing collateral, and initializing a liquidation, keep the invariant. *)
LEMMA CollateralKeeps ==
    ASSUME LoansInv, NEW i \in DOMAIN loans,
           \/ \E m \in Changes : AddCollateral(i, m) \/ RemoveCollateral(i, m)
           \/ InitializeLiquidation(i)
    PROVE  LoansInv'
<1> DEFINE p == loans[i]
<1>1. Sound(p, height)
    BY DEF LoansInv
<1>2. p \in Loan
    BY <1>1 DEF Sound
<1>3. ASSUME NEW m \in Changes, AddCollateral(i, m) PROVE LoansInv'
    <2> DEFINE q == Cleared([p EXCEPT !.coll = @ + m])
    <2>1. /\ Active(p) /\ loans' = [loans EXCEPT ![i] = q]
          /\ UNCHANGED <<pool, shares, supply, poolSeq, height>>
        BY <1>3 DEF AddCollateral
    <2>2. m \in Nat
        BY LoanAssumption
    <2> HIDE DEF p
    <2>3. p.coll \in Nat
        BY <1>2 DEF Loan
    <2> HIDE DEF q
    <2>4. /\ q \in Loan /\ q.settled = p.settled /\ q.borrowed = p.borrowed
          /\ q.held = p.held /\ q.coll = p.coll + m /\ q.rem = p.rem
        <3> DEFINE r == [p EXCEPT !.coll = p.coll + m]
        <3>1. r \in Loan /\ r.settled = p.settled /\ r.borrowed = p.borrowed /\ r.held = p.held
              /\ r.coll = p.coll + m /\ r.rem = p.rem
            BY <1>2, <2>2, <2>3 DEF Loan
        <3>2. q = Cleared(r)
            BY <1>2 DEF q, Loan
        <3> HIDE DEF r
        <3> QED
            BY <3>1, <3>2 DEF Cleared, Loan, Statuses
    <2>5. Sound(q, height)
        BY <1>1, <2>1, <2>2, <2>3, <2>4 DEF Sound, Backed
    <2> QED
        BY <2>1, <2>5, OneLoan
<1>4. ASSUME NEW m \in Changes, RemoveCollateral(i, m) PROVE LoansInv'
    <2> DEFINE q == [p EXCEPT !.coll = @ - m]
    <2>1. /\ p.status = "OPEN" /\ m < p.coll /\ loans' = [loans EXCEPT ![i] = q]
          /\ UNCHANGED <<pool, shares, supply, poolSeq, height>>
        BY <1>4 DEF RemoveCollateral
    <2>2. m \in Nat
        BY LoanAssumption
    <2> HIDE DEF p
    <2>3. p.coll \in Nat
        BY <1>2 DEF Loan
    <2>4. /\ q \in Loan /\ q.settled = p.settled /\ q.borrowed = p.borrowed
          /\ q.held = p.held /\ q.coll = p.coll - m /\ q.rem = p.rem
        BY <1>2, <2>1, <2>2, <2>3 DEF Loan
    <2> HIDE DEF q
    <2>5. Sound(q, height)
        BY <1>1, <2>1, <2>2, <2>3, <2>4 DEF Sound, Backed, Active
    <2> QED
        BY <2>1, <2>5, OneLoan
<1>5. ASSUME InitializeLiquidation(i) PROVE LoansInv'
    <2> DEFINE q == [p EXCEPT !.status = "LIQUIDATING", !.liqHeight = height]
    <2>1. /\ p.status = "OPEN" /\ UNCHANGED <<pool, shares, supply, poolSeq, height>>
          /\ loans' = [loans EXCEPT ![i].status = "LIQUIDATING", ![i].liqHeight = height]
        BY <1>5 DEF InitializeLiquidation, poolVars
    <2>2. loans' = [loans EXCEPT ![i] = q]
        BY <1>2, <2>1 DEF LoansInv, Loan
    <2>3. height \in Nat
        BY LoanAssumption DEF LoansInv
    <2> HIDE DEF p
    <2>4. /\ q \in Loan /\ q.settled = p.settled /\ q.borrowed = p.borrowed
          /\ q.held = p.held /\ q.coll = p.coll /\ q.rem = p.rem
        BY <1>2, <2>3 DEF Loan, Statuses
    <2> HIDE DEF q
    <2>5. Sound(q, height)
        BY <1>1, <2>1, <2>4 DEF Sound, Backed, Active
    <2> QED
        BY <2>1, <2>2, <2>5, OneLoan
<1> QED
    BY <1>3, <1>4, <1>5

(* A block keeps the invariant: loans were settled even longer ago. *)
LEMMA BlockKeeps == ASSUME LoansInv, Block PROVE LoansInv'
<1>1. height' \in 0..MaxHeight /\ height <= height'
    BY LoanAssumption DEF Block, Lower, LoansInv
<1>2. \A j \in DOMAIN loans : Sound(loans[j], height')
    <2> SUFFICES ASSUME NEW j \in DOMAIN loans PROVE Sound(loans[j], height')
        OBVIOUS
    <2>1. Sound(loans[j], height)
        BY DEF LoansInv
    <2>2. loans[j].settled \in Nat /\ height \in Nat /\ height' \in Nat
        BY <1>1, <2>1, LoanAssumption DEF Sound, Loan, LoansInv
    <2> QED
        BY <1>1, <2>1, <2>2 DEF Sound
<1> QED
    BY <1>1, <1>2 DEF LoansInv, Block, poolVars

-----------------------------------------------------------------------------
(* Theorems *)

(* The invariant holds at first and under every step, for any constants: amounts, reserves and    *)
(* debts stay natural numbers and reserves positive in every handler.                            *)
THEOREM LoansInductive == (Init => LoansInv) /\ (LoansInv /\ [Next]_vars => LoansInv')
<1>1. Init => LoansInv
    <2>1. <<>> \in Seq(Loan) /\ DOMAIN <<>> = {}
        OBVIOUS
    <2> QED
        BY <2>1, LoanAssumption DEF Init, PoolInit, LoansInv
<1>2. ASSUME LoansInv, [Next]_vars PROVE LoansInv'
    <2>1. ASSUME NEW u \in Users, PoolMessage(u), UNCHANGED <<loans, height>> PROVE LoansInv'
        BY <1>2, <2>1, PoolKeeps
    <2>2. ASSUME NEW u \in Users, TraderMessage(u) PROVE LoansInv'
        BY <1>2, <2>2, OpenKeeps DEF TraderMessage
    <2>3. ASSUME NEW i \in DOMAIN loans, OwnerMessage(i) PROVE LoansInv'
        BY <1>2, <2>3, CloseKeeps, CoverAllKeeps, CoverSomeKeeps, CollateralKeeps DEF OwnerMessage
    <2>4. ASSUME NEW u \in Users, NEW i \in DOMAIN loans, LiquidatorMessage(u, i) PROVE LoansInv'
        BY <1>2, <2>4, CollateralKeeps, FinalizeKeeps DEF LiquidatorMessage
    <2>5. CASE Block
        BY <1>2, <2>5, BlockKeeps
    <2>6. CASE UNCHANGED vars
        BY <1>2, <2>6, OldLoans DEF vars, poolVars, LoansInv
    <2> QED
        BY <1>2, <2>1, <2>2, <2>3, <2>4, <2>5, <2>6 DEF Next
<1> QED
    BY <1>1, <1>2

(* The invariant holds in every reachable state. *)
THEOREM LoansAlways == Spec => []LoansInv
    BY LoansInductive, PTL DEF Spec

(* A loan that is not ended has a debt, something held and collateral: no partial close, cover, *)
(* withdrawal of collateral or rounding takes the last of one of them.                          *)
THEOREM LoansBacked == Spec => []ActiveBacked
<1>1. LoansInv => ActiveBacked
    BY DEF LoansInv, Sound, Backed, ActiveBacked, ActiveLoans
<1> QED
    BY <1>1, LoansAlways, PTL

(* Settling touches one loan only. *)
LEMMA SettleOne ==
    ASSUME LoansInv, NEW i \in DOMAIN loans, NEW q, NEW u, NEW coins, NEW principal, NEW h,
           NEW payment, Settle(i, q, u, coins, principal, h, payment)
    PROVE  \A j \in DOMAIN loans \ {i} : loans'[j] = loans[j]
    BY DEF Settle

(* A loan that was closed or liquidated stays as it is, whatever messages come. *)
THEOREM EndedStay == Spec => EndedForever
<1> DEFINE Stay == \A i \in DOMAIN loans : ~Active(loans[i]) => loans'[i] = loans[i]
<1>1. ASSUME LoansInv, [Next]_vars PROVE Stay
    <2>1. ASSUME NEW u \in Users, TraderMessage(u) PROVE Stay
        <3>1. \E new : loans' = Append(loans, new)
            BY <2>1 DEF TraderMessage, OpenPosition
        <3>2. loans \in Seq(Loan)
            BY <1>1 DEF LoansInv
        <3> QED
            BY <3>1, <3>2
    <2>2. ASSUME NEW i \in DOMAIN loans, OwnerMessage(i) PROVE Stay
        <3>1. SettleInterest(loans[i]).status = loans[i].status
            BY <1>1, SettledSound
        <3>2. ASSUME NEW f \in Fractions, ClosePosition(i, f) PROVE Stay
            <4>1. Active(loans[i])
                BY <3>1, <3>2 DEF ClosePosition, Closeable, Active
            <4>2. \E q, u, coins, principal, h, payment : Settle(i, q, u, coins, principal, h, payment)
                BY <3>2 DEF ClosePosition
            <4> QED
                BY <1>1, <4>1, <4>2, SettleOne
        <3>3. ASSUME NEW n \in Payments, CoverAll(i, n) PROVE Stay
            <4>1. Active(loans[i])
                BY <3>1, <3>3 DEF CoverAll, Closeable, Active
            <4>2. \E q, u, coins, principal, h, payment : Settle(i, q, u, coins, principal, h, payment)
                BY <3>3 DEF CoverAll
            <4> QED
                BY <1>1, <4>1, <4>2, SettleOne
        <3>4. ASSUME NEW n \in Payments, CoverSome(i, n) PROVE Stay
            <4>1. Active(loans[i])
                BY <3>1, <3>4 DEF CoverSome, Active
            <4>2. \E q, u, coins, principal, h, payment : Settle(i, q, u, coins, principal, h, payment)
                BY <3>4 DEF CoverSome
            <4> QED
                BY <1>1, <4>1, <4>2, SettleOne
        <3>5. ASSUME NEW m \in Changes, AddCollateral(i, m) PROVE Stay
            BY <3>5 DEF AddCollateral
        <3>6. ASSUME NEW m \in Changes, RemoveCollateral(i, m) PROVE Stay
            BY <3>6 DEF RemoveCollateral, Active
        <3> QED
            BY <2>2, <3>2, <3>3, <3>4, <3>5, <3>6 DEF OwnerMessage
    <2>3. ASSUME NEW u \in Users, NEW i \in DOMAIN loans, LiquidatorMessage(u, i) PROVE Stay
        <3>1. SettleInterest(loans[i]).status = loans[i].status
            BY <1>1, SettledSound
        <3>2. CASE InitializeLiquidation(i)
            BY <3>2 DEF InitializeLiquidation, Active
        <3>3. CASE FinalizeLiquidation(u, i)
            <4>1. Active(loans[i])
                BY <3>1, <3>3 DEF FinalizeLiquidation, Active
            <4>2. \E q, v, coins, principal, h, payment : Settle(i, q, v, coins, principal, h, payment)
                BY <3>3 DEF FinalizeLiquidation
            <4> QED
                BY <1>1, <4>1, <4>2, SettleOne
        <3> QED
            BY <2>3, <3>2, <3>3 DEF LiquidatorMessage
    <2>4. CASE UNCHANGED loans
        BY <2>4
    <2> QED
        BY <1>1, <2>1, <2>2, <2>3, <2>4 DEF Next, Block, vars
<1>2. LoansInv /\ [Next]_vars => [Stay]_vars
    BY <1>1
<1> HIDE DEF Stay
<1>3. Spec => [][Stay]_vars
    BY <1>2, LoansAlways, PTL DEF Spec
<1> QED
    BY <1>3 DEF EndedForever, Stay

-----------------------------------------------------------------------------
(* The books *)

(* The invariant of the books: all balances are natural numbers, and those of the module and the *)
(* vault are what the pool and the active loans say.                                             *)
BooksInv == LoansInv /\ bank \in [Accounts -> Coins] /\ BooksMatch

(* What a loan secures and holds is a natural number. *)
LEMMA LoanParts ==
    ASSUME NEW p \in Loan, NEW d \in Denoms
    PROVE  Secures(p, d) \in Nat /\ Holds(p, d) \in Nat
    BY DEF Loan, Secures, Holds

(* There are finitely many loans. *)
LEMMA LoansFinite == ASSUME LoansInv PROVE IsFiniteSet(DOMAIN loans)
<1>1. Len(loans) \in Nat /\ DOMAIN loans = 1 .. Len(loans)
    BY DEF LoansInv
<1> QED
    BY <1>1, FS_Interval

(* So are the sums over the loans. *)
LEMMA SumsAreNat ==
    ASSUME NEW d \in Denoms
    PROVE  /\ LoansInv => Collateral(d) \in Nat /\ Held(d) \in Nat /\ Reserve(d) \in Nat
           /\ LoansInv' => Collateral(d)' \in Nat /\ Held(d)' \in Nat /\ Reserve(d)' \in Nat
<1>1. ASSUME NEW s \in Seq(Loan)
      PROVE  /\ SumFunction([i \in DOMAIN s |-> Secures(s[i], d)]) \in Nat
             /\ SumFunction([i \in DOMAIN s |-> Holds(s[i], d)]) \in Nat
    <2> DEFINE f == [i \in DOMAIN s |-> Secures(s[i], d)]
               g == [i \in DOMAIN s |-> Holds(s[i], d)]
    <2>1. IsFiniteSet(DOMAIN s)
        <3>1. Len(s) \in Nat /\ DOMAIN s = 1 .. Len(s)
            OBVIOUS
        <3> QED
            BY <3>1, FS_Interval
    <2>2. DOMAIN f = DOMAIN s /\ \A i \in DOMAIN s : f[i] \in Nat
        BY LoanParts
    <2>3. DOMAIN g = DOMAIN s /\ \A i \in DOMAIN s : g[i] \in Nat
        BY LoanParts
    <2> HIDE DEF f, g
    <2>4. SumFunctionOnSet(f, DOMAIN s) \in Nat
        BY <2>1, <2>2, SumIsNat
    <2>5. SumFunctionOnSet(g, DOMAIN s) \in Nat
        BY <2>1, <2>3, SumIsNat
    <2> QED
        BY <2>2, <2>3, <2>4, <2>5 DEF SumFunction, f, g
<1>2. ASSUME LoansInv PROVE Reserve(d) \in Nat
    BY <1>2 DEF LoansInv, Reserve, Pool
<1>3. ASSUME LoansInv' PROVE Reserve(d)' \in Nat
    BY <1>3 DEF LoansInv, Reserve, Pool
<1>4. ASSUME LoansInv PROVE Collateral(d) \in Nat /\ Held(d) \in Nat
    <2>1. loans \in Seq(Loan)
        BY <1>4 DEF LoansInv
    <2> QED
        BY <1>1, <2>1 DEF Collateral, Held
<1>5. ASSUME LoansInv' PROVE Collateral(d)' \in Nat /\ Held(d)' \in Nat
    <2>1. loans' \in Seq(Loan)
        BY <1>5 DEF LoansInv
    <2> QED
        BY <1>1, <2>1 DEF Collateral, Held
<1> QED
    BY <1>2, <1>3, <1>4, <1>5

(* The sums of the books, for any sequence of loans. *)
SecuredBy(s, d) == SumFunction([j \in DOMAIN s |-> Secures(s[j], d)])
HeldBy(s, d)    == SumFunction([j \in DOMAIN s |-> Holds(s[j], d)])

(* They change by what one other loan changes them. *)
LEMMA SumsOfOther ==
    ASSUME NEW s, NEW t, NEW i \in DOMAIN s, IsFiniteSet(DOMAIN s), DOMAIN t = DOMAIN s,
           \A j \in DOMAIN s : s[j] \in Loan /\ t[j] \in Loan,
           \A j \in DOMAIN s : j # i => t[j] = s[j],
           NEW d \in Denoms
    PROVE  /\ SecuredBy(t, d) = SecuredBy(s, d) - Secures(s[i], d) + Secures(t[i], d)
           /\ HeldBy(t, d) = HeldBy(s, d) - Holds(s[i], d) + Holds(t[i], d)
<1> DEFINE S == DOMAIN s
<1>1. ASSUME NEW f, NEW g, \A j \in S : f[j] \in Nat /\ g[j] \in Nat,
             \A j \in S : j # i => g[j] = f[j]
      PROVE  SumFunctionOnSet(g, S) = SumFunctionOnSet(f, S) - f[i] + g[i]
    BY <1>1, SumWithOneChanged
<1>2. \A j \in S : Secures(s[j], d) \in Nat /\ Secures(t[j], d) \in Nat
    BY LoanParts
<1>3. \A j \in S : Holds(s[j], d) \in Nat /\ Holds(t[j], d) \in Nat
    BY LoanParts
<1>4. SumFunctionOnSet([j \in S |-> Secures(t[j], d)], S)
         = SumFunctionOnSet([j \in S |-> Secures(s[j], d)], S) - Secures(s[i], d) + Secures(t[i], d)
    BY <1>1, <1>2
<1>5. SumFunctionOnSet([j \in S |-> Holds(t[j], d)], S)
         = SumFunctionOnSet([j \in S |-> Holds(s[j], d)], S) - Holds(s[i], d) + Holds(t[i], d)
    BY <1>1, <1>3
<1> QED
    BY <1>4, <1>5 DEF SumFunction, SecuredBy, HeldBy

(* One loan that changes changes the sums by as much. *)
LEMMA SumsWithLoan ==
    ASSUME LoansInv, NEW i \in DOMAIN loans, NEW q \in Loan,
           loans' = [loans EXCEPT ![i] = q], NEW d \in Denoms
    PROVE  /\ Collateral(d)' = Collateral(d) - Secures(loans[i], d) + Secures(q, d)
           /\ Held(d)' = Held(d) - Holds(loans[i], d) + Holds(q, d)
<1>1. /\ DOMAIN loans' = DOMAIN loans /\ loans'[i] = q
      /\ \A j \in DOMAIN loans : loans[j] \in Loan /\ loans'[j] \in Loan
      /\ \A j \in DOMAIN loans : j # i => loans'[j] = loans[j]
    BY DEF LoansInv
<1>2. IsFiniteSet(DOMAIN loans)
    BY LoansFinite
<1> DEFINE t == loans'
<1>3. /\ SecuredBy(t, d) = SecuredBy(loans, d) - Secures(loans[i], d) + Secures(t[i], d)
      /\ HeldBy(t, d) = HeldBy(loans, d) - Holds(loans[i], d) + Holds(t[i], d)
    <2>1. /\ DOMAIN t = DOMAIN loans
          /\ \A j \in DOMAIN loans : loans[j] \in Loan /\ t[j] \in Loan
          /\ \A j \in DOMAIN loans : j # i => t[j] = loans[j]
        BY <1>1
    <2> HIDE DEF t
    <2> QED
        BY <1>2, <2>1, SumsOfOther
<1>4. /\ Collateral(d) = SecuredBy(loans, d) /\ Collateral(d)' = SecuredBy(loans', d)
      /\ Held(d) = HeldBy(loans, d) /\ Held(d)' = HeldBy(loans', d)
    BY DEF Collateral, Held, SecuredBy, HeldBy
<1> QED
    BY <1>1, <1>3, <1>4

(* So does a new one. *)
LEMMA SumsWithNewLoan ==
    ASSUME LoansInv, NEW q \in Loan, loans' = Append(loans, q), NEW d \in Denoms
    PROVE  /\ Collateral(d)' = Collateral(d) + Secures(q, d)
           /\ Held(d)' = Held(d) + Holds(q, d)
<1> DEFINE n == Len(loans) + 1
           S == DOMAIN loans
<1>1. /\ DOMAIN loans' = S \cup {n} /\ n \notin S /\ loans'[n] = q
      /\ \A j \in S : loans[j] \in Loan /\ loans'[j] = loans[j]
    BY DEF LoansInv
<1>2. IsFiniteSet(S)
    BY LoansFinite
<1> HIDE DEF n
<1>3. ASSUME NEW f, NEW g, \A j \in S : f[j] \in Nat /\ g[j] = f[j], g[n] \in Nat
      PROVE  SumFunctionOnSet(g, S \cup {n}) = SumFunctionOnSet(f, S) + g[n]
    <2>1. \A j \in S \cup {n} : g[j] \in Int
        BY <1>3
    <2>2. SumFunctionOnSet(g, S) = SumFunctionOnSet(f, S)
        BY <1>2, <1>3, SameValuesSameSum
    <2>3. SumFunctionOnSet(f, S) \in Nat
        BY <1>2, <1>3, SumIsNat
    <2>4. SumFunctionOnSet(g, S \cup {n}) = g[n] + SumFunctionOnSet(g, S)
        BY <1>1, <1>2, <2>1, SumOfOneMore
    <2> QED
        BY <1>3, <2>2, <2>3, <2>4
<1>4. /\ Secures(q, d) \in Nat /\ Holds(q, d) \in Nat
      /\ \A j \in S : Secures(loans[j], d) \in Nat /\ Holds(loans[j], d) \in Nat
    BY <1>1, LoanParts
<1>5. Collateral(d)' = Collateral(d) + Secures(q, d)
    <2> DEFINE f == [j \in S |-> Secures(loans[j], d)]
               g == [j \in S \cup {n} |-> Secures(loans'[j], d)]
    <2>1. (\A j \in S : f[j] \in Nat /\ g[j] = f[j]) /\ g[n] = Secures(q, d)
        BY <1>1, <1>4
    <2>2. Collateral(d) = SumFunctionOnSet(f, S) /\ Collateral(d)' = SumFunctionOnSet(g, S \cup {n})
        BY <1>1 DEF Collateral, SumFunction
    <2> HIDE DEF f, g
    <2> QED
        BY <1>3, <1>4, <2>1, <2>2
<1>6. Held(d)' = Held(d) + Holds(q, d)
    <2> DEFINE f == [j \in S |-> Holds(loans[j], d)]
               g == [j \in S \cup {n} |-> Holds(loans'[j], d)]
    <2>1. (\A j \in S : f[j] \in Nat /\ g[j] = f[j]) /\ g[n] = Holds(q, d)
        BY <1>1, <1>4
    <2>2. Held(d) = SumFunctionOnSet(f, S) /\ Held(d)' = SumFunctionOnSet(g, S \cup {n})
        BY <1>1 DEF Held, SumFunction
    <2> HIDE DEF f, g
    <2> QED
        BY <1>3, <1>4, <2>1, <2>2
<1> QED
    BY <1>5, <1>6

(* Books that match go on matching when the accounts of the module and the vault move with what *)
(* they are for; with them no balance of theirs is negative, and u's is to be checked.          *)
LEMMA BooksFollow ==
    ASSUME BooksInv, LoansInv', NEW u \in Users, bank' \in [Accounts -> Ints],
           \A a \in Users \ {u} : bank'[a] = bank[a],
           \A d \in Denoms :
              /\ bank'[u][d] >= 0
              /\ bank'[Module][d] - bank[Module][d]
                    = (Reserve(d)' - Reserve(d)) + (Collateral(d)' - Collateral(d))
              /\ bank'[Vault][d] - bank[Vault][d] = Held(d)' - Held(d)
    PROVE  BooksInv'
<1>1. ASSUME NEW d \in Denoms
      PROVE  /\ bank'[Module][d] = Reserve(d)' + Collateral(d)' /\ bank'[Module][d] \in Nat
             /\ bank'[Vault][d] = Held(d)' /\ bank'[Vault][d] \in Nat
    <2>1. /\ Collateral(d) \in Nat /\ Held(d) \in Nat /\ Reserve(d) \in Nat
          /\ Collateral(d)' \in Nat /\ Held(d)' \in Nat /\ Reserve(d)' \in Nat
        BY SumsAreNat DEF BooksInv
    <2>2. bank'[Module][d] \in Int /\ bank'[Vault][d] \in Int
        BY DEF Accounts, Ints
    <2>3. bank[Module][d] = Reserve(d) + Collateral(d) /\ bank[Vault][d] = Held(d)
        BY DEF BooksInv, BooksMatch
    <2> QED
        BY <2>1, <2>2, <2>3
<1>2. ASSUME NEW a \in Accounts, NEW d \in Denoms PROVE bank'[a][d] \in Nat
    <2>1. CASE a \in {Module, Vault}
        BY <2>1, <1>1
    <2>2. CASE a = u
        BY <2>2 DEF Accounts, Ints
    <2>3. CASE a \in Users \ {u}
        BY <2>3 DEF BooksInv, Accounts, Coins
    <2> QED
        BY <2>1, <2>2, <2>3 DEF Accounts
<1>3. bank' \in [Accounts -> Coins]
    BY <1>2 DEF Ints, Coins
<1>4. BooksMatch'
    BY <1>1 DEF BooksMatch
<1> QED
    BY <1>3, <1>4 DEF BooksInv

(* What a loan lets go of when it changes to another of the same denoms, or ends. *)
LEMMA PartsOut ==
    ASSUME NEW p \in Loan, NEW q \in Loan, Active(p), q.owes = p.owes, q.by = p.by,
           NEW h, h = p.held - Out(q, q.held), NEW c, c = p.coll - Out(q, q.coll), NEW e \in Denoms
    PROVE  /\ Holds(p, e) - Holds(q, e) = One(Other(p.owes), h)[e]
           /\ Secures(p, e) - Secures(q, e) = One(p.by, c)[e]
<1>1. /\ p.owes \in Denoms /\ p.by \in Denoms
      /\ p.held \in Nat /\ p.coll \in Nat /\ q.held \in Nat /\ q.coll \in Nat
    BY DEF Loan
<1>2. p.owes = Other(e) <=> e = Other(p.owes)
    BY <1>1, OtherDenom
<1>3. One(Other(p.owes), h)[e] = (IF e = Other(p.owes) THEN h ELSE 0)
    BY DEF One
<1>4. One(p.by, c)[e] = (IF e = p.by THEN c ELSE 0)
    BY DEF One
<1>5. Holds(p, e) = (IF e = Other(p.owes) THEN p.held ELSE 0)
    BY <1>2 DEF Holds
<1>6. Holds(q, e) = (IF e = Other(p.owes) THEN Out(q, q.held) ELSE 0)
    BY <1>2 DEF Holds, Out
<1>7. Secures(p, e) = (IF e = p.by THEN p.coll ELSE 0)
    BY DEF Secures
<1>8. Secures(q, e) = (IF e = p.by THEN Out(q, q.coll) ELSE 0)
    BY DEF Secures, Out
<1> QED
    BY <1>1, <1>3, <1>4, <1>5, <1>6, <1>7, <1>8

(* Settling keeps the books when the pool and the loan make up for what is paid. *)
LEMMA SettleBooks ==
    ASSUME BooksInv, pool # NoPool, NEW i \in DOMAIN loans, NEW q, Sound(q, height),
           NEW u \in Users, NEW coins \in PosCoins, NEW principal \in Nat, NEW h \in Int,
           NEW payment \in Ints, Settle(i, q, u, coins, principal, h, payment),
           \A e \in Denoms :
              /\ Holds(loans[i], e) - Holds(q, e) = One(Other(loans[i].owes), h)[e]
              /\ coins[e] - pool.coins[e] - (Secures(loans[i], e) - Secures(q, e))
                    = One(Other(loans[i].owes), h)[e] - payment[e]
              /\ bank[u][e] + payment[e] >= 0
    PROVE  BooksInv'
<1>1. LoansInv /\ bank \in [Accounts -> Coins]
    BY DEF BooksInv
<1>2. LoansInv' /\ pool' # NoPool /\ pool'.coins = coins
    BY <1>1, SettleKeeps, NoPoolAssumption
<1> DEFINE H == One(Other(loans[i].owes), h)
<1>3. /\ bank' = Handed(u, H, payment)
      /\ loans' = [loans EXCEPT ![i] = q] /\ q \in Loan /\ loans[i] \in Loan
    BY DEF Settle, Sound, BooksInv, LoansInv
<1>4. H \in Ints
    BY DEF One, Ints
<1>5. \A e \in Denoms : /\ Collateral(e)' = Collateral(e) - Secures(loans[i], e) + Secures(q, e)
                        /\ Held(e)' = Held(e) - Holds(loans[i], e) + Holds(q, e)
    BY <1>1, <1>3, SumsWithLoan
<1> HIDE DEF H
<1>6. /\ bank' \in [Accounts -> Ints] /\ \A a \in Users \ {u} : bank'[a] = bank[a]
      /\ \A e \in Denoms : /\ bank'[u][e] = bank[u][e] + payment[e]
                           /\ bank'[Module][e] = bank[Module][e] + H[e] - payment[e]
                           /\ bank'[Vault][e] = bank[Vault][e] - H[e]
    <2> DEFINE P == Plus(bank[u], payment)
               W == Plus(bank[Module], H)
               Q == Minus(W, payment)
               R == Minus(bank[Vault], H)
    <2>1. /\ u \in Accounts /\ Module \in Accounts /\ Vault \in Accounts
          /\ u # Module /\ u # Vault /\ Module # Vault /\ Module \notin Users /\ Vault \notin Users
        BY PoolAssumption DEF Accounts
    <2>2. bank[u] \in Coins /\ bank[Module] \in Coins /\ bank[Vault] \in Coins
        BY <1>1, <2>1
    <2>3. bank' = [bank EXCEPT ![Vault] = R, ![Module] = Q, ![u] = P]
        BY <1>1, <1>3, <2>1 DEF Handed
    <2>4. P \in Ints /\ Q \in Ints /\ R \in Ints
        BY <1>4, <2>2 DEF Plus, Minus, Coins, Ints
    <2>5. \A e \in Denoms : /\ P[e] = bank[u][e] + payment[e]
                           /\ Q[e] = bank[Module][e] + H[e] - payment[e]
                           /\ R[e] = bank[Vault][e] - H[e]
        <3> SUFFICES ASSUME NEW e \in Denoms
                     PROVE  /\ P[e] = bank[u][e] + payment[e]
                            /\ Q[e] = bank[Module][e] + H[e] - payment[e]
                            /\ R[e] = bank[Vault][e] - H[e]
            OBVIOUS
        <3>1. P[e] = bank[u][e] + payment[e]
            BY DEF Plus
        <3>2. Q[e] = bank[Module][e] + H[e] - payment[e]
            <4>1. W[e] = bank[Module][e] + H[e]
                BY DEF Plus
            <4>2. Q[e] = W[e] - payment[e]
                BY DEF Minus
            <4>3. bank[Module][e] \in Int /\ H[e] \in Int /\ payment[e] \in Int
                BY <1>4, <2>2 DEF Coins, Ints
            <4> HIDE DEF W, Q
            <4> QED
                BY <4>1, <4>2, <4>3
        <3>3. R[e] = bank[Vault][e] - H[e]
            BY DEF Minus
        <3> QED
            BY <3>1, <3>2, <3>3
    <2> HIDE DEF P, Q, R
    <2>6. bank'[u] = P /\ bank'[Module] = Q /\ bank'[Vault] = R
        BY <1>1, <2>1, <2>3
    <2>7. bank' \in [Accounts -> Ints]
        <3>1. Coins \subseteq Ints
            BY DEF Coins, Ints
        <3> QED
            BY <1>1, <2>3, <2>4, <3>1
    <2>8. \A a \in Users \ {u} : bank'[a] = bank[a]
        BY <1>1, <2>1, <2>3 DEF Accounts
    <2> QED
        BY <2>5, <2>6, <2>7, <2>8
<1>7. \A e \in Denoms : Reserve(e)' - Reserve(e) = coins[e] - pool.coins[e]
    BY <1>2 DEF Reserve
<1>8. ASSUME NEW e \in Denoms
      PROVE  /\ bank'[u][e] >= 0
             /\ bank'[Module][e] - bank[Module][e]
                    = (Reserve(e)' - Reserve(e)) + (Collateral(e)' - Collateral(e))
             /\ bank'[Vault][e] - bank[Vault][e] = Held(e)' - Held(e)
    <2>1. /\ Collateral(e) \in Nat /\ Held(e) \in Nat
          /\ Secures(loans[i], e) \in Nat /\ Holds(loans[i], e) \in Nat
          /\ Secures(q, e) \in Nat /\ Holds(q, e) \in Nat
        BY <1>1, <1>3, SumsAreNat, LoanParts
    <2>2. /\ bank[Module][e] \in Nat /\ bank[Vault][e] \in Nat /\ bank[u][e] \in Nat
          /\ H[e] \in Int /\ payment[e] \in Int
        BY <1>1, <1>4 DEF Accounts, Coins, Ints
    <2>3. coins[e] \in Nat /\ pool.coins[e] \in Nat
        BY <1>1 DEF LoansInv, Pool, PosCoins
    <2>4. /\ Holds(loans[i], e) - Holds(q, e) = H[e]
          /\ coins[e] - pool.coins[e] - (Secures(loans[i], e) - Secures(q, e)) = H[e] - payment[e]
          /\ bank[u][e] + payment[e] >= 0
        BY DEF H
    <2> QED
        BY <1>5, <1>6, <1>7, <2>1, <2>2, <2>3, <2>4
<1> QED
    BY <1>2, <1>6, <1>8, BooksFollow

(* Interest changes neither what a loan secures nor what it holds. *)
LEMMA SettledParts ==
    ASSUME LoansInv, NEW i \in DOMAIN loans, NEW e \in Denoms
    PROVE  /\ Secures(SettleInterest(loans[i]), e) = Secures(loans[i], e)
           /\ Holds(SettleInterest(loans[i]), e) = Holds(loans[i], e)
    BY SettledSound DEF Secures, Holds, Active

(* Coins of one denom. *)
LEMMA OneAt == ASSUME NEW d \in Denoms, NEW n, NEW e \in Denoms
               PROVE  One(d, n)[e] = IF e = d THEN n ELSE 0
    BY DEF One

(* ... are integers in each denom ... *)
LEMMA OneInts == ASSUME NEW d \in Denoms, NEW n \in Int PROVE One(d, n) \in Ints
    BY DEF One, Ints

(* ... and so are sums of such. *)
LEMMA PlusInts ==
    ASSUME NEW c \in Ints, NEW e \in Ints
    PROVE  Plus(c, e) \in Ints /\ \A d \in Denoms : Plus(c, e)[d] = c[d] + e[d]
    BY DEF Plus, Ints

(* The reserves after a swap. *)
LEMMA SwappedAt ==
    ASSUME NEW c \in PosCoins, NEW d \in Denoms, NEW in \in Int, NEW out \in Int
    PROVE  /\ Swapped(c, d, in, out)[d] = c[d] + in
           /\ Swapped(c, d, in, out)[Other(d)] = c[Other(d)] - out
    BY OtherDenom DEF Swapped, PosCoins

(* Closing keeps the books: what the loan held is swapped, and what that pays more or less than *)
(* the debt comes off or out of the collateral.                                                 *)
LEMMA CloseBooks ==
    ASSUME BooksInv, NEW i \in DOMAIN loans, NEW f \in Fractions, ClosePosition(i, f)
    PROVE  BooksInv'
<1> DEFINE p == SettleInterest(loans[i])
           d == p.owes
           o == Other(d)
           gone(x) == x - Kept(x, f)
           due == gone(p.borrowed) + gone(p.accrued)
           in == gone(p.held)
           gc == gone(p.coll)
           proceeds == ExactIn(pool.coins, o, in)
           swapped == Swapped(pool.coins, o, in, proceeds)
           spent == ExactOut(swapped, o, due - proceeds)
           part == [Paid(p, due) EXCEPT !.held = @ - gone(p.held), !.coll = @ - gone(p.coll)]
           q == IF f = DecOne THEN [part EXCEPT !.status = "CLOSED", !.liqHeight = 0] ELSE part
           twice == Swapped(swapped, o, spent, due - proceeds)
<1>0. LoansInv /\ bank \in [Accounts -> Coins]
    BY DEF BooksInv
<1>1. Sound(p, height) /\ p.owes = loans[i].owes
    BY <1>0, SettledSound
<1>2. Closeable(p) /\ (f < DecOne => KeepsPart(p, f)) /\ proceeds > 0
    BY DEF ClosePosition
<1>3. Active(p) /\ pool # NoPool
    BY <1>2 DEF Closeable, HasPool
<1>4. f \in 1..DecOne
    BY LoanAssumption
<1>5. /\ due \in Nat /\ gone(p.borrowed) \in Nat /\ in \in Nat /\ gc \in Nat /\ Sound(q, height)
      /\ q.owes = p.owes /\ q.by = p.by
      /\ p.held - Out(q, q.held) = in /\ p.coll - Out(q, q.coll) = gc
    <2> HIDE DEF p
    <2> QED
        BY <1>0, <1>1, <1>2, <1>3, <1>4, ClosedPart
<1>6. d \in Denoms /\ p.by \in Denoms /\ p.user \in Users /\ p \in Loan
    BY <1>1 DEF Sound, Loan
<1>7. pool.coins \in PosCoins
    BY <1>0, <1>3 DEF LoansInv, Pool, PosCoins
<1>8. \E coins, payment :
          /\ \/ /\ proceeds >= due /\ coins = swapped
                /\ payment = Plus(One(d, proceeds - due), One(p.by, gc))
             \/ /\ proceeds < due /\ p.by = d /\ due - proceeds <= gc /\ coins = swapped
                /\ payment = One(d, gc - (due - proceeds))
             \/ /\ proceeds < due /\ p.by # d /\ due - proceeds < swapped[d] /\ spent <= gc
                /\ coins = twice
                /\ payment = One(p.by, gc - spent)
          /\ Settle(i, q, p.user, Plus(coins, One(d, due)), gone(p.borrowed), in, payment)
    BY DEF ClosePosition
<1>9. \A e \in Denoms : /\ Holds(loans[i], e) - Holds(q, e) = One(o, in)[e]
                        /\ Secures(loans[i], e) - Secures(q, e) = One(p.by, gc)[e]
    <2> SUFFICES ASSUME NEW e \in Denoms
                 PROVE  /\ Holds(loans[i], e) - Holds(q, e) = One(o, in)[e]
                        /\ Secures(loans[i], e) - Secures(q, e) = One(p.by, gc)[e]
        OBVIOUS
    <2>1. Secures(p, e) = Secures(loans[i], e) /\ Holds(p, e) = Holds(loans[i], e)
        BY <1>0, SettledParts
    <2>2. q \in Loan
        BY <1>5 DEF Sound
    <2> HIDE DEF p, q, in, gc
    <2> QED
        BY <1>3, <1>5, <1>6, <2>1, <2>2, PartsOut
<1> DEFINE g == gone(p.borrowed)
<1>10. g \in Nat
    BY <1>5
<1> HIDE DEF p, q, due, in, gc, g
<1>11. o \in Denoms /\ Other(o) = d /\ o # d /\ \A e \in Denoms : e = d \/ e = o
    BY <1>6, OtherDenom DEF Denoms
<1> HIDE DEF d, o
<1>12. proceeds \in Nat /\ proceeds < pool.coins[d]
    BY <1>2, <1>5, <1>7, <1>11, SwapInBelow
<1> HIDE DEF proceeds
<1>13. /\ swapped \in PosCoins
       /\ swapped[o] = pool.coins[o] + in /\ swapped[d] = pool.coins[d] - proceeds
    <2>1. swapped \in PosCoins
        BY <1>5, <1>7, <1>11, <1>12, SwappedPos
    <2>2. swapped[o] = pool.coins[o] + in /\ swapped[Other(o)] = pool.coins[Other(o)] - proceeds
        BY <1>5, <1>7, <1>11, <1>12, SwappedAt
    <2> QED
        BY <1>11, <2>1, <2>2
<1> HIDE DEF swapped
<1>14. ASSUME proceeds < due, due - proceeds < swapped[d]
       PROVE  /\ spent \in Nat /\ twice \in PosCoins
              /\ twice[o] = swapped[o] + spent /\ twice[d] = swapped[d] - (due - proceeds)
    <2>1. due - proceeds \in Nat
        BY <1>5, <1>12, <1>14
    <2>2. spent \in Nat
        BY <1>11, <1>13, <1>14, <2>1, SwapOutNat
    <2> HIDE DEF spent
    <2>3. twice \in PosCoins
        BY <1>11, <1>13, <1>14, <2>1, <2>2, SwappedPos
    <2>4. twice[o] = swapped[o] + spent /\ twice[Other(o)] = swapped[Other(o)] - (due - proceeds)
        BY <1>11, <1>13, <2>1, <2>2, SwappedAt
    <2> QED
        BY <1>11, <2>2, <2>3, <2>4
<1> HIDE DEF twice, spent
<1>15. PICK coins, payment :
          /\ \/ /\ proceeds >= due /\ coins = swapped
                /\ payment = Plus(One(d, proceeds - due), One(p.by, gc))
             \/ /\ proceeds < due /\ p.by = d /\ due - proceeds <= gc /\ coins = swapped
                /\ payment = One(d, gc - (due - proceeds))
             \/ /\ proceeds < due /\ p.by # d /\ due - proceeds < swapped[d] /\ spent <= gc
                /\ coins = twice
                /\ payment = One(p.by, gc - spent)
          /\ Settle(i, q, p.user, Plus(coins, One(d, due)), g, in, payment)
    BY <1>8 DEF g
<1>16. /\ coins \in PosCoins /\ payment \in Ints
       /\ \A e \in Denoms : /\ coins[e] + One(d, due)[e] - pool.coins[e]
                                  = One(o, in)[e] - payment[e] + One(p.by, gc)[e]
                            /\ payment[e] >= 0
    <2>1. \A e \in Denoms : /\ One(d, due)[e] = (IF e = d THEN due ELSE 0)
                           /\ One(o, in)[e] = (IF e = o THEN in ELSE 0)
                           /\ One(p.by, gc)[e] = (IF e = p.by THEN gc ELSE 0)
        BY <1>6, <1>11, OneAt
    <2>2. pool.coins[d] \in Nat /\ pool.coins[o] \in Nat
        BY <1>6, <1>7, <1>11 DEF PosCoins
    <2>3. CASE /\ proceeds >= due /\ coins = swapped
               /\ payment = Plus(One(d, proceeds - due), One(p.by, gc))
        <3>1. proceeds - due \in Nat
            BY <1>5, <1>12, <2>3
        <3>2. One(d, proceeds - due) \in Ints /\ One(p.by, gc) \in Ints
            BY <1>5, <1>6, <1>11, <3>1, OneInts
        <3>3. /\ payment \in Ints
              /\ \A e \in Denoms : payment[e] = One(d, proceeds - due)[e] + One(p.by, gc)[e]
            BY <2>3, <3>2, PlusInts
        <3>4. \A e \in Denoms : One(d, proceeds - due)[e] = (IF e = d THEN proceeds - due ELSE 0)
            BY <1>6, OneAt
        <3> QED
            BY <1>5, <1>6, <1>11, <1>12, <1>13, <2>1, <2>2, <2>3, <3>1, <3>3, <3>4
    <2>4. CASE /\ proceeds < due /\ p.by = d /\ due - proceeds <= gc /\ coins = swapped
               /\ payment = One(d, gc - (due - proceeds))
        <3>1. gc - (due - proceeds) \in Nat
            BY <1>5, <1>12, <2>4
        <3>2. payment \in Ints
            BY <1>6, <2>4, <3>1, OneInts
        <3>3. \A e \in Denoms : payment[e] = (IF e = d THEN gc - (due - proceeds) ELSE 0)
            BY <1>6, <2>4, OneAt
        <3> QED
            BY <1>5, <1>6, <1>11, <1>12, <1>13, <2>1, <2>2, <2>4, <3>1, <3>2, <3>3
    <2>5. CASE /\ proceeds < due /\ p.by # d /\ due - proceeds < swapped[d] /\ spent <= gc
               /\ coins = twice
               /\ payment = One(p.by, gc - spent)
        <3>1. /\ spent \in Nat /\ gc - spent \in Nat /\ twice \in PosCoins
              /\ twice[o] = swapped[o] + spent /\ twice[d] = swapped[d] - (due - proceeds)
            BY <1>5, <1>14, <2>5
        <3>2. payment \in Ints
            BY <1>6, <2>5, <3>1, OneInts
        <3>3. \A e \in Denoms : payment[e] = (IF e = p.by THEN gc - spent ELSE 0)
            BY <1>6, <2>5, OneAt
        <3>4. p.by = o
            BY <1>6, <1>11, <2>5
        <3> QED
            BY <1>5, <1>6, <1>11, <1>12, <1>13, <2>1, <2>2, <2>5, <3>1, <3>2, <3>3, <3>4
    <2> QED
        BY <1>15, <2>3, <2>4, <2>5
<1> DEFINE C == Plus(coins, One(d, due))
<1>17. One(d, due) \in Coins
    BY <1>5, <1>6, OneCoins
<1>18. C \in PosCoins
    BY <1>16, <1>17, PlusPos
<1>19. \A e \in Denoms : C[e] = coins[e] + One(d, due)[e]
    BY DEF Plus
<1>20. \A e \in Denoms : bank[p.user][e] \in Nat
    BY <1>0, <1>6 DEF Accounts, Coins
<1>21. \A e \in Denoms :
          /\ Holds(loans[i], e) - Holds(q, e) = One(Other(loans[i].owes), in)[e]
          /\ C[e] - pool.coins[e] - (Secures(loans[i], e) - Secures(q, e))
                = One(Other(loans[i].owes), in)[e] - payment[e]
          /\ bank[p.user][e] + payment[e] >= 0
    <2> SUFFICES ASSUME NEW e \in Denoms
                 PROVE  /\ Holds(loans[i], e) - Holds(q, e) = One(o, in)[e]
                        /\ C[e] - pool.coins[e] - (Secures(loans[i], e) - Secures(q, e))
                              = One(o, in)[e] - payment[e]
                        /\ bank[p.user][e] + payment[e] >= 0
        BY <1>1 DEF o, d
    <2>0. One(o, in)[e] \in Int /\ One(p.by, gc)[e] \in Int /\ One(d, due)[e] \in Int
        BY <1>5, <1>6, <1>11, OneAt
    <2>1. /\ One(o, in)[e] \in Int /\ One(p.by, gc)[e] \in Int /\ One(d, due)[e] \in Int
          /\ payment[e] \in Int /\ coins[e] \in Int /\ pool.coins[e] \in Int
        BY <1>7, <1>16, <2>0 DEF Ints, PosCoins
    <2> HIDE DEF C
    <2> QED
        BY <1>9, <1>16, <1>19, <1>20, <2>1
<1>22. Settle(i, q, p.user, C, g, in, payment)
    BY <1>15
<1> HIDE DEF C
<1> QED
    BY <1>3, <1>5, <1>6, <1>10, <1>16, <1>18, <1>21, <1>22, SettleBooks

(* Covering the whole debt keeps the books. *)
LEMMA CoverAllBooks ==
    ASSUME BooksInv, NEW i \in DOMAIN loans, NEW n \in Payments, CoverAll(i, n)
    PROVE  BooksInv'
<1> DEFINE p == SettleInterest(loans[i])
           d == p.owes
           o == Other(d)
           in == p.held
           due == p.borrowed + p.accrued
           proceeds == ExactIn(pool.coins, o, in)
           need == IF proceeds < due THEN due - proceeds ELSE 0
           profit == IF proceeds > due THEN proceeds - due ELSE 0
           coins == Swapped(pool.coins, o, in, proceeds)
           C == Plus(coins, One(d, due))
           payment == Plus(One(d, profit - need), One(p.by, p.coll))
           q == [p EXCEPT !.borrowed = 0, !.rem = 0, !.status = "CLOSED", !.liqHeight = 0]
<1>0. LoansInv /\ bank \in [Accounts -> Coins]
    BY DEF BooksInv
<1>1. Sound(p, height) /\ p.owes = loans[i].owes
    BY <1>0, SettledSound
<1>2. /\ Active(p) /\ pool # NoPool /\ proceeds > 0 /\ bank[p.user][d] >= need
      /\ Settle(i, q, p.user, C, p.borrowed, in, payment)
    BY DEF CoverAll, Closeable, HasPool
<1>3. \A e \in Denoms : Secures(p, e) = Secures(loans[i], e) /\ Holds(p, e) = Holds(loans[i], e)
    BY <1>0, SettledParts
<1> HIDE DEF p
<1>4. p \in Loan /\ p.settled <= height
    BY <1>1 DEF Sound
<1>5. /\ d \in Denoms /\ p.by \in Denoms /\ p.user \in Users
      /\ due \in Nat /\ in \in Nat /\ p.borrowed \in Nat /\ p.coll \in Nat
    BY <1>4 DEF Loan
<1>6. /\ q \in Loan /\ q.settled = p.settled /\ ~Active(q)
      /\ q.owes = p.owes /\ q.by = p.by
    <2>1. q \in Loan /\ q.settled = p.settled /\ q.status = "CLOSED" /\ q.owes = p.owes /\ q.by = p.by
        BY <1>4 DEF Loan, Statuses
    <2> QED
        BY <2>1 DEF Active
<1> HIDE DEF q
<1>7. Sound(q, height)
    BY <1>4, <1>6 DEF Sound
<1>8. \A e \in Denoms : /\ Holds(p, e) - Holds(q, e) = One(o, in)[e]
                        /\ Secures(p, e) - Secures(q, e) = One(p.by, p.coll)[e]
    <2>1. in = p.held - Out(q, q.held) /\ p.coll = p.coll - Out(q, q.coll)
        BY <1>5, <1>6 DEF Out
    <2> HIDE DEF in
    <2> QED
        BY <1>2, <1>4, <1>6, <2>1, PartsOut
<1>9. pool.coins \in PosCoins
    BY <1>0, <1>2 DEF LoansInv, Pool, PosCoins
<1>10. o \in Denoms /\ Other(o) = d /\ o # d /\ \A e \in Denoms : e = d \/ e = o
    BY <1>5, OtherDenom DEF Denoms
<1> HIDE DEF d, o, in, due
<1>11. proceeds \in Nat /\ proceeds < pool.coins[d]
    BY <1>2, <1>5, <1>9, <1>10, SwapInBelow
<1> HIDE DEF proceeds
<1>12. /\ coins \in PosCoins
       /\ coins[o] = pool.coins[o] + in /\ coins[d] = pool.coins[d] - proceeds
    <2>1. coins \in PosCoins
        BY <1>5, <1>9, <1>10, <1>11, SwappedPos
    <2>2. coins[o] = pool.coins[o] + in /\ coins[Other(o)] = pool.coins[Other(o)] - proceeds
        BY <1>5, <1>9, <1>10, <1>11, SwappedAt
    <2> QED
        BY <1>10, <2>1, <2>2
<1> HIDE DEF coins
<1>13. C \in PosCoins /\ \A e \in Denoms : C[e] = coins[e] + One(d, due)[e]
    <2>1. One(d, due) \in Coins
        BY <1>5, OneCoins
    <2> QED
        BY <1>12, <2>1, PlusPos DEF Plus
<1>14. profit - need = proceeds - due /\ proceeds - due \in Int /\ need >= due - proceeds
    BY <1>5, <1>11
<1>15. payment \in Ints /\ \A e \in Denoms : payment[e] = One(d, proceeds - due)[e] + One(p.by, p.coll)[e]
    <2>1. One(d, proceeds - due) \in Ints /\ One(p.by, p.coll) \in Ints
        BY <1>5, <1>14, OneInts
    <2>2. payment = Plus(One(d, proceeds - due), One(p.by, p.coll))
        BY <1>14
    <2> HIDE DEF payment
    <2> QED
        BY <2>1, <2>2, PlusInts
<1> HIDE DEF C, payment
<1>16. \A e \in Denoms :
          /\ Holds(loans[i], e) - Holds(q, e) = One(Other(loans[i].owes), in)[e]
          /\ C[e] - pool.coins[e] - (Secures(loans[i], e) - Secures(q, e))
                = One(Other(loans[i].owes), in)[e] - payment[e]
          /\ bank[p.user][e] + payment[e] >= 0
    <2> SUFFICES ASSUME NEW e \in Denoms
                 PROVE  /\ Holds(loans[i], e) - Holds(q, e) = One(o, in)[e]
                        /\ C[e] - pool.coins[e] - (Secures(loans[i], e) - Secures(q, e))
                              = One(o, in)[e] - payment[e]
                        /\ bank[p.user][e] + payment[e] >= 0
        BY <1>1 DEF o, d
    <2>1. /\ One(o, in)[e] = (IF e = o THEN in ELSE 0)
          /\ One(d, due)[e] = (IF e = d THEN due ELSE 0)
          /\ One(d, proceeds - due)[e] = (IF e = d THEN proceeds - due ELSE 0)
          /\ One(p.by, p.coll)[e] = (IF e = p.by THEN p.coll ELSE 0)
        BY <1>5, <1>10, OneAt
    <2>2. pool.coins[e] \in Nat /\ bank[p.user][e] \in Nat
        BY <1>0, <1>5, <1>9 DEF PosCoins, Accounts, Coins
    <2>3. Holds(loans[i], e) - Holds(q, e) = One(o, in)[e]
          /\ Secures(loans[i], e) - Secures(q, e) = One(p.by, p.coll)[e]
        BY <1>3, <1>8
    <2>4. bank[p.user][d] >= need /\ need \in Int
        BY <1>2, <1>5, <1>11
    <2> HIDE DEF need
    <2> QED
        BY <1>5, <1>10, <1>11, <1>12, <1>13, <1>14, <1>15, <2>1, <2>2, <2>3, <2>4
<1> QED
    BY <1>2, <1>5, <1>7, <1>13, <1>15, <1>16, SettleBooks

(* So does covering some of it. *)
LEMMA CoverSomeBooks ==
    ASSUME BooksInv, NEW i \in DOMAIN loans, NEW n \in Payments, CoverSome(i, n)
    PROVE  BooksInv'
<1> DEFINE p == SettleInterest(loans[i])
           d == p.owes
           r == Paid(p, n)
           q == Cleared(r)
           C == Plus(pool.coins, One(d, n))
           payment == One(d, -n)
<1>0. LoansInv /\ bank \in [Accounts -> Coins]
    BY DEF BooksInv
<1>1. Sound(p, height) /\ p.owes = loans[i].owes
    BY <1>0, SettledSound
<1>2. /\ Active(p) /\ pool # NoPool /\ n >= p.accrued /\ n < p.borrowed + p.accrued
      /\ bank[p.user][d] >= n
      /\ Settle(i, q, p.user, C, n - p.accrued, 0, payment)
    BY DEF CoverSome, HasPool
<1>3. \A e \in Denoms : Secures(p, e) = Secures(loans[i], e) /\ Holds(p, e) = Holds(loans[i], e)
    BY <1>0, SettledParts
<1> HIDE DEF p
<1>4. p \in Loan /\ p.settled <= height /\ Backed(p) /\ n \in Nat
    BY <1>1, <1>2, LoanAssumption DEF Sound
<1>5. d \in Denoms /\ p.user \in Users /\ n - p.accrued \in Nat /\ n <= p.borrowed + p.accrued
    BY <1>2, <1>4 DEF Loan
<1>6. /\ r \in Loan
      /\ r.settled = p.settled /\ r.held = p.held /\ r.coll = p.coll /\ r.rem \in {0, p.rem}
      /\ r.owes = p.owes /\ r.by = p.by /\ r.borrowed > 0
    BY <1>2, <1>4, <1>5, PaidTypes DEF Backed
<1> HIDE DEF r
<1>7. Sound(q, height) /\ Active(q) /\ q.owes = p.owes /\ q.by = p.by /\ q.held = p.held /\ q.coll = p.coll
    <2>1. /\ q \in Loan /\ q.settled = r.settled /\ q.borrowed = r.borrowed
          /\ q.held = r.held /\ q.coll = r.coll /\ q.rem = r.rem /\ q.status = "OPEN"
          /\ q.owes = r.owes /\ q.by = r.by
        BY <1>6 DEF Cleared, Loan, Statuses
    <2>2. DecOne > 0
        BY FeeLeaves
    <2> HIDE DEF q
    <2>3. Backed(q)
        BY <1>4, <1>6, <2>1, <2>2 DEF Backed
    <2> QED
        BY <1>4, <1>6, <2>1, <2>3 DEF Sound, Active
<1>8. pool.coins \in PosCoins
    BY <1>0, <1>2 DEF LoansInv, Pool, PosCoins
<1>9. C \in PosCoins /\ \A e \in Denoms : C[e] = pool.coins[e] + One(d, n)[e]
    <2>1. One(d, n) \in Coins
        BY <1>4, <1>5, OneCoins
    <2> QED
        BY <1>8, <2>1, PlusPos DEF Plus
<1>10. payment \in Ints
    BY <1>4, <1>5, OneInts
<1> HIDE DEF C, q
<1>11. \A e \in Denoms :
          /\ Holds(loans[i], e) - Holds(q, e) = One(Other(loans[i].owes), 0)[e]
          /\ C[e] - pool.coins[e] - (Secures(loans[i], e) - Secures(q, e))
                = One(Other(loans[i].owes), 0)[e] - payment[e]
          /\ bank[p.user][e] + payment[e] >= 0
    <2> SUFFICES ASSUME NEW e \in Denoms
                 PROVE  /\ Holds(loans[i], e) - Holds(q, e) = One(Other(d), 0)[e]
                        /\ C[e] - pool.coins[e] - (Secures(loans[i], e) - Secures(q, e))
                              = One(Other(d), 0)[e] - payment[e]
                        /\ bank[p.user][e] + payment[e] >= 0
        BY <1>1 DEF d
    <2>1. /\ One(Other(d), 0)[e] = 0 /\ One(d, n)[e] = (IF e = d THEN n ELSE 0)
          /\ payment[e] = (IF e = d THEN -n ELSE 0)
        BY <1>5, OtherDenom DEF One
    <2>2. pool.coins[e] \in Nat /\ bank[p.user][e] \in Nat
        BY <1>0, <1>5, <1>8 DEF PosCoins, Accounts, Coins
    <2>3. Holds(loans[i], e) = Holds(q, e) /\ Secures(loans[i], e) = Secures(q, e)
        BY <1>2, <1>3, <1>7 DEF Holds, Secures
    <2>4. Holds(q, e) \in Nat /\ Secures(q, e) \in Nat
        BY <1>7, LoanParts DEF Sound
    <2> HIDE DEF payment
    <2> QED
        BY <1>2, <1>4, <1>9, <2>1, <2>2, <2>3, <2>4
<1> HIDE DEF payment
<1> QED
    BY <1>2, <1>5, <1>7, <1>9, <1>10, <1>11, SettleBooks

(* And so does a liquidation, whoever pays. *)
LEMMA FinalizeBooks ==
    ASSUME BooksInv, NEW i \in DOMAIN loans, NEW v \in Users, FinalizeLiquidation(v, i)
    PROVE  BooksInv'
<1> DEFINE p == SettleInterest(loans[i])
           d == p.owes
           o == Other(d)
           in == p.held
           due == p.borrowed + p.accrued
           q == [p EXCEPT !.status = "LIQUIDATED", !.liqHeight = 0,
                          !.borrowed = 0, !.held = 0, !.accrued = 0, !.rem = 0]
           gain == Plus(One(d, due), One(o, in))
           C == Plus(pool.coins, gain)
           payment == Minus(One(p.by, p.coll), One(d, due))
<1>0. LoansInv /\ bank \in [Accounts -> Coins]
    BY DEF BooksInv
<1>1. Sound(p, height) /\ p.owes = loans[i].owes
    BY <1>0, SettledSound
<1>2. /\ p.status = "LIQUIDATING" /\ pool # NoPool /\ bank[v][d] >= due
      /\ Settle(i, q, v, C, p.borrowed, in, payment)
    BY DEF FinalizeLiquidation, HasPool
<1>3. \A e \in Denoms : Secures(p, e) = Secures(loans[i], e) /\ Holds(p, e) = Holds(loans[i], e)
    BY <1>0, SettledParts
<1> HIDE DEF p
<1>4. p \in Loan /\ p.settled <= height
    BY <1>1 DEF Sound
<1>5. /\ d \in Denoms /\ p.by \in Denoms
      /\ due \in Nat /\ in \in Nat /\ p.borrowed \in Nat /\ p.coll \in Nat
    BY <1>4 DEF Loan
<1>6. /\ q \in Loan /\ q.settled = p.settled /\ ~Active(q)
      /\ q.owes = p.owes /\ q.by = p.by
    <2>1. /\ q \in Loan /\ q.settled = p.settled /\ q.status = "LIQUIDATED"
          /\ q.owes = p.owes /\ q.by = p.by
        BY <1>4 DEF Loan, Statuses
    <2> QED
        BY <2>1 DEF Active
<1> HIDE DEF q
<1>7. Sound(q, height)
    BY <1>4, <1>6 DEF Sound
<1>8. \A e \in Denoms : /\ Holds(p, e) - Holds(q, e) = One(o, in)[e]
                        /\ Secures(p, e) - Secures(q, e) = One(p.by, p.coll)[e]
    <2>1. in = p.held - Out(q, q.held) /\ p.coll = p.coll - Out(q, q.coll)
        BY <1>5, <1>6 DEF Out
    <2>2. Active(p)
        BY <1>2 DEF Active
    <2> HIDE DEF in
    <2> QED
        BY <1>4, <1>6, <2>1, <2>2, PartsOut
<1>9. pool.coins \in PosCoins
    BY <1>0, <1>2 DEF LoansInv, Pool, PosCoins
<1>10. o \in Denoms /\ o # d /\ \A e \in Denoms : e = d \/ e = o
    BY <1>5, OtherDenom DEF Denoms
<1> HIDE DEF d, o, in, due
<1>11. gain \in Coins /\ \A e \in Denoms : gain[e] = One(d, due)[e] + One(o, in)[e]
    <2>1. One(d, due) \in Coins /\ One(o, in) \in Coins
        BY <1>5, <1>10, OneCoins
    <2> QED
        BY <2>1 DEF Plus, Coins
<1> HIDE DEF gain
<1>12. C \in PosCoins /\ \A e \in Denoms : C[e] = pool.coins[e] + gain[e]
    BY <1>9, <1>11, PlusPos DEF Plus
<1>13. payment \in Ints /\ \A e \in Denoms : payment[e] = One(p.by, p.coll)[e] - One(d, due)[e]
    <2>1. One(p.by, p.coll) \in Ints /\ One(d, due) \in Ints
        BY <1>5, OneInts
    <2> QED
        BY <2>1 DEF Minus, Ints
<1> HIDE DEF C, payment
<1>14. \A e \in Denoms :
          /\ Holds(loans[i], e) - Holds(q, e) = One(Other(loans[i].owes), in)[e]
          /\ C[e] - pool.coins[e] - (Secures(loans[i], e) - Secures(q, e))
                = One(Other(loans[i].owes), in)[e] - payment[e]
          /\ bank[v][e] + payment[e] >= 0
    <2> SUFFICES ASSUME NEW e \in Denoms
                 PROVE  /\ Holds(loans[i], e) - Holds(q, e) = One(o, in)[e]
                        /\ C[e] - pool.coins[e] - (Secures(loans[i], e) - Secures(q, e))
                              = One(o, in)[e] - payment[e]
                        /\ bank[v][e] + payment[e] >= 0
        BY <1>1 DEF o, d
    <2>1. /\ One(o, in)[e] = (IF e = o THEN in ELSE 0)
          /\ One(d, due)[e] = (IF e = d THEN due ELSE 0)
          /\ One(p.by, p.coll)[e] = (IF e = p.by THEN p.coll ELSE 0)
        BY <1>5, <1>10, OneAt
    <2>2. pool.coins[e] \in Nat /\ bank[v][e] \in Nat
        BY <1>0, <1>9 DEF PosCoins, Accounts, Coins
    <2>3. Holds(loans[i], e) - Holds(q, e) = One(o, in)[e]
          /\ Secures(loans[i], e) - Secures(q, e) = One(p.by, p.coll)[e]
        BY <1>3, <1>8
    <2> QED
        BY <1>2, <1>5, <1>10, <1>11, <1>12, <1>13, <2>1, <2>2, <2>3
<1> QED
    BY <1>2, <1>5, <1>7, <1>12, <1>13, <1>14, SettleBooks

\* u pays the module c, or is paid what c lacks
Settled(u, c) ==
    \/ bank' = Move(u, Module, c)
    \/ \E k \in Ints : (\A e \in Denoms : k[e] = -c[e]) /\ bank' = Move(Module, u, k)

(* A move between a user and the module. *)
LEMMA MoveAt ==
    ASSUME bank \in [Accounts -> Coins], NEW u \in Users, NEW c \in Ints, Settled(u, c)
    PROVE  /\ bank' \in [Accounts -> Ints]
           /\ \A a \in Users \ {u} : bank'[a] = bank[a]
           /\ \A e \in Denoms : /\ bank'[u][e] = bank[u][e] - c[e]
                                /\ bank'[Module][e] = bank[Module][e] + c[e]
                                /\ bank'[Vault][e] = bank[Vault][e]
<1>1. /\ u \in Accounts /\ Module \in Accounts /\ Vault \in Accounts
      /\ u # Module /\ u # Vault /\ Module # Vault /\ Module \notin Users /\ Vault \notin Users
    BY PoolAssumption DEF Accounts
<1>2. bank[u] \in Coins /\ bank[Module] \in Coins /\ Coins \subseteq Ints
    BY <1>1 DEF Coins, Ints
<1>3. PICK P \in Ints, Q \in Ints :
          /\ bank' = [bank EXCEPT ![u] = P, ![Module] = Q]
          /\ \A e \in Denoms : P[e] = bank[u][e] - c[e] /\ Q[e] = bank[Module][e] + c[e]
    <2>1. CASE bank' = Move(u, Module, c)
        <3> DEFINE P == Minus(bank[u], c)
                   Q == Plus(bank[Module], c)
        <3>1. bank' = [bank EXCEPT ![u] = P, ![Module] = Q]
            BY <1>1, <2>1 DEF Move
        <3>2. P \in Ints /\ \A e \in Denoms : P[e] = bank[u][e] - c[e]
            BY <1>2 DEF Minus, Coins, Ints
        <3>3. Q \in Ints /\ \A e \in Denoms : Q[e] = bank[Module][e] + c[e]
            BY <1>2 DEF Plus, Coins, Ints
        <3> HIDE DEF P, Q
        <3>4. \A e \in Denoms : P[e] = bank[u][e] - c[e] /\ Q[e] = bank[Module][e] + c[e]
            BY <3>2, <3>3
        <3>5. P \in Ints /\ Q \in Ints
            BY <3>2, <3>3
        <3> QED
            BY <3>1, <3>4, <3>5, Zenon
    <2>2. ASSUME NEW k \in Ints, \A e \in Denoms : k[e] = -c[e], bank' = Move(Module, u, k)
          PROVE  \E P \in Ints, Q \in Ints :
                    /\ bank' = [bank EXCEPT ![u] = P, ![Module] = Q]
                    /\ \A e \in Denoms : P[e] = bank[u][e] - c[e] /\ Q[e] = bank[Module][e] + c[e]
        <3> DEFINE P == Plus(bank[u], k)
                   Q == Minus(bank[Module], k)
        <3>1. bank' = [bank EXCEPT ![u] = P, ![Module] = Q]
            BY <1>1, <2>2 DEF Move
        <3>2. P \in Ints /\ \A e \in Denoms : P[e] = bank[u][e] - c[e]
            BY <1>2, <2>2 DEF Plus, Coins, Ints
        <3>3. Q \in Ints /\ \A e \in Denoms : Q[e] = bank[Module][e] + c[e]
            BY <1>2, <2>2 DEF Minus, Coins, Ints
        <3> HIDE DEF P, Q
        <3>4. \A e \in Denoms : P[e] = bank[u][e] - c[e] /\ Q[e] = bank[Module][e] + c[e]
            BY <3>2, <3>3
        <3>5. P \in Ints /\ Q \in Ints
            BY <3>2, <3>3
        <3> QED
            BY <3>1, <3>4, <3>5, Zenon
    <2> QED
        BY <2>1, <2>2 DEF Settled
<1>4. bank'[u] = P /\ bank'[Module] = Q /\ bank'[Vault] = bank[Vault]
    BY <1>1, <1>3
<1>5. bank' \in [Accounts -> Ints]
    BY <1>2, <1>3
<1>6. \A a \in Users \ {u} : bank'[a] = bank[a]
    BY <1>1, <1>3 DEF Accounts
<1> QED
    BY <1>3, <1>4, <1>5, <1>6

(* Adding and removing collateral keep the books, and so does the beginning of a liquidation. *)
LEMMA CollateralBooks ==
    ASSUME BooksInv, NEW i \in DOMAIN loans,
           \/ \E m \in Changes : AddCollateral(i, m) \/ RemoveCollateral(i, m)
           \/ InitializeLiquidation(i)
    PROVE  BooksInv'
<1> DEFINE p == loans[i]
           u == p.user
<1>0. LoansInv /\ LoansInv' /\ bank \in [Accounts -> Coins]
    BY CollateralKeeps DEF BooksInv
<1>1. p \in Loan /\ u \in Users /\ p.by \in Denoms /\ p.coll \in Nat /\ p.held \in Nat
    <2>1. p \in Loan
        BY <1>0 DEF LoansInv
    <2> HIDE DEF p
    <2> QED
        BY <2>1 DEF Loan
<1>2. bank[u] \in Coins
    BY <1>0, <1>1 DEF Accounts
<1> HIDE DEF p, u
<1>3. ASSUME NEW q \in Loan, loans' = [loans EXCEPT ![i] = q], pool' = pool, NEW c \in Ints,
             q.owes = p.owes, q.by = p.by, q.held = p.held, Active(p), Active(q),
             \A e \in Denoms : /\ c[e] = (IF e = p.by THEN q.coll - p.coll ELSE 0)
                              /\ bank[u][e] >= c[e],
             Settled(u, c)
      PROVE  BooksInv'
    <2>1. /\ bank' \in [Accounts -> Ints]
          /\ \A a \in Users \ {u} : bank'[a] = bank[a]
          /\ \A e \in Denoms : /\ bank'[u][e] = bank[u][e] - c[e]
                               /\ bank'[Module][e] = bank[Module][e] + c[e]
                               /\ bank'[Vault][e] = bank[Vault][e]
        BY <1>0, <1>1, <1>3, MoveAt
    <2>2. ASSUME NEW e \in Denoms
          PROVE  /\ bank'[u][e] >= 0
                 /\ bank'[Module][e] - bank[Module][e]
                        = (Reserve(e)' - Reserve(e)) + (Collateral(e)' - Collateral(e))
                 /\ bank'[Vault][e] - bank[Vault][e] = Held(e)' - Held(e)
        <3>1. /\ Collateral(e)' = Collateral(e) - Secures(p, e) + Secures(q, e)
              /\ Held(e)' = Held(e) - Holds(p, e) + Holds(q, e)
            BY <1>0, <1>3, SumsWithLoan DEF p
        <3>2. Secures(q, e) - Secures(p, e) = c[e] /\ Holds(q, e) = Holds(p, e)
            BY <1>1, <1>3 DEF Secures, Holds, Loan
        <3>3. /\ Collateral(e) \in Nat /\ Held(e) \in Nat /\ Reserve(e) \in Nat
              /\ Secures(p, e) \in Nat /\ Secures(q, e) \in Nat /\ Holds(p, e) \in Nat
            BY <1>0, <1>1, <1>3, SumsAreNat, LoanParts
        <3>4. Reserve(e)' = Reserve(e)
            BY <1>3 DEF Reserve
        <3>5. /\ bank[Module][e] \in Nat /\ bank[Vault][e] \in Nat /\ bank[u][e] \in Nat
              /\ c[e] \in Int
            BY <1>0, <1>2, <1>3 DEF Accounts, Coins, Ints
        <3>6. bank[u][e] >= c[e]
            BY <1>3
        <3> QED
            BY <2>1, <3>1, <3>2, <3>3, <3>4, <3>5, <3>6
    <2> QED
        BY <1>0, <1>1, <2>1, <2>2, BooksFollow
<1>4. ASSUME NEW m \in Changes, AddCollateral(i, m) PROVE BooksInv'
    <2> DEFINE q == Cleared([p EXCEPT !.coll = @ + m])
               c == One(p.by, m)
    <2>1. /\ Active(p) /\ bank[u][p.by] >= m /\ bank' = Move(u, Module, c)
          /\ loans' = [loans EXCEPT ![i] = q] /\ pool' = pool
        BY <1>4 DEF AddCollateral, p, u
    <2>2. m \in Nat
        BY LoanAssumption
    <2>3. /\ q \in Loan /\ q.owes = p.owes /\ q.by = p.by /\ q.held = p.held /\ Active(q)
          /\ q.coll - p.coll = m
        <3> DEFINE r == [p EXCEPT !.coll = p.coll + m]
        <3>1. r \in Loan /\ r.owes = p.owes /\ r.by = p.by /\ r.held = p.held /\ r.coll = p.coll + m
            BY <1>1, <2>2 DEF Loan
        <3>2. q = Cleared(r)
            BY <1>1 DEF Loan
        <3> HIDE DEF r, q
        <3>3. /\ q \in Loan /\ q.owes = r.owes /\ q.by = r.by /\ q.held = r.held /\ q.coll = r.coll
              /\ q.status = "OPEN"
            BY <3>1, <3>2 DEF Cleared, Loan, Statuses
        <3> QED
            BY <1>1, <2>2, <3>1, <3>3 DEF Active
    <2>4. c \in Ints /\ \A e \in Denoms : c[e] = (IF e = p.by THEN m ELSE 0)
        BY <1>1, <2>2, OneInts, OneAt
    <2> HIDE DEF q, c
    <2>5. \A e \in Denoms : bank[u][e] >= c[e]
        BY <1>2, <2>1, <2>4 DEF Coins
    <2>6. Settled(u, c)
        BY <2>1 DEF Settled
    <2> QED
        BY <1>3, <2>1, <2>3, <2>4, <2>5, <2>6
<1>5. ASSUME NEW m \in Changes, RemoveCollateral(i, m) PROVE BooksInv'
    <2> DEFINE q == [p EXCEPT !.coll = @ - m]
               k == One(p.by, m)
               c == One(p.by, -m)
    <2>1. /\ p.status = "OPEN" /\ m < p.coll /\ bank' = Move(Module, u, k)
          /\ loans' = [loans EXCEPT ![i].coll = @ - m] /\ pool' = pool
        BY <1>5 DEF RemoveCollateral, p, u
    <2>2. m \in Nat
        BY LoanAssumption
    <2>3. loans' = [loans EXCEPT ![i] = q]
        BY <2>1 DEF p
    <2>4. /\ q \in Loan /\ q.owes = p.owes /\ q.by = p.by /\ q.held = p.held /\ q.status = p.status
          /\ q.coll - p.coll = -m
        BY <1>1, <2>1, <2>2 DEF Loan
    <2>5. /\ c \in Ints /\ k \in Ints
          /\ \A e \in Denoms : c[e] = (IF e = p.by THEN -m ELSE 0) /\ k[e] = -c[e]
        BY <1>1, <2>2, OneInts, OneAt
    <2> HIDE DEF q, c, k, p, u
    <2>6. \A e \in Denoms : bank[u][e] >= c[e]
        BY <1>2, <2>2, <2>5 DEF Coins
    <2>7. Active(p) /\ Active(q)
        BY <2>1, <2>4 DEF Active
    <2>8. \A e \in Denoms : c[e] = (IF e = p.by THEN q.coll - p.coll ELSE 0)
        BY <2>4, <2>5
    <2>9. \E j \in Ints : (\A e \in Denoms : j[e] = -c[e]) /\ bank' = Move(Module, u, j)
        BY <2>1, <2>5
    <2>10. Settled(u, c)
        BY <2>9, Zenon DEF Settled
    <2> QED
        BY <1>3, <2>1, <2>3, <2>4, <2>5, <2>6, <2>7, <2>8, <2>10
<1>6. ASSUME InitializeLiquidation(i) PROVE BooksInv'
    <2> DEFINE q == [p EXCEPT !.status = "LIQUIDATING", !.liqHeight = height]
    <2>1. /\ p.status = "OPEN" /\ bank' = bank /\ pool' = pool
          /\ loans' = [loans EXCEPT ![i].status = "LIQUIDATING", ![i].liqHeight = height]
        BY <1>6 DEF InitializeLiquidation, poolVars, p
    <2>2. loans' = [loans EXCEPT ![i] = q]
        BY <1>0, <1>1, <2>1 DEF LoansInv, Loan, p
    <2>3. /\ q \in Loan /\ q.status = "LIQUIDATING"
          /\ q.owes = p.owes /\ q.by = p.by /\ q.held = p.held /\ q.coll = p.coll
        <3>1. height \in Nat
            BY <1>0, LoanAssumption DEF LoansInv
        <3> QED
            BY <1>1, <3>1 DEF Loan, Statuses
    <2> HIDE DEF q
    <2>4. Active(p) /\ Active(q)
        BY <2>1, <2>3 DEF Active
    <2>5. \A e \in Denoms : /\ Collateral(e)' = Collateral(e) - Secures(p, e) + Secures(q, e)
                           /\ Held(e)' = Held(e) - Holds(p, e) + Holds(q, e)
        BY <1>0, <2>2, <2>3, SumsWithLoan DEF p
    <2>6. \A e \in Denoms : /\ Secures(q, e) = Secures(p, e) /\ Holds(q, e) = Holds(p, e)
                           /\ Secures(p, e) \in Nat /\ Holds(p, e) \in Nat
                           /\ Collateral(e) \in Nat /\ Held(e) \in Nat
        <3> SUFFICES ASSUME NEW e \in Denoms
                     PROVE  /\ Secures(q, e) = Secures(p, e) /\ Holds(q, e) = Holds(p, e)
                            /\ Secures(p, e) \in Nat /\ Holds(p, e) \in Nat
                            /\ Collateral(e) \in Nat /\ Held(e) \in Nat
            OBVIOUS
        <3>1. Secures(q, e) = Secures(p, e) /\ Holds(q, e) = Holds(p, e)
            BY <2>3, <2>4 DEF Secures, Holds
        <3> QED
            BY <1>0, <1>1, <3>1, SumsAreNat, LoanParts
    <2>7. \A e \in Denoms : Collateral(e)' = Collateral(e) /\ Held(e)' = Held(e) /\ Reserve(e)' = Reserve(e)
        BY <2>1, <2>5, <2>6 DEF Reserve
    <2>8. BooksMatch'
        BY <2>1, <2>7 DEF BooksInv, BooksMatch
    <2> QED
        BY <1>0, <2>1, <2>8 DEF BooksInv
<1> QED
    BY <1>4, <1>5, <1>6

(* Opening a loan keeps the books: what is borrowed stays in the pool, what it is swapped for goes *)
(* to the vault, the collateral to the module.                                                     *)
LEMMA OpenBooks ==
    ASSUME BooksInv, NEW u \in Users, NEW d \in Denoms, NEW n \in Borrows,
           NEW e \in Denoms, NEW m \in Collaterals, OpenPosition(u, d, n, e, m)
    PROVE  BooksInv'
<1> DEFINE lent == [pool.coins EXCEPT ![d] = @ - n]
           held == ExactIn(lent, d, n)
           o == Other(d)
           coins == [pool.coins EXCEPT ![o] = @ - held]
           new == [user |-> u, pool |-> pool.id, status |-> "OPEN", liqHeight |-> 0,
                   created |-> height, owes |-> d, borrowed |-> n, held |-> held, by |-> e,
                   coll |-> m, accrued |-> 0, rem |-> 0, settled |-> height]
           H == One(o, held)
           K == One(e, m)
<1>0. LoansInv /\ bank \in [Accounts -> Coins]
    BY DEF BooksInv
<1>1. LoansInv' /\ pool' \in Pool
    BY <1>0, OpenKeeps
<1>2. /\ pool # NoPool /\ held > 0 /\ bank[u][e] >= m
      /\ pool' = [pool EXCEPT !.coins = coins, !.borrowed[d] = @ + n]
      /\ loans' = Append(loans, new)
      /\ bank' = [bank EXCEPT ![u] = Minus(@, K), ![Module] = Plus(Minus(@, H), K), ![Vault] = Plus(@, H)]
    BY DEF OpenPosition
<1>3. n \in Nat /\ m \in Nat
    BY LoanAssumption
<1>4. o \in Denoms /\ o # d /\ Other(o) = d /\ \A x \in Denoms : x = d \/ x = o
    BY OtherDenom DEF Denoms
<1>5. new \in Loan
    <2>1. loans' \in Seq(Loan) /\ Len(loans) \in Nat /\ loans \in Seq(Loan)
        BY <1>0, <1>1 DEF LoansInv
    <2> HIDE DEF new
    <2>2. loans'[Len(loans) + 1] = new /\ Len(loans) + 1 \in DOMAIN loans'
        BY <1>2, <2>1
    <2> QED
        BY <2>1, <2>2
<1>6. new.status = "OPEN" /\ new.owes = d /\ new.held = held /\ new.by = e /\ new.coll = m
    OBVIOUS
<1> HIDE DEF new, held
<1>7. held \in Nat
    BY <1>5, <1>6 DEF Loan
<1>8. /\ pool.coins[d] \in Nat /\ pool.coins[o] \in Nat
      /\ pool'.coins[d] = pool.coins[d] /\ pool'.coins[o] = pool.coins[o] - held
    <2>1. pool \in Pool /\ pool.coins \in PosCoins
        BY <1>0, <1>2 DEF LoansInv, Pool, PosCoins
    <2>2. pool'.coins = coins
        BY <1>2, <2>1 DEF Pool
    <2> HIDE DEF o
    <2> QED
        BY <1>4, <2>1, <2>2 DEF PosCoins
<1>9. \A x \in Denoms : /\ K[x] = (IF x = e THEN m ELSE 0) /\ H[x] = (IF x = o THEN held ELSE 0)
    BY <1>4, OneAt
<1>10. K \in Ints /\ H \in Ints
    BY <1>3, <1>4, <1>7, OneInts
<1>11. \A x \in Denoms : Secures(new, x) = K[x] /\ Holds(new, x) = H[x]
    <2> SUFFICES ASSUME NEW x \in Denoms PROVE Secures(new, x) = K[x] /\ Holds(new, x) = H[x]
        OBVIOUS
    <2>1. Active(new)
        BY <1>6 DEF Active
    <2>2. d = Other(x) <=> x = o
        BY <1>4, OtherDenom
    <2> QED
        BY <1>6, <1>9, <2>1, <2>2 DEF Secures, Holds
<1> HIDE DEF o, K, H
<1>12. \A x \in Denoms : Reserve(x)' - Reserve(x) = -H[x]
    BY <1>1, <1>2, <1>4, <1>7, <1>8, <1>9, NoPoolAssumption DEF Reserve
<1>13. \A x \in Denoms : /\ Collateral(x)' = Collateral(x) + K[x] /\ Held(x)' = Held(x) + H[x]
                         /\ Collateral(x) \in Nat /\ Held(x) \in Nat
    BY <1>0, <1>2, <1>5, <1>11, SumsWithNewLoan, SumsAreNat
<1>14. /\ bank' \in [Accounts -> Ints] /\ \A a \in Users \ {u} : bank'[a] = bank[a]
       /\ \A x \in Denoms : /\ bank'[u][x] = bank[u][x] - K[x]
                            /\ bank'[Module][x] = (bank[Module][x] - H[x]) + K[x]
                            /\ bank'[Vault][x] = bank[Vault][x] + H[x]
    <2> DEFINE P == Minus(bank[u], K)
               W == Minus(bank[Module], H)
               Q == Plus(W, K)
               R == Plus(bank[Vault], H)
    <2>1. /\ u \in Accounts /\ Module \in Accounts /\ Vault \in Accounts
          /\ u # Module /\ u # Vault /\ Module # Vault /\ Module \notin Users /\ Vault \notin Users
        BY PoolAssumption DEF Accounts
    <2>2. /\ bank[u] \in Ints /\ bank[Module] \in Ints /\ bank[Vault] \in Ints
          /\ Coins \subseteq Ints
        BY <1>0, <2>1 DEF Coins, Ints
    <2>3. bank' = [bank EXCEPT ![u] = P, ![Module] = Q, ![Vault] = R]
        BY <1>0, <1>2, <2>1
    <2>4. P \in Ints /\ \A x \in Denoms : P[x] = bank[u][x] - K[x]
        BY <1>10, <2>2 DEF Minus, Ints
    <2>5. W \in Ints /\ \A x \in Denoms : W[x] = bank[Module][x] - H[x]
        BY <1>10, <2>2 DEF Minus, Ints
    <2> HIDE DEF P, W
    <2>6. Q \in Ints /\ \A x \in Denoms : Q[x] = W[x] + K[x]
        BY <1>10, <2>5, PlusInts
    <2>7. R \in Ints /\ \A x \in Denoms : R[x] = bank[Vault][x] + H[x]
        BY <1>10, <2>2, PlusInts
    <2> HIDE DEF Q, R
    <2>8. bank'[u] = P /\ bank'[Module] = Q /\ bank'[Vault] = R
        BY <1>0, <2>1, <2>3
    <2>9. bank' \in [Accounts -> Ints]
        BY <1>0, <2>2, <2>3, <2>4, <2>6, <2>7
    <2>10. \A a \in Users \ {u} : bank'[a] = bank[a]
        BY <1>0, <2>1, <2>3 DEF Accounts
    <2> QED
        BY <2>4, <2>5, <2>6, <2>7, <2>8, <2>9, <2>10
<1>15. ASSUME NEW x \in Denoms
       PROVE  /\ bank'[u][x] >= 0
              /\ bank'[Module][x] - bank[Module][x]
                     = (Reserve(x)' - Reserve(x)) + (Collateral(x)' - Collateral(x))
              /\ bank'[Vault][x] - bank[Vault][x] = Held(x)' - Held(x)
    <2>1. /\ bank[u][x] \in Nat /\ bank[Module][x] \in Nat /\ bank[Vault][x] \in Nat
          /\ K[x] \in Int /\ H[x] \in Int
        BY <1>0, <1>10 DEF Accounts, Coins, Ints
    <2>2. bank[u][x] >= K[x]
        BY <1>2, <1>9, <2>1
    <2> QED
        BY <1>12, <1>13, <1>14, <2>1, <2>2
<1> QED
    BY <1>1, <1>14, <1>15, BooksFollow

(* A message to the pool keeps the books: loans are not touched. *)
LEMMA PoolBooks ==
    ASSUME BooksInv, NEW u \in Users, PoolMessage(u), UNCHANGED <<loans, height>>
    PROVE  BooksInv'
<1>1. LoansInv /\ LoansInv' /\ PoolInv /\ bank \in [Accounts -> Coins]
    BY PoolKeeps DEF BooksInv, LoansInv, PoolInv
<1>2. PaysPool(u)
    BY <1>1, MessagePaysPool
<1>3. \A d \in Denoms : /\ Collateral(d)' = Collateral(d) /\ Held(d)' = Held(d)
                        /\ Collateral(d) \in Nat /\ Held(d) \in Nat
    BY <1>1, SumsAreNat DEF Collateral, Held
<1>4. Vault \in Accounts \ {u, Module} /\ bank[Vault] \in Coins
    BY <1>1, PoolAssumption DEF Accounts
<1>5. \A d \in Denoms : bank'[Vault][d] - bank[Vault][d] = 0
    BY <1>2, <1>4 DEF PaysPool, Coins
<1>6. \A d \in Denoms : Reserve(d) \in Nat /\ Reserve(d)' \in Nat
    BY <1>1, SumsAreNat
<1>7. bank' \in [Accounts -> Ints] /\ \A a \in Users \ {u} : bank'[a] = bank[a]
    BY <1>2, PoolAssumption DEF PaysPool, Accounts
<1>8. ASSUME NEW d \in Denoms
      PROVE  /\ bank'[u][d] >= 0
             /\ bank'[Module][d] - bank[Module][d]
                    = (Reserve(d)' - Reserve(d)) + (Collateral(d)' - Collateral(d))
             /\ bank'[Vault][d] - bank[Vault][d] = Held(d)' - Held(d)
    BY <1>2, <1>3, <1>5, <1>6 DEF PaysPool
<1> QED
    BY <1>1, <1>7, <1>8, BooksFollow

(* The books are kept by every step. *)
THEOREM BooksInductive == (Init => BooksInv) /\ (BooksInv /\ [Next]_vars => BooksInv')
<1>1. ASSUME Init PROVE BooksInv
    <2>1. LoansInv /\ pool = NoPool /\ DOMAIN loans = {}
        BY <1>1, LoansInductive DEF Init, PoolInit
    <2>2. bank = [a \in Accounts |-> [d \in Denoms |-> IF a \in Users THEN InitFunds ELSE 0]]
        BY <1>1 DEF Init, PoolInit
    <2>3. bank \in [Accounts -> Coins]
        BY <2>2, PoolAssumption DEF Coins
    <2>4. ASSUME NEW d \in Denoms PROVE Collateral(d) = 0 /\ Held(d) = 0 /\ Reserve(d) = 0
        <3>1. ASSUME NEW f, DOMAIN f = {} PROVE SumFunction(f) = 0
            BY <3>1, SumOfNone DEF SumFunction
        <3>2. Collateral(d) = 0
            BY <2>1, <3>1 DEF Collateral
        <3>3. Held(d) = 0
            BY <2>1, <3>1 DEF Held
        <3> QED
            BY <2>1, <3>2, <3>3 DEF Reserve
    <2>5. \A d \in Denoms : bank[Module][d] = 0 /\ bank[Vault][d] = 0
        BY <2>2, PoolAssumption DEF Accounts
    <2> QED
        BY <2>1, <2>3, <2>4, <2>5 DEF BooksInv, BooksMatch
<1>2. ASSUME BooksInv, [Next]_vars PROVE BooksInv'
    <2>1. ASSUME NEW u \in Users, PoolMessage(u), UNCHANGED <<loans, height>> PROVE BooksInv'
        BY <1>2, <2>1, PoolBooks
    <2>2. ASSUME NEW u \in Users, TraderMessage(u) PROVE BooksInv'
        BY <1>2, <2>2, OpenBooks DEF TraderMessage
    <2>3. ASSUME NEW i \in DOMAIN loans, OwnerMessage(i) PROVE BooksInv'
        BY <1>2, <2>3, CloseBooks, CoverAllBooks, CoverSomeBooks, CollateralBooks DEF OwnerMessage
    <2>4. ASSUME NEW u \in Users, NEW i \in DOMAIN loans, LiquidatorMessage(u, i) PROVE BooksInv'
        BY <1>2, <2>4, CollateralBooks, FinalizeBooks DEF LiquidatorMessage
    <2>5. CASE UNCHANGED <<bank, pool, loans>>
        <3>1. LoansInv'
            BY <1>2, LoansInductive DEF BooksInv
        <3>2. \A d \in Denoms : Collateral(d)' = Collateral(d) /\ Held(d)' = Held(d) /\ Reserve(d)' = Reserve(d)
            BY <2>5 DEF Collateral, Held, Reserve
        <3> QED
            BY <1>2, <2>5, <3>1, <3>2 DEF BooksInv, BooksMatch
    <2> QED
        BY <1>2, <2>1, <2>2, <2>3, <2>4, <2>5 DEF Next, Block, vars, poolVars
<1> QED
    BY <1>1, <1>2

(* The assertions that the handlers end with refuse no message: the account of the module holds   *)
(* the reserves and the collateral of the loans that are not ended, the vault what those hold.    *)
THEOREM BooksHold == Spec => []BooksMatch
<1>1. Spec => []BooksInv
    BY BooksInductive, PTL DEF Spec
<1>2. BooksInv => BooksMatch
    BY DEF BooksInv
<1> QED
    BY <1>1, <1>2, PTL

(* No balance, no reserve and no part of a loan goes below zero in any handler. *)
THEOREM LoanTypes == Spec => []TypeOK
<1>1. Spec => []BooksInv
    BY BooksInductive, PTL DEF Spec
<1>2. BooksInv => TypeOK
    BY LoanAssumption DEF BooksInv, LoansInv, TypeOK
<1> QED
    BY <1>1, <1>2, PTL

-----------------------------------------------------------------------------
(* What is owed to the pool *)

\* what a loan is to pay back, with the interest up to now
Due(p) == p.borrowed + Interest(p) \div DecOne

(* A debt is a natural number; settling its interest makes that a part of it. *)
LEMMA DueNat ==
    ASSUME NEW p \in Loan, p.settled <= height, height \in Nat
    PROVE  Interest(p) \in Nat /\ Due(p) \in Nat /\ \A d \in Denoms : Owes(p, d) \in Nat
<1>1. p.accrued \in Nat /\ p.rem \in Nat /\ p.borrowed \in Nat /\ height - p.settled \in Nat
    BY DEF Loan
<1>2. DecOne * p.accrued \in Nat
    BY <1>1, MulNat, FeeLeaves
<1>3. p.borrowed * Rate \in Nat
    BY <1>1, MulNat, LoanAssumption
<1>4. p.borrowed * Rate * (height - p.settled) \in Nat
    BY <1>1, <1>3, MulNat
<1>5. Interest(p) \in Nat
    BY <1>1, <1>2, <1>4 DEF Interest
<1>6. Interest(p) \div DecOne \in Nat
    BY <1>5, DivNat, FeeLeaves
<1>7. Due(p) \in Nat
    BY <1>1, <1>6 DEF Due
<1> QED
    BY <1>5, <1>7 DEF Owes, Due

(* A loan whose interest has been settled owes what it says, at least. *)
LEMMA DueOfSettled ==
    ASSUME NEW p \in Loan, p.settled = height, height \in Nat
    PROVE  Due(p) >= p.borrowed + p.accrued
<1>1. p.accrued \in Nat /\ p.rem \in Nat /\ p.borrowed \in Nat
    BY DEF Loan
<1>2. p.borrowed * Rate \in Nat
    BY <1>1, MulNat, LoanAssumption
<1>3. p.borrowed * Rate * (height - p.settled) = 0
    BY <1>2
<1>4. Interest(p) = DecOne * p.accrued + p.rem
    BY <1>1, <1>2, <1>3, FeeLeaves DEF Interest
<1> DEFINE n == DecOne * p.accrued
<1>5. n \in Nat /\ n \div DecOne = p.accrued
    BY <1>1, MulNat, FeeLeaves
<1>6. n \div DecOne <= (n + p.rem) \div DecOne /\ (n + p.rem) \div DecOne \in Nat
    <2> HIDE DEF n
    <2> QED
        BY <1>1, <1>5, DivBelow, DivNat, FeeLeaves
<1> HIDE DEF n
<1> QED
    BY <1>1, <1>4, <1>5, <1>6 DEF Due, n

(* The debt of a loan is that of the loan with its interest settled. *)
LEMMA DueBefore ==
    ASSUME LoansInv, NEW i \in DOMAIN loans
    PROVE  LET p == SettleInterest(loans[i])
           IN Due(loans[i]) = p.borrowed + p.accrued /\ Active(loans[i]) = Active(p)
              /\ HasPool(loans[i]) = HasPool(p) /\ loans[i].owes = p.owes
<1>1. loans[i] \in Loan
    BY DEF LoansInv
<1> QED
    BY <1>1 DEF SettleInterest, Due, Loan, Active, HasPool

\* the sum of what a sequence of loans owes
OwedOn(s, d) == SumFunction([j \in DOMAIN s |-> Owes(s[j], d)])

(* Where one loan of a sequence changes, the sum owed changes by what it owes more. *)
LEMMA OwedChanges ==
    ASSUME NEW s, NEW t, NEW i \in DOMAIN s, IsFiniteSet(DOMAIN s), DOMAIN t = DOMAIN s, NEW d \in Denoms,
           \A j \in DOMAIN s : Owes(s[j], d) \in Nat /\ Owes(t[j], d) \in Nat,
           \A j \in DOMAIN s : j # i => t[j] = s[j]
    PROVE  OwedOn(t, d) = OwedOn(s, d) - Owes(s[i], d) + Owes(t[i], d) /\ OwedOn(s, d) \in Nat
<1> DEFINE S == DOMAIN s
           f == [j \in S |-> Owes(s[j], d)]
           g == [j \in S |-> Owes(t[j], d)]
<1>1. \A j \in S : f[j] \in Int /\ f[j] \in Nat
    OBVIOUS
<1>2. g[i] \in Int /\ (\A j \in S : j # i => g[j] = f[j]) /\ f[i] = Owes(s[i], d) /\ g[i] = Owes(t[i], d)
    OBVIOUS
<1>3. OwedOn(s, d) = SumFunctionOnSet(f, S) /\ OwedOn(t, d) = SumFunctionOnSet(g, S)
    BY DEF OwedOn, SumFunction
<1> HIDE DEF f, g
<1>4. SumFunctionOnSet(g, S) = SumFunctionOnSet(f, S) - f[i] + g[i]
    BY <1>1, <1>2, SumWithOneChanged
<1>5. SumFunctionOnSet(f, S) \in Nat
    BY <1>1, SumIsNat
<1> QED
    BY <1>2, <1>3, <1>4, <1>5

(* While the pool is the same one and no block ends, only loans change what is owed to it. *)
LEMMA OwedFollows ==
    ASSUME pool # NoPool, pool' # NoPool, pool'.id = pool.id, height' = height, NEW d \in Denoms
    PROVE  Owed(d)' = OwedOn(loans', d) /\ Owed(d) = OwedOn(loans, d)
<1>1. \A p : Owes(p, d)' = Owes(p, d)
    BY DEF Owes, HasPool, Interest
<1> QED
    BY DEF Owed, OwedOn, Owes, HasPool, Active, Interest

(* One loan changes what is owed by as much as it owes more. *)
LEMMA OwedWithLoan ==
    ASSUME LoansInv, pool # NoPool, pool' # NoPool, pool'.id = pool.id, height' = height,
           NEW i \in DOMAIN loans, NEW q, Sound(q, height), loans' = [loans EXCEPT ![i] = q],
           NEW d \in Denoms
    PROVE  /\ Owed(d)' - Owed(d) = Owes(q, d) - Owes(loans[i], d)
           /\ Owes(q, d) \in Nat /\ Owes(loans[i], d) \in Nat
<1>1. /\ DOMAIN loans' = DOMAIN loans /\ loans'[i] = q
      /\ \A j \in DOMAIN loans : j # i => loans'[j] = loans[j]
    BY DEF LoansInv
<1>2. height \in Nat /\ \A j \in DOMAIN loans : Sound(loans[j], height)
    BY LoanAssumption DEF LoansInv
<1>3. \A p : Sound(p, height) => Owes(p, d) \in Nat
    BY <1>2, DueNat DEF Sound
<1>4. \A j \in DOMAIN loans : Owes(loans[j], d) \in Nat /\ Owes(loans'[j], d) \in Nat
    BY <1>1, <1>2, <1>3
<1>5. IsFiniteSet(DOMAIN loans)
    BY LoansFinite
<1> DEFINE t == loans'
<1>6. OwedOn(t, d) = OwedOn(loans, d) - Owes(loans[i], d) + Owes(t[i], d) /\ OwedOn(loans, d) \in Nat
    <2>1. /\ DOMAIN t = DOMAIN loans
          /\ \A j \in DOMAIN loans : j # i => t[j] = loans[j]
          /\ \A j \in DOMAIN loans : Owes(loans[j], d) \in Nat /\ Owes(t[j], d) \in Nat
        BY <1>1, <1>4
    <2> HIDE DEF t
    <2> QED
        BY <1>5, <2>1, OwedChanges
<1>7. Owed(d)' = OwedOn(loans', d) /\ Owed(d) = OwedOn(loans, d)
    BY OwedFollows
<1>8. Owes(q, d) \in Nat /\ Owes(loans[i], d) \in Nat
    BY <1>1, <1>4
<1> QED
    BY <1>1, <1>6, <1>7, <1>8

-----------------------------------------------------------------------------
(* What a step has to show *)

Gain(d) == pool'.coins[d] + (Owed(d)' - Owed(d))

WorthKept == Gain(X) * Gain(Y) * supply * supply >= pool.coins[X] * pool.coins[Y] * supply' * supply'

(* Without a change of the shares: no less than some reserves whose product is not below that of *)
(* the pool.                                                                                     *)
LEMMA WorthOfProduct ==
    ASSUME LoansInv, pool # NoPool, supply' = supply,
           NEW c \in PosCoins, Product(c) >= Product(pool.coins),
           \A d \in Denoms : Gain(d) \in Int /\ Gain(d) >= c[d]
    PROVE  WorthKept
<1> DEFINE g == Gain(X)
           h == Gain(Y)
           x == c[X]
           y == c[Y]
           u == pool.coins[X]
           v == pool.coins[Y]
           s == supply
<1>1. x \in Nat /\ y \in Nat /\ u \in Nat /\ v \in Nat /\ s \in Nat
    BY DEF PosCoins, Denoms, LoansInv, Pool
<1>2. g \in Int /\ g >= x /\ h \in Int /\ h >= y
    BY DEF Denoms
<1>3. x * y >= u * v
    BY DEF Product
<1>4. supply' = s
    OBVIOUS
<1> HIDE DEF g, h, x, y, u, v, s
<1>5. g \in Nat /\ h \in Nat
    BY <1>1, <1>2
<1>6. x * y <= g * h
    BY <1>1, <1>2, <1>5, ProductsBelow
<1>7. u * v \in Nat /\ x * y \in Nat /\ g * h \in Nat
    BY <1>1, <1>5, MulNat
<1>8. u * v <= g * h
    BY <1>3, <1>6, <1>7
<1> DEFINE k == u * v
           l == g * h
<1>9. k \in Nat /\ l \in Nat /\ k <= l
    BY <1>7, <1>8
<1> HIDE DEF k, l
<1>10. k * s <= l * s /\ k * s \in Nat /\ l * s \in Nat
    BY <1>1, <1>9, MulBelow, MulNat
<1>11. (k * s) * s <= (l * s) * s /\ (k * s) * s \in Nat /\ (l * s) * s \in Nat
    BY <1>1, <1>10, MulBelow, MulNat
<1>12. l * s * s >= k * s * s
    BY <1>11
<1>13. g * h * s * s >= u * v * s * s
    BY <1>12 DEF k, l
<1> QED
    BY <1>4, <1>13 DEF WorthKept, g, h, u, v, s

(* With a change of the shares: each reserve grows no less, or shrinks no more, than they do. *)
LEMMA WorthOfShares ==
    ASSUME LoansInv, pool # NoPool, supply' \in Nat,
           \A d \in Denoms : Gain(d) \in Nat /\ Gain(d) * supply >= pool.coins[d] * supply'
    PROVE  WorthKept
<1> DEFINE g == Gain(X)
           h == Gain(Y)
           u == pool.coins[X]
           v == pool.coins[Y]
           s == supply
           t == supply'
<1>1. u \in Nat /\ v \in Nat /\ s \in Nat /\ t \in Nat
    BY DEF PosCoins, Denoms, LoansInv, Pool
<1>2. g \in Nat /\ h \in Nat /\ g * s >= u * t /\ h * s >= v * t
    BY DEF Denoms
<1> HIDE DEF g, h, u, v, s, t
<1> DEFINE A == u * t
           B == v * t
           G == g * s
           H == h * s
<1>3. A \in Nat /\ B \in Nat /\ G \in Nat /\ H \in Nat /\ A <= G /\ B <= H
    <2>1. A \in Nat /\ B \in Nat /\ G \in Nat /\ H \in Nat
        BY <1>1, <1>2, MulNat
    <2> QED
        BY <1>2, <2>1
<1>4. G * H = g * h * s * s /\ A * B = u * v * t * t
    BY <1>1, <1>2
<1> HIDE DEF A, B, G, H
<1>5. A * B <= G * H /\ A * B \in Nat /\ G * H \in Nat
    BY <1>3, ProductsBelow, MulNat
<1>6. G * H >= A * B
    BY <1>5
<1>7. g * h * s * s >= u * v * t * t
    BY <1>4, <1>6
<1> QED
    BY <1>7 DEF WorthKept, g, h, u, v, s, t

-----------------------------------------------------------------------------
(* Messages to the pool *)

(* What is owed is a natural number. *)
LEMMA OwedNat == ASSUME LoansInv, NEW d \in Denoms PROVE Owed(d) \in Nat
<1> DEFINE S == DOMAIN loans
           f == [j \in S |-> Owes(loans[j], d)]
<1>1. height \in Nat /\ \A j \in S : loans[j] \in Loan /\ loans[j].settled <= height
    BY LoanAssumption DEF LoansInv, Sound
<1>2. \A j \in S : f[j] \in Nat
    BY <1>1, DueNat
<1>3. IsFiniteSet(S) /\ Owed(d) = SumFunctionOnSet(f, S)
    BY LoansFinite DEF Owed, SumFunction
<1> HIDE DEF f, S
<1> QED
    BY <1>2, <1>3, SumIsNat

(* A message that leaves the loans alone gains what the reserves become. *)
LEMMA PoolGains ==
    ASSUME LoansInv, pool # NoPool, NEW c \in PosCoins,
           pool' = [pool EXCEPT !.coins = c, !.uses = @ + 1], UNCHANGED <<loans, height>>
    PROVE  \A d \in Denoms : Gain(d) = c[d] /\ c[d] \in Nat
<1>1. pool \in Pool /\ pool.uses + 1 \in Nat
    BY DEF LoansInv, Pool
<1> DEFINE n == pool.uses + 1
           q == [pool EXCEPT !.coins = c, !.uses = n]
<1>2. pool' = q /\ q.coins = c /\ q.id = pool.id
    BY <1>1 DEF Pool
<1> HIDE DEF n
<1>3. q \in Pool
    BY <1>1, PoolWith DEF n
<1> HIDE DEF q
<1>4. pool' # NoPool /\ pool'.id = pool.id /\ pool'.coins = c
    BY <1>2, <1>3, NoPoolAssumption
<1> SUFFICES ASSUME NEW d \in Denoms PROVE Gain(d) = c[d] /\ c[d] \in Nat
    OBVIOUS
<1>5. Owed(d)' = OwedOn(loans, d) /\ Owed(d) = OwedOn(loans, d)
    BY <1>4, OwedFollows
<1>6. Owed(d) \in Nat /\ c[d] \in Nat
    BY OwedNat DEF PosCoins
<1> QED
    BY <1>4, <1>5, <1>6 DEF Gain

(* Shares are given for no more than they are worth ... *)
LEMMA AdditionsKeepWorth ==
    ASSUME LoansInv, NEW u \in Users, NEW a \in Additions, AddProportionally(u, a),
           UNCHANGED <<loans, height>>
    PROVE  WorthKept
<1> DEFINE m == Minted(a)
           k(d) == CeilDiv(m * pool.coins[d], supply)
           needed == [d \in Denoms |-> k(d)]
           c == Plus(pool.coins, needed)
<1>1. /\ pool # NoPool /\ supply' = supply + m
      /\ pool' = [pool EXCEPT !.coins = Plus(@, needed), !.uses = @ + 1]
    BY DEF AddProportionally, Usable
<1>2. PoolInv /\ pool \in Pool /\ pool.coins \in PosCoins /\ supply \in Nat \ {0}
    BY <1>1 DEF LoansInv, PoolInv, Pool, PosCoins
<1>3. m \in Nat
    BY <1>1, <1>2, MintedNat
<1> HIDE DEF m
<1>4. ASSUME NEW d \in Denoms
      PROVE  k(d) \in Nat /\ k(d) * supply >= m * pool.coins[d] /\ pool.coins[d] \in Nat
    <2>1. pool.coins[d] \in Nat /\ m * pool.coins[d] \in Nat
        BY <1>2, <1>3, MulNat DEF PosCoins
    <2> QED
        BY <1>2, <2>1, CeilCovers
<1> HIDE DEF k
<1>5. needed \in Coins /\ \A d \in Denoms : c[d] = pool.coins[d] + k(d)
    BY <1>4 DEF Coins, Plus
<1> HIDE DEF needed
<1>6. c \in PosCoins
    BY <1>2, <1>5, PlusPos
<1>7. pool' = [pool EXCEPT !.coins = c, !.uses = @ + 1]
    BY <1>1, <1>2 DEF Pool
<1> HIDE DEF c
<1>8. \A d \in Denoms : Gain(d) = c[d] /\ c[d] \in Nat
    BY <1>1, <1>6, <1>7, PoolGains
<1>9. ASSUME NEW d \in Denoms PROVE Gain(d) \in Nat /\ Gain(d) * supply >= pool.coins[d] * supply'
    <2> DEFINE x == pool.coins[d]
               y == k(d)
               s == supply
    <2>1. x \in Nat /\ y \in Nat /\ s \in Nat /\ y * s >= m * x /\ c[d] = x + y
        BY <1>2, <1>4, <1>5
    <2>2. Gain(d) = x + y /\ supply' = s + m
        BY <1>1, <1>8, <2>1
    <2> HIDE DEF x, y, s
    <2>3. (x + y) * s = x * s + y * s /\ x * (s + m) = x * s + m * x
        BY <1>3, <2>1
    <2>4. x * s \in Nat /\ y * s \in Nat /\ m * x \in Nat /\ x + y \in Nat
        BY <1>3, <2>1, MulNat
    <2>5. (x + y) * s >= x * (s + m)
        BY <2>1, <2>3, <2>4
    <2> QED
        BY <2>2, <2>4, <2>5 DEF x, s
<1>10. supply' \in Nat
    BY <1>1, <1>2, <1>3
<1> QED
    BY <1>1, <1>9, <1>10, WorthOfShares

(* ... and are taken back for no more. *)
LEMMA WithdrawalsKeepWorth ==
    ASSUME LoansInv, NEW u \in Users, NEW n \in ShareAmounts, RemoveSome(u, n),
           UNCHANGED <<loans, height>>
    PROVE  WorthKept
<1> DEFINE out == [d \in Denoms |-> Part(pool.coins[d], n)]
           c == Minus(pool.coins, out)
<1>1. /\ pool # NoPool /\ n < supply /\ supply' = supply - n
      /\ \A d \in Denoms : out[d] < pool.coins[d]
      /\ pool' = [pool EXCEPT !.coins = Minus(@, out), !.uses = @ + 1]
    BY DEF RemoveSome, Usable
<1>2. PoolInv /\ pool \in Pool /\ pool.coins \in PosCoins /\ supply \in Nat \ {0} /\ n \in Nat \ {0}
    <2>1. PoolInv /\ pool \in Pool /\ pool.coins \in PosCoins
        BY <1>1 DEF LoansInv, PoolInv, Pool, PosCoins
    <2>2. n \in Nat \ {0} /\ supply \in Nat
        BY PoolAssumption DEF LoansInv, PoolInv
    <2> QED
        BY <1>1, <2>1, <2>2
<1>3. ASSUME NEW d \in Denoms
      PROVE  out[d] \in Nat /\ out[d] * supply <= pool.coins[d] * n
    <2> DEFINE x == pool.coins[d]
               y == x * n
               q == y \div supply
    <2>1. x \in Nat \ {0} /\ Part(x, n) \in Nat
        BY <1>2, PartNat DEF PosCoins
    <2>2. Part(x, n) <= q /\ q \in Nat /\ y \in Nat
        <3>1. y \in Nat
            BY <1>2, <2>1, MulNat
        <3>2. q \in Nat
            <4> HIDE DEF y
            <4> QED
                BY <1>2, <3>1, DivNat
        <3>3. Part(x, n) \in {q, q - 1}
            BY DEF Part
        <3> HIDE DEF q, y
        <3> QED
            BY <3>1, <3>2, <3>3
    <2>3. q * supply <= y /\ q * supply \in Nat
        <3> HIDE DEF y
        <3>1. supply * q <= y
            BY <1>2, <2>2
        <3> HIDE DEF q
        <3>2. q * supply = supply * q /\ q * supply \in Nat
            BY <1>2, <2>2, MulNat
        <3> QED
            BY <3>1, <3>2
    <2> HIDE DEF q
    <2>4. Part(x, n) * supply <= q * supply /\ Part(x, n) * supply \in Nat
        BY <1>2, <2>1, <2>2, MulBelow, MulNat
    <2>5. Part(x, n) * supply <= y
        BY <2>2, <2>3, <2>4
    <2> QED
        BY <2>1, <2>5
<1> HIDE DEF out
<1>4. c \in PosCoins /\ \A d \in Denoms : c[d] = pool.coins[d] - out[d]
    BY <1>1, <1>2, <1>3 DEF Minus, PosCoins
<1>5. pool' = [pool EXCEPT !.coins = c, !.uses = @ + 1]
    BY <1>1, <1>2 DEF Pool
<1> HIDE DEF c
<1>6. \A d \in Denoms : Gain(d) = c[d] /\ c[d] \in Nat
    BY <1>1, <1>4, <1>5, PoolGains
<1>7. ASSUME NEW d \in Denoms PROVE Gain(d) \in Nat /\ Gain(d) * supply >= pool.coins[d] * supply'
    <2> DEFINE x == pool.coins[d]
               y == out[d]
               s == supply
    <2>1. x \in Nat /\ y \in Nat /\ s \in Nat /\ n \in Nat /\ y * s <= x * n /\ c[d] = x - y
        BY <1>2, <1>3, <1>4 DEF PosCoins
    <2>2. Gain(d) = x - y /\ Gain(d) \in Nat /\ supply' = s - n
        BY <1>1, <1>6, <2>1
    <2> HIDE DEF x, y, s
    <2>3. (x - y) * s = x * s - y * s /\ x * (s - n) = x * s - x * n
        BY <2>1
    <2>4. x * s \in Nat /\ y * s \in Nat /\ x * n \in Nat
        BY <2>1, MulNat
    <2>5. (x - y) * s >= x * (s - n)
        BY <2>1, <2>3, <2>4
    <2> QED
        BY <2>2, <2>5 DEF x, s
<1>8. supply' \in Nat
    BY <1>1, <1>2
<1> QED
    BY <1>1, <1>7, <1>8, WorthOfShares

(* Swaps leave no smaller product of the reserves. *)
LEMMA TradesKeepWorth ==
    ASSUME LoansInv, pool # NoPool, NEW c \in PosCoins, Product(c) >= Product(pool.coins),
           pool' = [pool EXCEPT !.coins = c, !.uses = @ + 1], UNCHANGED <<supply, loans, height>>
    PROVE  WorthKept
<1>1. \A d \in Denoms : Gain(d) = c[d] /\ c[d] \in Nat
    BY PoolGains
<1>2. \A d \in Denoms : Gain(d) \in Int /\ Gain(d) >= c[d]
    BY <1>1
<1> QED
    BY <1>2, WorthOfProduct

(* No message to the pool lowers what a share is worth, unbalanced additions apart. *)
LEMMA MessagesKeepWorth ==
    ASSUME LoansInv, pool # NoPool, pool' # NoPool, NEW u \in Users, PoolMessage(u),
           ~\E a \in Additions : AddUnbalanced(u, a), UNCHANGED <<loans, height>>
    PROVE  WorthKept
<1>1. pool \in Pool /\ pool.coins \in PosCoins
    BY DEF LoansInv, Pool, PosCoins
<1>2. ASSUME NEW a \in Additions, AddProportionally(u, a) PROVE WorthKept
    BY <1>2, AdditionsKeepWorth
<1>3. ASSUME NEW n \in ShareAmounts, RemoveSome(u, n) PROVE WorthKept
    BY <1>3, WithdrawalsKeepWorth
<1>4. ASSUME NEW n \in ShareAmounts, NEW v \in Users, SendShares(u, v, n) PROVE WorthKept
    <2>1. pool' = [pool EXCEPT !.coins = pool.coins, !.uses = @ + 1] /\ supply' = supply
        BY <1>1, <1>4 DEF SendShares, Pool
    <2>2. Product(pool.coins) >= Product(pool.coins)
        <3>1. pool.coins[X] * pool.coins[Y] \in Nat
            BY <1>1, MulNat DEF PosCoins, Denoms
        <3> QED
            BY <3>1 DEF Product
    <2> QED
        BY <1>1, <2>1, <2>2, TradesKeepWorth
<1>5. ASSUME NEW d \in Denoms, NEW n \in SwapAmounts, SwapIn(u, d, n) PROVE WorthKept
    <2> DEFINE out == ExactIn(pool.coins, d, n)
               c == Swapped(pool.coins, d, n, out)
    <2>1. n \in Nat /\ Trade(u, d, n, out)
        BY <1>5, PoolAssumption DEF SwapIn
    <2>2. Product(c) >= Product(pool.coins)
        BY <1>1, <2>1, SwapInGains
    <2>3. out \in Int /\ out < pool.coins[Other(d)]
        BY <1>1, <2>1, SwapInBelow
    <2> HIDE DEF out
    <2>4. c \in PosCoins
        BY <1>1, <2>1, <2>3, SwappedPos
    <2>5. pool' = [pool EXCEPT !.coins = c, !.uses = @ + 1] /\ supply' = supply
        BY <1>1, <2>1 DEF Trade, Pool
    <2> HIDE DEF c
    <2> QED
        BY <2>2, <2>4, <2>5, TradesKeepWorth
<1>6. ASSUME NEW d \in Denoms, NEW n \in SwapAmounts, SwapOut(u, d, n) PROVE WorthKept
    <2> DEFINE in == ExactOut(pool.coins, d, n)
               c == Swapped(pool.coins, d, in, n)
    <2>1. n \in Nat /\ n < pool.coins[Other(d)] /\ Trade(u, d, in, n)
        BY <1>6, PoolAssumption DEF SwapOut
    <2>2. Product(c) >= Product(pool.coins)
        BY <1>1, <2>1, SwapOutGains
    <2>3. in \in Nat
        BY <1>1, <2>1, SwapOutNat
    <2> HIDE DEF in
    <2>4. c \in PosCoins
        BY <1>1, <2>1, <2>3, SwappedPos
    <2>5. pool' = [pool EXCEPT !.coins = c, !.uses = @ + 1] /\ supply' = supply
        BY <1>1, <2>1 DEF Trade, Pool
    <2> HIDE DEF c
    <2> QED
        BY <2>2, <2>4, <2>5, TradesKeepWorth
<1> QED
    BY <1>2, <1>3, <1>4, <1>5, <1>6 DEF PoolMessage, CreatePool, RemoveAll

-----------------------------------------------------------------------------
(* Loans that are settled *)

(* A loan with its interest settled owes what it says, at least, until it ends. *)
LEMMA OwesSettled ==
    ASSUME LoansInv, NEW q \in Loan, q.settled = height, HasPool(q)
    PROVE  /\ Owes(q, q.owes) \in Nat
           /\ Owes(q, q.owes) >= Out(q, q.borrowed + q.accrued)
           /\ \A e \in Denoms : e # q.owes => Owes(q, e) = 0
<1>1. height \in Nat /\ q.owes \in Denoms
    BY LoanAssumption DEF LoansInv, Loan
<1>2. Due(q) \in Nat /\ Due(q) >= q.borrowed + q.accrued /\ \A e \in Denoms : Owes(q, e) \in Nat
    BY <1>1, DueNat, DueOfSettled
<1> QED
    BY <1>1, <1>2 DEF Owes, Due, Out

(* What a loan owed before is what it says once its interest is settled. *)
LEMMA OwesBefore ==
    ASSUME LoansInv, NEW i \in DOMAIN loans, Active(loans[i]), HasPool(loans[i])
    PROVE  LET p == SettleInterest(loans[i])
           IN /\ Owes(loans[i], p.owes) = p.borrowed + p.accrued
              /\ \A e \in Denoms : e # p.owes => Owes(loans[i], e) = 0
    BY DueBefore DEF Owes, Due

(* Settling keeps what a share is worth when the reserves gain, on top of a swap that loses       *)
(* nothing, what the loan owes less.                                                             *)
LEMMA SettleWorth ==
    ASSUME LoansInv, NEW i \in DOMAIN loans, Active(loans[i]), HasPool(loans[i]),
           NEW q, Sound(q, height), q.settled = height, q.owes = loans[i].owes, q.pool = loans[i].pool,
           NEW c \in PosCoins, Product(c) >= Product(pool.coins), NEW due \in Nat,
           SettleInterest(loans[i]).borrowed + SettleInterest(loans[i]).accrued
               <= Out(q, q.borrowed + q.accrued) + due,
           NEW coins \in PosCoins, \A e \in Denoms : coins[e] >= c[e] + One(q.owes, due)[e],
           NEW u, NEW principal \in Nat, NEW h, NEW payment,
           Settle(i, q, u, coins, principal, h, payment)
    PROVE  WorthKept
<1> DEFINE p == SettleInterest(loans[i])
           d == q.owes
<1>1. pool # NoPool /\ pool \in Pool /\ q \in Loan /\ p.owes = d /\ d \in Denoms /\ HasPool(q)
    BY SettledSound DEF HasPool, LoansInv, Sound, Loan
<1>2. /\ pool' = [pool EXCEPT !.coins = coins, !.borrowed[d] = @ - principal]
      /\ loans' = [loans EXCEPT ![i] = q]
      /\ UNCHANGED <<shares, supply, poolSeq, height>>
    BY DEF Settle
<1>3. pool' \in Pool /\ pool'.coins = coins
    BY <1>1, SettleKeeps
<1>4. pool' # NoPool /\ pool'.id = pool.id
    BY <1>1, <1>2, <1>3, NoPoolAssumption DEF Pool
<1>5. ASSUME NEW e \in Denoms PROVE Gain(e) \in Int /\ Gain(e) >= c[e]
    <2>1. /\ Owed(e)' - Owed(e) = Owes(q, e) - Owes(loans[i], e)
          /\ Owes(q, e) \in Nat /\ Owes(loans[i], e) \in Nat
        BY <1>1, <1>2, <1>4, OwedWithLoan
    <2>2. coins[e] \in Nat /\ c[e] \in Nat /\ coins[e] >= c[e] + One(d, due)[e]
        BY DEF PosCoins
    <2>3. Gain(e) = coins[e] + (Owes(q, e) - Owes(loans[i], e))
        BY <1>3, <2>1 DEF Gain
    <2>4. CASE e = d
        <3>1. Owes(q, e) >= Out(q, q.borrowed + q.accrued)
            BY <1>1, <2>4, OwesSettled
        <3>2. Owes(loans[i], e) = p.borrowed + p.accrued
            BY <1>1, <2>4, OwesBefore
        <3>3. One(d, due)[e] = due
            BY <1>1, <2>4 DEF One
        <3>4. Out(q, q.borrowed + q.accrued) \in Nat
            BY <1>1 DEF Out, Loan
        <3> QED
            BY <2>1, <2>2, <2>3, <3>1, <3>2, <3>3, <3>4
    <2>5. CASE e # d
        <3>1. Owes(q, e) = 0 /\ Owes(loans[i], e) = 0
            BY <1>1, <2>5, OwesSettled, OwesBefore
        <3>2. One(d, due)[e] = 0
            BY <2>5 DEF One
        <3> QED
            BY <2>2, <2>3, <3>1, <3>2
    <2> QED
        BY <2>4, <2>5
<1> QED
    BY <1>1, <1>2, <1>5, WorthOfProduct

(* A payment takes off the debt what it is, interest first. *)
LEMMA PaidDebt ==
    ASSUME NEW p \in Loan, NEW n \in Nat, n <= p.borrowed + p.accrued
    PROVE  /\ Paid(p, n).borrowed + Paid(p, n).accrued = p.borrowed + p.accrued - n
           /\ Paid(p, n).pool = p.pool
<1> DEFINE interest == Lower(n, p.accrued)
           a == p.accrued - interest
           b == p.borrowed - (n - interest)
           r == [p EXCEPT !.accrued = a, !.borrowed = b]
<1>1. p.borrowed \in Nat /\ p.accrued \in Nat
    BY DEF Loan
<1>2. a + b = p.borrowed + p.accrued - n /\ b + a = a + b
    BY <1>1 DEF Lower
<1>3. Paid(p, n) = Reset(r)
    BY DEF Paid, Loan
<1> HIDE DEF interest, a, b
<1>4. r.borrowed = b /\ r.accrued = a /\ r.pool = p.pool
    BY DEF Loan
<1>5. Reset(r).borrowed = r.borrowed /\ Reset(r).accrued = r.accrued /\ Reset(r).pool = r.pool
    BY DEF Reset, Loan
<1> HIDE DEF r
<1> QED
    BY <1>2, <1>3, <1>4, <1>5

(* What is closed of a loan comes off its debt, all of it when the loan is closed. *)
LEMMA ClosedDebt ==
    ASSUME LoansInv, NEW p, Sound(p, height), Active(p), NEW f \in 1..DecOne
    PROVE  LET gone(x) == x - Kept(x, f)
               due == gone(p.borrowed) + gone(p.accrued)
               part == [Paid(p, due) EXCEPT !.held = @ - gone(p.held), !.coll = @ - gone(p.coll)]
               q == IF f = DecOne THEN [part EXCEPT !.status = "CLOSED", !.liqHeight = 0] ELSE part
           IN /\ Out(q, q.borrowed + q.accrued) + due = p.borrowed + p.accrued
              /\ q.pool = p.pool /\ q.settled = p.settled
<1> DEFINE gone(x) == x - Kept(x, f)
           due == gone(p.borrowed) + gone(p.accrued)
           r == Paid(p, due)
           part == [r EXCEPT !.held = @ - gone(p.held), !.coll = @ - gone(p.coll)]
           q == IF f = DecOne THEN [part EXCEPT !.status = "CLOSED", !.liqHeight = 0] ELSE part
<1>1. p \in Loan /\ p.borrowed \in Nat /\ p.accrued \in Nat
    BY DEF Sound, Loan
<1>2. \A x \in Nat : gone(x) \in Nat /\ gone(x) <= x
    BY KeptTypes
<1>3. due \in Nat /\ due <= p.borrowed + p.accrued
    BY <1>1, <1>2
<1>4. f = DecOne => due = p.borrowed + p.accrued
    BY <1>1, NothingKept
<1> HIDE DEF due, gone
<1>5. /\ r.borrowed + r.accrued = p.borrowed + p.accrued - due /\ r.pool = p.pool
      /\ r.settled = p.settled /\ r.status = p.status /\ r \in Loan
    BY <1>1, <1>3, PaidDebt, PaidTypes
<1> HIDE DEF r
<1>6. /\ part.borrowed = r.borrowed /\ part.accrued = r.accrued /\ part.pool = r.pool
      /\ part.settled = r.settled /\ part.status = r.status
    BY <1>5 DEF Loan
<1>7. CASE f = DecOne
    <2>1. q.status = "CLOSED" /\ q.pool = part.pool /\ q.settled = part.settled
        BY <1>5, <1>7 DEF Loan
    <2> HIDE DEF q
    <2>2. Out(q, q.borrowed + q.accrued) = 0
        BY <2>1 DEF Out, Active
    <2> HIDE DEF part
    <2> QED
        BY <1>1, <1>3, <1>4, <1>5, <1>6, <1>7, <2>1, <2>2 DEF q, part, r, due, gone
<1>8. CASE f # DecOne
    <2>1. q = part
        BY <1>8
    <2>2. Active(part)
        BY <1>5, <1>6 DEF Active
    <2>3. Out(part, part.borrowed + part.accrued) = p.borrowed + p.accrued - due
        BY <1>5, <1>6, <2>2 DEF Out
    <2> HIDE DEF part, q
    <2>4. Out(q, q.borrowed + q.accrued) + due = p.borrowed + p.accrued
        BY <1>1, <1>3, <2>1, <2>3
    <2> QED
        BY <1>5, <1>6, <2>1, <2>4 DEF q, part, r, due, gone
<1> QED
    BY <1>7, <1>8

(* Reserves with the payment on top. *)
LEMMA PaidReserves ==
    ASSUME NEW c \in PosCoins, NEW d \in Denoms, NEW n \in Nat
    PROVE  /\ Plus(c, One(d, n)) \in PosCoins
           /\ \A e \in Denoms : Plus(c, One(d, n))[e] >= c[e] + One(d, n)[e]
<1>1. One(d, n) \in Coins
    BY OneCoins
<1>2. \A e \in Denoms : Plus(c, One(d, n))[e] = c[e] + One(d, n)[e] /\ c[e] + One(d, n)[e] \in Nat
    BY <1>1 DEF Plus, PosCoins, Coins
<1>3. Plus(c, One(d, n)) \in PosCoins
    BY <1>1, PlusPos
<1> QED
    BY <1>2, <1>3

(* Closing a loan, with one swap or with two. *)
LEMMA ClosesKeepWorth ==
    ASSUME LoansInv, NEW i \in DOMAIN loans, NEW f \in Fractions, ClosePosition(i, f)
    PROVE  WorthKept
<1> DEFINE p == SettleInterest(loans[i])
           d == p.owes
           gone(x) == x - Kept(x, f)
           due == gone(p.borrowed) + gone(p.accrued)
           in == gone(p.held)
           proceeds == ExactIn(pool.coins, Other(d), in)
           swapped == Swapped(pool.coins, Other(d), in, proceeds)
           spent == ExactOut(swapped, Other(d), due - proceeds)
           part == [Paid(p, due) EXCEPT !.held = @ - gone(p.held), !.coll = @ - gone(p.coll)]
           q == IF f = DecOne THEN [part EXCEPT !.status = "CLOSED", !.liqHeight = 0] ELSE part
<1>1. /\ Sound(p, height) /\ p.owes = loans[i].owes /\ p.settled = height
      /\ p.pool = loans[i].pool /\ p.status = loans[i].status
    BY SettledSound
<1>2. Closeable(p) /\ (f < DecOne => KeepsPart(p, f))
    BY DEF ClosePosition
<1>3. Active(p) /\ HasPool(p) /\ pool # NoPool
    BY <1>2 DEF Closeable, HasPool
<1>4. f \in 1..DecOne
    BY LoanAssumption
<1>5. due \in Nat /\ gone(p.borrowed) \in Nat /\ in \in Nat /\ Sound(q, height) /\ q.owes = p.owes
    BY <1>1, <1>2, <1>3, <1>4, ClosedPart
<1>6. Out(q, q.borrowed + q.accrued) + due = p.borrowed + p.accrued /\ q.pool = p.pool /\ q.settled = p.settled
    BY <1>1, <1>3, <1>4, ClosedDebt
<1>7. d \in Denoms /\ p.borrowed + p.accrued \in Nat
    BY <1>1 DEF Sound, Loan
<1>8. pool.coins \in PosCoins
    BY <1>3 DEF LoansInv, Pool, PosCoins
<1>9. Active(loans[i]) /\ HasPool(loans[i])
    BY <1>1, <1>3 DEF Active, HasPool
<1>10. \E coins, payment :
          /\ \/ coins = swapped
             \/ /\ proceeds < due /\ due - proceeds < swapped[d]
                /\ coins = Swapped(swapped, Other(d), spent, due - proceeds)
          /\ Settle(i, q, p.user, Plus(coins, One(d, due)), gone(p.borrowed), gone(p.held), payment)
    BY DEF ClosePosition
<1>11. p.borrowed + p.accrued <= Out(q, q.borrowed + q.accrued) + due
    BY <1>6, <1>7
<1> HIDE DEF q, d, due, in
<1>12. Other(d) \in Denoms /\ Other(Other(d)) = d
    BY <1>7, OtherDenom
<1>13. proceeds \in Int /\ proceeds < pool.coins[d]
    BY <1>5, <1>8, <1>12, SwapInBelow
<1>14. Product(swapped) >= Product(pool.coins)
    BY <1>5, <1>8, <1>12, SwapInGains
<1> HIDE DEF proceeds
<1>15. swapped \in PosCoins
    BY <1>5, <1>8, <1>12, <1>13, SwappedPos
<1> HIDE DEF swapped
<1>16. ASSUME proceeds < due, due - proceeds < swapped[d]
       PROVE  LET c == Swapped(swapped, Other(d), spent, due - proceeds)
              IN c \in PosCoins /\ Product(c) >= Product(pool.coins)
    <2> DEFINE c == Swapped(swapped, Other(d), spent, due - proceeds)
    <2>1. due - proceeds \in Nat
        BY <1>5, <1>13, <1>16
    <2>2. spent \in Nat
        BY <1>12, <1>15, <1>16, <2>1, SwapOutNat
    <2>3. Product(c) >= Product(swapped)
        BY <1>12, <1>15, <1>16, <2>1, SwapOutGains
    <2> HIDE DEF spent
    <2>4. c \in PosCoins
        BY <1>12, <1>15, <1>16, <2>1, <2>2, SwappedPos
    <2> HIDE DEF c
    <2>5. Product(c) \in Nat /\ Product(swapped) \in Nat /\ Product(pool.coins) \in Nat
        BY <1>8, <1>15, <2>4, ProductNat
    <2>6. Product(c) >= Product(pool.coins)
        BY <1>14, <2>3, <2>5
    <2> QED
        BY <2>4, <2>6 DEF c
<1>17. PICK c, payment :
          /\ c \in PosCoins /\ Product(c) >= Product(pool.coins)
          /\ Settle(i, q, p.user, Plus(c, One(d, due)), gone(p.borrowed), gone(p.held), payment)
    BY <1>10, <1>14, <1>15, <1>16
<1> DEFINE coins == Plus(c, One(d, due))
<1>18. coins \in PosCoins /\ \A e \in Denoms : coins[e] >= c[e] + One(d, due)[e]
    BY <1>5, <1>7, <1>17, PaidReserves
<1>19. Settle(i, q, p.user, coins, gone(p.borrowed), gone(p.held), payment)
    BY <1>17
<1>20. d = q.owes /\ q.owes = loans[i].owes /\ q.pool = loans[i].pool /\ q.settled = height
    BY <1>1, <1>5, <1>6 DEF d
<1> HIDE DEF coins, gone
<1> QED
    BY <1>5, <1>9, <1>11, <1>17, <1>18, <1>19, <1>20, SettleWorth DEF p

(* Covering all of a loan is one swap, and a payment of the rest. *)
LEMMA CoversKeepWorth ==
    ASSUME LoansInv, NEW i \in DOMAIN loans, NEW n \in Payments, CoverAll(i, n)
    PROVE  WorthKept
<1> DEFINE p == SettleInterest(loans[i])
           d == p.owes
           due == p.borrowed + p.accrued
           proceeds == ExactIn(pool.coins, Other(d), p.held)
           c == Swapped(pool.coins, Other(d), p.held, proceeds)
           q == [p EXCEPT !.borrowed = 0, !.rem = 0, !.status = "CLOSED", !.liqHeight = 0]
<1>1. /\ Sound(p, height) /\ p.owes = loans[i].owes /\ p.settled = height
      /\ p.pool = loans[i].pool /\ p.status = loans[i].status
    BY SettledSound
<1>2. Active(p) /\ HasPool(p) /\ pool # NoPool
    BY DEF CoverAll, Closeable, HasPool
<1>3. \E h, payment : Settle(i, q, p.user, Plus(c, One(d, due)), p.borrowed, h, payment)
    BY DEF CoverAll
<1>4. Active(loans[i]) /\ HasPool(loans[i])
    BY <1>1, <1>2 DEF Active, HasPool
<1> HIDE DEF p
<1>5. p \in Loan /\ p.settled <= height
    BY <1>1 DEF Sound
<1>6. d \in Denoms /\ due \in Nat /\ p.borrowed \in Nat /\ p.held \in Nat
    BY <1>5 DEF Loan
<1>7. q \in Loan /\ q.settled = p.settled /\ q.status = "CLOSED" /\ q.owes = d /\ q.pool = p.pool
    BY <1>5 DEF Loan, Statuses
<1> HIDE DEF q
<1>8. Sound(q, height) /\ Out(q, q.borrowed + q.accrued) = 0
    BY <1>5, <1>7 DEF Sound, Active, Out
<1>9. pool.coins \in PosCoins
    BY <1>2 DEF LoansInv, Pool, PosCoins
<1>10. p.borrowed + p.accrued <= Out(q, q.borrowed + q.accrued) + due /\ d = q.owes
       /\ q.owes = loans[i].owes /\ q.pool = loans[i].pool /\ q.settled = height
    BY <1>1, <1>6, <1>7, <1>8
<1> HIDE DEF d, due
<1>11. Other(d) \in Denoms /\ Other(Other(d)) = d
    BY <1>6, OtherDenom
<1>12. proceeds \in Int /\ proceeds < pool.coins[d] /\ Product(c) >= Product(pool.coins)
    BY <1>6, <1>9, <1>11, SwapInBelow, SwapInGains
<1> HIDE DEF proceeds
<1>13. c \in PosCoins
    BY <1>6, <1>9, <1>11, <1>12, SwappedPos
<1> HIDE DEF c
<1> DEFINE coins == Plus(c, One(d, due))
<1>14. coins \in PosCoins /\ \A e \in Denoms : coins[e] >= c[e] + One(d, due)[e]
    BY <1>6, <1>13, PaidReserves
<1>15. PICK h, payment : Settle(i, q, p.user, coins, p.borrowed, h, payment)
    BY <1>3
<1> HIDE DEF coins
<1> QED
    BY <1>4, <1>6, <1>8, <1>10, <1>12, <1>13, <1>14, <1>15, SettleWorth DEF p

(* Covering some of a loan pays the pool what the debt falls by. *)
LEMMA PaymentsKeepWorth ==
    ASSUME LoansInv, NEW i \in DOMAIN loans, NEW n \in Payments, CoverSome(i, n)
    PROVE  WorthKept
<1> DEFINE p == SettleInterest(loans[i])
           d == p.owes
           r == Paid(p, n)
           q == Cleared(r)
           c == pool.coins
<1>1. /\ Sound(p, height) /\ p.owes = loans[i].owes /\ p.settled = height
      /\ p.pool = loans[i].pool /\ p.status = loans[i].status
    BY SettledSound
<1>2. Active(p) /\ HasPool(p) /\ pool # NoPool /\ n >= p.accrued /\ n < p.borrowed + p.accrued
    BY DEF CoverSome, HasPool
<1>3. \E payment : Settle(i, q, p.user, Plus(c, One(d, n)), n - p.accrued, 0, payment)
    BY DEF CoverSome
<1>4. Active(loans[i]) /\ HasPool(loans[i])
    BY <1>1, <1>2 DEF Active, HasPool
<1> HIDE DEF p
<1>5. p \in Loan /\ p.settled <= height /\ Backed(p) /\ n \in Nat
    BY <1>1, <1>2, LoanAssumption DEF Sound
<1>6. d \in Denoms /\ n - p.accrued \in Nat /\ p.borrowed + p.accrued \in Nat /\ n <= p.borrowed + p.accrued
    BY <1>2, <1>5 DEF Loan
<1>7. /\ r \in Loan
      /\ r.settled = p.settled /\ r.held = p.held /\ r.coll = p.coll /\ r.rem \in {0, p.rem}
      /\ r.borrowed > 0 /\ r.owes = p.owes
    BY <1>2, <1>5, <1>6, PaidTypes DEF Backed
<1>8. r.borrowed + r.accrued = p.borrowed + p.accrued - n /\ r.pool = p.pool
    BY <1>5, <1>6, PaidDebt
<1> HIDE DEF r
<1>9. /\ q \in Loan /\ q.settled = r.settled /\ q.borrowed = r.borrowed /\ q.accrued = r.accrued
      /\ q.held = r.held /\ q.coll = r.coll /\ q.rem = r.rem /\ q.owes = r.owes /\ q.pool = r.pool
      /\ q.status = "OPEN"
    BY <1>7 DEF Cleared, Loan, Statuses
<1> HIDE DEF q
<1>10. DecOne > 0
    BY FeeLeaves
<1>11. Sound(q, height)
    BY <1>5, <1>7, <1>9, <1>10 DEF Backed, Sound
<1>12. Out(q, q.borrowed + q.accrued) = p.borrowed + p.accrued - n
    BY <1>8, <1>9 DEF Out, Active
<1>13. p.borrowed + p.accrued <= Out(q, q.borrowed + q.accrued) + n
    <2>1. p.borrowed \in Nat /\ p.accrued \in Nat
        BY <1>5 DEF Loan
    <2> QED
        BY <1>5, <1>12, <2>1
<1>14. d = q.owes /\ q.owes = loans[i].owes /\ q.pool = loans[i].pool /\ q.settled = height
    BY <1>1, <1>7, <1>8, <1>9
<1>15. c \in PosCoins
    BY <1>2 DEF LoansInv, Pool, PosCoins
<1>16. Product(c) >= Product(pool.coins)
    BY <1>15, ProductNat
<1> HIDE DEF c, d
<1> DEFINE coins == Plus(c, One(d, n))
<1>17. coins \in PosCoins /\ \A e \in Denoms : coins[e] >= c[e] + One(d, n)[e]
    BY <1>5, <1>6, <1>15, PaidReserves
<1>18. PICK payment : Settle(i, q, p.user, coins, n - p.accrued, 0, payment)
    BY <1>3
<1> HIDE DEF coins
<1> QED
    BY <1>4, <1>5, <1>6, <1>11, <1>13, <1>14, <1>15, <1>16, <1>17, <1>18, SettleWorth DEF p

(* A liquidation pays the pool the debt, and what was held for it besides. *)
LEMMA LiquidationsKeepWorth ==
    ASSUME LoansInv, NEW i \in DOMAIN loans, NEW v \in Users, FinalizeLiquidation(v, i)
    PROVE  WorthKept
<1> DEFINE p == SettleInterest(loans[i])
           d == p.owes
           due == p.borrowed + p.accrued
           q == [p EXCEPT !.status = "LIQUIDATED", !.liqHeight = 0,
                          !.borrowed = 0, !.held = 0, !.accrued = 0, !.rem = 0]
           back == Plus(One(d, due), One(Other(d), p.held))
           c == pool.coins
           coins == Plus(c, back)
<1>1. /\ Sound(p, height) /\ p.owes = loans[i].owes /\ p.settled = height
      /\ p.pool = loans[i].pool /\ p.status = loans[i].status
    BY SettledSound
<1>2. Active(p) /\ HasPool(p) /\ pool # NoPool
    BY DEF FinalizeLiquidation, HasPool, Active
<1>3. \E h, payment : Settle(i, q, v, coins, p.borrowed, h, payment)
    BY DEF FinalizeLiquidation
<1>4. Active(loans[i]) /\ HasPool(loans[i])
    BY <1>1, <1>2 DEF Active, HasPool
<1> HIDE DEF p
<1>5. p \in Loan /\ p.settled <= height
    BY <1>1 DEF Sound
<1>6. d \in Denoms /\ due \in Nat /\ p.borrowed \in Nat /\ p.held \in Nat
    BY <1>5 DEF Loan
<1>7. q \in Loan /\ q.settled = p.settled /\ q.status = "LIQUIDATED" /\ q.owes = d /\ q.pool = p.pool
    BY <1>5 DEF Loan, Statuses
<1> HIDE DEF q
<1>8. Sound(q, height) /\ Out(q, q.borrowed + q.accrued) = 0
    BY <1>5, <1>7 DEF Sound, Active, Out
<1>9. c \in PosCoins
    BY <1>2 DEF LoansInv, Pool, PosCoins
<1>10. p.borrowed + p.accrued <= Out(q, q.borrowed + q.accrued) + due /\ d = q.owes
       /\ q.owes = loans[i].owes /\ q.pool = loans[i].pool /\ q.settled = height
    BY <1>1, <1>6, <1>7, <1>8
<1>11. Product(c) >= Product(pool.coins)
    BY <1>9, ProductNat
<1> HIDE DEF d, due, c
<1>12. back \in Coins /\ \A e \in Denoms : back[e] >= One(d, due)[e] /\ One(d, due)[e] \in Nat
    <2>1. One(d, due) \in Coins /\ One(Other(d), p.held) \in Coins
        BY <1>6, OtherDenom, OneCoins
    <2> QED
        BY <2>1 DEF Plus, Coins
<1> HIDE DEF back
<1>13. coins \in PosCoins /\ \A e \in Denoms : coins[e] >= c[e] + One(d, due)[e]
    <2>1. \A e \in Denoms : coins[e] = c[e] + back[e] /\ c[e] \in Nat /\ back[e] \in Nat
        BY <1>9, <1>12 DEF Plus, PosCoins, Coins
    <2>2. coins \in PosCoins
        BY <1>9, <1>12, PlusPos
    <2> HIDE DEF coins
    <2> QED
        BY <1>12, <2>1, <2>2
<1>14. PICK h, payment : Settle(i, q, v, coins, p.borrowed, h, payment)
    BY <1>3
<1> HIDE DEF coins
<1> QED
    BY <1>4, <1>6, <1>8, <1>9, <1>10, <1>11, <1>13, <1>14, SettleWorth DEF p

-----------------------------------------------------------------------------
(* Steps that leave the pool alone *)

(* Where the pool stays as it is and no less is owed to it, a share is worth no less. *)
LEMMA QuietKeepsWorth ==
    ASSUME LoansInv, pool # NoPool, UNCHANGED <<pool, supply>>,
           \A d \in Denoms : Owed(d)' - Owed(d) \in Nat
    PROVE  WorthKept
<1>1. pool.coins \in PosCoins
    BY DEF LoansInv, Pool, PosCoins
<1>2. Product(pool.coins) >= Product(pool.coins)
    BY <1>1, ProductNat
<1>3. \A d \in Denoms : Gain(d) \in Int /\ Gain(d) >= pool.coins[d]
    BY <1>1 DEF Gain, PosCoins
<1> QED
    BY <1>1, <1>2, <1>3, WorthOfProduct

(* Collateral and the start of a liquidation leave the debt as it is. *)
LEMMA CollateralKeepsWorth ==
    ASSUME LoansInv, pool # NoPool, NEW i \in DOMAIN loans,
           \/ \E m \in Changes : AddCollateral(i, m) \/ RemoveCollateral(i, m)
           \/ InitializeLiquidation(i)
    PROVE  WorthKept
<1> DEFINE p == loans[i]
           Same(q) == /\ Active(q) /\ q.pool = p.pool /\ q.owes = p.owes /\ q.borrowed = p.borrowed
                      /\ q.accrued = p.accrued /\ q.rem = p.rem /\ q.settled = p.settled
<1>1. Sound(p, height) /\ p \in Loan
    BY DEF LoansInv, Sound
<1>2. \E q : Active(p) /\ Same(q) /\ loans' = [loans EXCEPT ![i] = q]
    <2>1. ASSUME NEW m \in Changes, AddCollateral(i, m)
          PROVE  \E q : Active(p) /\ Same(q) /\ loans' = [loans EXCEPT ![i] = q]
        <3> DEFINE q == Cleared([p EXCEPT !.coll = @ + m])
        <3>1. Active(p) /\ loans' = [loans EXCEPT ![i] = q]
            BY <2>1 DEF AddCollateral
        <3>2. Same(q)
            BY <1>1 DEF Cleared, Loan, Active
        <3> QED
            BY <3>1, <3>2
    <2>2. ASSUME NEW m \in Changes, RemoveCollateral(i, m)
          PROVE  \E q : Active(p) /\ Same(q) /\ loans' = [loans EXCEPT ![i] = q]
        <3> DEFINE q == [p EXCEPT !.coll = @ - m]
        <3>1. Active(p) /\ loans' = [loans EXCEPT ![i] = q]
            BY <2>2 DEF RemoveCollateral, Active
        <3>2. Same(q)
            BY <1>1, <3>1 DEF Loan, Active
        <3> QED
            BY <3>1, <3>2
    <2>3. ASSUME InitializeLiquidation(i)
          PROVE  \E q : Active(p) /\ Same(q) /\ loans' = [loans EXCEPT ![i] = q]
        <3> DEFINE q == [p EXCEPT !.status = "LIQUIDATING", !.liqHeight = height]
        <3>1. Active(p) /\ loans' = [loans EXCEPT ![i] = q]
            BY <1>1, <2>3 DEF InitializeLiquidation, Active, LoansInv, Loan
        <3>2. Same(q)
            BY <1>1 DEF Loan, Active
        <3> QED
            BY <3>1, <3>2
    <2> QED
        BY <2>1, <2>2, <2>3
<1>3. PICK q : Active(p) /\ Same(q) /\ loans' = [loans EXCEPT ![i] = q]
    BY <1>2
<1>4. LoansInv' /\ UNCHANGED <<pool, supply, height>>
    BY CollateralKeeps DEF AddCollateral, RemoveCollateral, InitializeLiquidation, poolVars
<1>5. Sound(q, height)
    <2>1. i \in DOMAIN loans' /\ loans'[i] = q
        BY <1>3 DEF LoansInv
    <2>2. Sound(loans'[i], height')
        BY <1>4, <2>1 DEF LoansInv
    <2> QED
        BY <1>4, <2>1, <2>2
<1>6. ASSUME NEW d \in Denoms PROVE Owed(d)' - Owed(d) \in Nat
    <2>1. /\ Owed(d)' - Owed(d) = Owes(q, d) - Owes(p, d)
          /\ Owes(q, d) \in Nat /\ Owes(p, d) \in Nat
        BY <1>3, <1>4, <1>5, OwedWithLoan
    <2>2. Owes(q, d) = Owes(p, d)
        BY <1>3 DEF Owes, HasPool, Interest
    <2> QED
        BY <2>1, <2>2
<1> QED
    BY <1>4, <1>6, QuietKeepsWorth

(* More interest is owed later. *)
LEMMA OwesLater ==
    ASSUME LoansInv, NEW i \in DOMAIN loans, NEW d \in Denoms, Block
    PROVE  /\ Owes(loans[i], d) \in Nat /\ Owes(loans[i], d)' \in Nat
           /\ Owes(loans[i], d) <= Owes(loans[i], d)'
<1> DEFINE p == loans[i]
           base == DecOne * p.accrued + p.rem
           k == p.borrowed * Rate
           a == height - p.settled
           b == height' - p.settled
<1>1. p \in Loan /\ p.settled <= height /\ height \in Nat /\ height' \in Nat /\ height <= height'
      /\ UNCHANGED <<pool, loans>>
    <2>1. p \in Loan /\ p.settled <= height /\ height \in Nat
        BY DEF LoansInv, Sound
    <2>2. height' = Lower(height + 1, MaxHeight) /\ UNCHANGED <<pool, loans>>
        BY DEF Block, poolVars
    <2>3. height <= MaxHeight /\ MaxHeight \in Nat
        BY LoanAssumption DEF LoansInv
    <2> HIDE DEF p
    <2> QED
        BY <2>1, <2>2, <2>3 DEF Lower
<1>2. p.accrued \in Nat /\ p.rem \in Nat /\ p.borrowed \in Nat /\ p.settled \in Nat
    BY <1>1 DEF Loan
<1>3. a \in Nat /\ b \in Nat /\ a <= b
    BY <1>1, <1>2
<1>4. base \in Nat /\ k \in Nat
    BY <1>2, MulNat, FeeLeaves, LoanAssumption
<1>5. Interest(p) = base + k * a /\ Interest(p)' = base + k * b
    BY <1>1 DEF Interest
<1> HIDE DEF base, k, a, b
<1>6. a * k <= b * k /\ a * k \in Nat /\ b * k \in Nat /\ a * k = k * a /\ b * k = k * b
    BY <1>3, <1>4, MulBelow, MulNat
<1>7. Interest(p) \in Nat /\ Interest(p)' \in Nat /\ Interest(p) <= Interest(p)'
    BY <1>4, <1>5, <1>6
<1> DEFINE m == Interest(p)
           n == Interest(p)'
<1>8. m \in Nat /\ n \in Nat /\ m <= n
    BY <1>7
<1>9. /\ Owes(p, d) = IF Active(p) /\ HasPool(p) /\ p.owes = d THEN p.borrowed + m \div DecOne ELSE 0
      /\ Owes(p, d)' = IF Active(p) /\ HasPool(p) /\ p.owes = d THEN p.borrowed + n \div DecOne ELSE 0
    BY <1>1 DEF Owes, HasPool, Active
<1> HIDE DEF m, n
<1>10. m \div DecOne <= n \div DecOne /\ m \div DecOne \in Nat /\ n \div DecOne \in Nat
    BY <1>8, DivBelow, DivNat, FeeLeaves
<1> QED
    BY <1>2, <1>9, <1>10

(* A block leaves the reserves, and the debts grow. *)
LEMMA BlockKeepsWorth == ASSUME LoansInv, pool # NoPool, Block PROVE WorthKept
<1>1. UNCHANGED <<pool, supply, loans>>
    BY DEF Block, poolVars
<1>2. ASSUME NEW d \in Denoms PROVE Owed(d)' - Owed(d) \in Nat
    <2> DEFINE S == DOMAIN loans
               f == [j \in S |-> Owes(loans[j], d)]
               g == [j \in S |-> Owes(loans[j], d)']
    <2>1. \A j \in S : f[j] \in Nat /\ g[j] \in Nat /\ f[j] <= g[j]
        BY OwesLater
    <2>2. IsFiniteSet(S) /\ Owed(d) = SumFunctionOnSet(f, S) /\ Owed(d)' = SumFunctionOnSet(g, S)
        BY <1>1, LoansFinite DEF Owed, SumFunction
    <2> HIDE DEF f, g, S
    <2>3. SumFunctionOnSet(g, S) - SumFunctionOnSet(f, S) \in Nat
        BY <2>1, <2>2, SumGrows
    <2> QED
        BY <2>2, <2>3
<1> QED
    BY <1>1, <1>2, QuietKeepsWorth

(* What a share stands for, the debts to the pool counted in, falls under no step but the opening *)
(* of a loan and an unbalanced addition.                                                          *)
THEOREM WorthIsKept == Spec => SharesKeepWorth
<1> DEFINE Stands ==
               LET gain(d) == pool'.coins[d] + Owed(d)' - Owed(d)
               IN \/ pool = NoPool \/ pool' = NoPool
                  \/ Len(loans') > Len(loans)
                  \/ \E u \in Users, a \in Additions : AddUnbalanced(u, a)
                  \/ gain(X) * gain(Y) * supply * supply >= pool.coins[X] * pool.coins[Y] * supply' * supply'
<1>1. ASSUME LoansInv, [Next]_vars PROVE Stands
    <2> SUFFICES ASSUME pool # NoPool, pool' # NoPool, ~(Len(loans') > Len(loans)),
                        ~\E u \in Users, a \in Additions : AddUnbalanced(u, a)
                 PROVE  WorthKept
        BY DEF WorthKept, Gain
    <2>1. ASSUME NEW u \in Users, PoolMessage(u), UNCHANGED <<loans, height>> PROVE WorthKept
        BY <1>1, <2>1, MessagesKeepWorth
    <2>2. ASSUME NEW u \in Users PROVE ~TraderMessage(u)
        <3> SUFFICES ASSUME TraderMessage(u) PROVE FALSE
            OBVIOUS
        <3>1. \E new : loans' = Append(loans, new)
            BY DEF TraderMessage, OpenPosition
        <3>2. loans \in Seq(Loan)
            BY <1>1 DEF LoansInv
        <3>3. Len(loans') = Len(loans) + 1 /\ Len(loans) \in Nat
            BY <3>1, <3>2
        <3> QED
            BY <3>3
    <2>3. ASSUME NEW i \in DOMAIN loans, OwnerMessage(i) PROVE WorthKept
        BY <1>1, <2>3, ClosesKeepWorth, CoversKeepWorth, PaymentsKeepWorth, CollateralKeepsWorth
        DEF OwnerMessage
    <2>4. ASSUME NEW u \in Users, NEW i \in DOMAIN loans, LiquidatorMessage(u, i) PROVE WorthKept
        BY <1>1, <2>4, LiquidationsKeepWorth, CollateralKeepsWorth DEF LiquidatorMessage
    <2>5. CASE Block
        BY <1>1, <2>5, BlockKeepsWorth
    <2>6. CASE UNCHANGED vars
        <3>1. UNCHANGED <<pool, supply>> /\ \A d \in Denoms : Owed(d)' = Owed(d)
            BY <2>6 DEF vars, poolVars, Owed, Owes, HasPool, Interest
        <3>2. \A d \in Denoms : Owed(d)' - Owed(d) \in Nat
            BY <1>1, <3>1, OwedNat
        <3> QED
            BY <1>1, <3>1, <3>2, QuietKeepsWorth
    <2> QED
        BY <1>1, <2>1, <2>2, <2>3, <2>4, <2>5, <2>6 DEF Next
<1>2. LoansInv /\ [Next]_vars => [Stands]_vars
    BY <1>1
<1> HIDE DEF Stands
<1>3. Spec => [][Stands]_vars
    BY <1>2, LoansAlways, PTL DEF Spec
<1> QED
    BY <1>3 DEF SharesKeepWorth, Stands

=============================================================================
