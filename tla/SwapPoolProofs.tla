--------------------------- MODULE SwapPoolProofs ---------------------------
(***************************************************************************)
(* Proofs about SwapPool for any accounts, reserves, fee and amounts: what *)
(* swaps and shares are worth, and what every message to the pool does to  *)
(* the pool and to the balances.  SwapLoansProofs and SwapOffersProofs     *)
(* build on them.                                                          *)
(***************************************************************************)
EXTENDS SwapPool, TLAPS

PosCoins == [Denoms -> Nat \ {0}]
Ints     == [Denoms -> Int]

(* The pool has reserves of both coins while it is there, and shares. *)
PoolInv == /\ pool \in Pool \cup {NoPool}
           /\ supply \in Nat
           /\ pool # NoPool => supply > 0
           /\ shares \in [Users -> Nat]
           /\ poolSeq \in Nat

-----------------------------------------------------------------------------
(* Amounts *)

(* Quotients of naturals are naturals. *)
LEMMA DivNat == ASSUME NEW a \in Nat, NEW b \in Nat \ {0} PROVE a \div b \in Nat
    OBVIOUS

(* A rest is a natural number below the divisor. *)
LEMMA RestBelow == ASSUME NEW n \in Nat, NEW b \in Nat \ {0} PROVE n % b \in Nat /\ n % b < b
    OBVIOUS

(* Products of positive numbers are positive. *)
LEMMA MulPos == ASSUME NEW a \in Nat \ {0}, NEW b \in Nat \ {0} PROVE a * b \in Nat \ {0}
    OBVIOUS

(* Products of naturals are naturals. *)
LEMMA MulNat == ASSUME NEW a \in Nat, NEW b \in Nat PROVE a * b \in Nat
    OBVIOUS

(* A quotient rounded up is a natural number, and a positive one of a positive number. *)
LEMMA CeilTypes ==
    ASSUME NEW a \in Nat, NEW b \in Nat \ {0}
    PROVE  /\ CeilDiv(a, b) \in Nat
           /\ a > 0 => CeilDiv(a, b) > 0
<1> DEFINE n == a + b - 1
           q == n \div b
           r == n % b
<1>1. n \in Nat
    OBVIOUS
<1>2. q \in Nat
    BY <1>1, DivNat
<1>3. r \in Nat /\ r < b
    BY <1>1, RestBelow
<1>4. n = b * q + r
    BY <1>1
<1>5. a > 0 => q > 0
    <2> SUFFICES ASSUME a > 0, q = 0 PROVE FALSE
        BY <1>2
    <2>1. n >= b
        OBVIOUS
    <2>2. b * q = 0
        OBVIOUS
    <2> HIDE DEF n, q, r
    <2> QED
        BY <1>1, <1>3, <1>4, <2>1, <2>2
<1> QED
    BY <1>2, <1>5 DEF CeilDiv

(* The other denom is a denom, and another one. *)
LEMMA OtherDenom == ASSUME NEW d \in Denoms
                    PROVE  Other(d) \in Denoms /\ Other(d) # d /\ Other(Other(d)) = d
    BY PoolAssumption DEF Other, Denoms

(* The share of what is swapped in that is left after the fee is positive. *)
LEMMA FeeLeaves == DecOne \in Nat \ {0} /\ DecOne - FeeRate \in Nat \ {0}
    BY PoolAssumption

(* A swap pays less than the whole reserve, however much goes in. *)
LEMMA SwapInBelow ==
    ASSUME NEW c \in PosCoins, NEW d \in Denoms, NEW n \in Nat
    PROVE  ExactIn(c, d, n) \in Int /\ ExactIn(c, d, n) < c[Other(d)]
<1> DEFINE num == c[d] * c[Other(d)] * DecOne
           den == c[d] * DecOne + n * (DecOne - FeeRate)
<1>1. c[d] \in Nat \ {0} /\ c[Other(d)] \in Nat \ {0}
    BY OtherDenom DEF PosCoins
<1>2. c[d] * c[Other(d)] \in Nat \ {0}
    BY <1>1, MulPos
<1>3. num \in Nat \ {0}
    BY <1>2, MulPos, FeeLeaves
<1>4. c[d] * DecOne \in Nat \ {0} /\ n * (DecOne - FeeRate) \in Nat
    BY <1>1, MulPos, MulNat, FeeLeaves
<1>5. den \in Nat \ {0}
    BY <1>4
<1> HIDE DEF num, den
<1>6. CeilDiv(num, den) \in Nat /\ CeilDiv(num, den) > 0
    BY <1>3, <1>5, CeilTypes
<1>7. ExactIn(c, d, n) = c[Other(d)] - CeilDiv(num, den)
    BY DEF ExactIn, num, den
<1> QED
    BY <1>1, <1>6, <1>7

(* What a swap takes for less than the reserve is a natural number. *)
LEMMA SwapOutNat ==
    ASSUME NEW c \in PosCoins, NEW d \in Denoms, NEW n \in Nat, n < c[Other(d)]
    PROVE  ExactOut(c, d, n) \in Nat
<1> DEFINE num == c[d] * n * DecOne
           den == (c[Other(d)] - n) * (DecOne - FeeRate)
<1>1. c[d] \in Nat /\ c[Other(d)] - n \in Nat \ {0}
    BY OtherDenom DEF PosCoins
<1>2. c[d] * n \in Nat
    BY <1>1, MulNat
<1>3. num \in Nat
    BY <1>2, MulNat, FeeLeaves
<1>4. den \in Nat \ {0}
    BY <1>1, MulPos, FeeLeaves
<1> HIDE DEF num, den
<1>5. CeilDiv(num, den) \in Nat
    BY <1>3, <1>4, CeilTypes
<1> QED
    BY <1>5 DEF ExactOut, num, den

(* Reserves stay positive when less than one of them goes out. *)
LEMMA SwappedPos ==
    ASSUME NEW c \in PosCoins, NEW d \in Denoms, NEW in \in Nat, NEW out \in Int,
           out < c[Other(d)]
    PROVE  Swapped(c, d, in, out) \in PosCoins
<1>1. c[d] + in \in Nat \ {0} /\ c[Other(d)] - out \in Nat \ {0}
    BY OtherDenom DEF PosCoins
<1> QED
    BY <1>1, OtherDenom DEF Swapped, PosCoins

(* So do they when coins are added. *)
LEMMA PlusPos == ASSUME NEW c \in PosCoins, NEW e \in Coins PROVE Plus(c, e) \in PosCoins
    BY DEF Plus, PosCoins, Coins

(* Amounts of one denom are coins. *)
LEMMA OneCoins == ASSUME NEW d \in Denoms, NEW n \in Nat PROVE One(d, n) \in Coins
    BY DEF One, Coins

(* The shares for an addition are a natural number: the least of one or two of them. *)
LEMMA MintedNat ==
    ASSUME PoolInv, pool # NoPool, NEW a \in Additions
    PROVE  Minted(a) \in Nat
<1> DEFINE w(d) == (a[d] * supply) \div pool.coins[d]
           worth == {w(d) : d \in {e \in Denoms : a[e] > 0}}
<1>1. a \in Coins /\ a # [d \in Denoms |-> 0]
    BY PoolAssumption
<1>2. \A d \in Denoms : a[d] \in Nat /\ pool.coins[d] \in Nat \ {0} /\ supply \in Nat
    BY <1>1 DEF PoolInv, Pool, Coins
<1>3. \A d \in Denoms : w(d) \in Nat
    <2> SUFFICES ASSUME NEW d \in Denoms PROVE w(d) \in Nat
        OBVIOUS
    <2>1. a[d] * supply \in Nat
        BY <1>2, MulNat
    <2> QED
        BY <1>2, <2>1, DivNat
<1>4. \E d \in Denoms : a[d] > 0
    <2> SUFFICES ASSUME \A d \in Denoms : ~(a[d] > 0) PROVE FALSE
        OBVIOUS
    <2>1. \A d \in Denoms : a[d] = 0
        BY <1>2
    <2>2. a = [d \in Denoms |-> 0]
        BY <1>1, <2>1 DEF Coins
    <2> QED
        BY <1>1, <2>2
<1> HIDE DEF w
<1>5. \E n \in worth : \A m \in worth : n <= m
    <2>1. PICK d \in Denoms : a[d] > 0
        BY <1>4
    <2> DEFINE o == Other(d)
    <2>2. o \in Denoms /\ \A e \in Denoms : e = d \/ e = o
        BY OtherDenom DEF Denoms
    <2> HIDE DEF o
    <2>3. w(d) \in worth /\ \A m \in worth : m = w(d) \/ (a[o] > 0 /\ m = w(o))
        BY <2>1, <2>2
    <2>4. a[o] > 0 => w(o) \in worth
        BY <2>2
    <2>5. w(d) \in Nat /\ w(o) \in Nat
        BY <1>3, <2>2
    <2> HIDE DEF worth
    <2>6. CASE a[o] > 0 /\ w(o) <= w(d)
        BY <2>3, <2>4, <2>5, <2>6
    <2>7. CASE ~(a[o] > 0 /\ w(o) <= w(d))
        BY <2>3, <2>5, <2>7
    <2> QED
        BY <2>6, <2>7
<1>6. worth \subseteq Nat
    BY <1>3
<1>7. Minted(a) = CHOOSE n \in worth : \A m \in worth : n <= m
    BY DEF Minted, w
<1> HIDE DEF worth
<1> QED
    BY <1>5, <1>6, <1>7

(* What a withdrawal pays is an integer. *)
LEMMA PartInt == ASSUME PoolInv, supply > 0, NEW x \in Nat, NEW n \in Nat PROVE Part(x, n) \in Int
<1>1. x * n \in Nat /\ supply \in Nat \ {0}
    BY MulNat DEF PoolInv
<1>2. (x * n) \div supply \in Nat
    BY <1>1, DivNat
<1> QED
    BY <1>2 DEF Part

-----------------------------------------------------------------------------
(* Messages to the pool *)

(* A pool with other reserves and used once more is a pool. *)
LEMMA PoolWith ==
    ASSUME NEW q \in Pool, NEW c \in PosCoins, NEW n \in Nat
    PROVE  [q EXCEPT !.coins = c, !.uses = n] \in Pool
    BY DEF Pool, PosCoins

(* A trade of one swap keeps the types of the pool and its amounts positive. *)
LEMMA TradeKeeps ==
    ASSUME PoolInv, pool # NoPool, NEW u \in Users, NEW d \in Denoms, NEW in \in Nat,
           NEW out \in Int, out < pool.coins[Other(d)], Trade(u, d, in, out)
    PROVE  PoolInv'
<1>1. pool \in Pool
    BY DEF PoolInv
<1>2. pool.coins \in PosCoins
    BY <1>1 DEF Pool, PosCoins
<1>3. Swapped(pool.coins, d, in, out) \in PosCoins
    BY <1>2, SwappedPos
<1>4. /\ pool' = [pool EXCEPT !.coins = Swapped(pool.coins, d, in, out), !.uses = pool.uses + 1]
      /\ pool.uses + 1 \in Nat
    BY <1>1 DEF Trade, Pool
<1>5. pool' \in Pool
    BY <1>1, <1>3, <1>4, PoolWith
<1> QED
    BY <1>5 DEF PoolInv, Trade

(* Every message to the pool keeps the pool in order. *)
LEMMA MessageKeepsPool ==
    ASSUME PoolInv, NEW u \in Users, PoolMessage(u)
    PROVE  PoolInv'
<1>1. ASSUME NEW c \in Reserves, CreatePool(u, c) PROVE PoolInv'
    <2>1. c \in PosCoins
        BY PoolAssumption DEF PosCoins
    <2>2. poolSeq' \in Nat
        BY <1>1 DEF CreatePool, PoolInv
    <2>3. pool' \in Pool
        BY <1>1, <2>1, <2>2 DEF CreatePool, Pool, PosCoins, Coins
    <2>4. supply' \in Nat \ {0}
        <3>1. c[X] * c[Y] \in Nat
            BY <2>1, MulNat DEF PosCoins, Denoms
        <3> QED
            BY <1>1, <3>1 DEF CreatePool
    <2>5. shares' \in [Users -> Nat]
        BY <1>1, <2>4 DEF CreatePool
    <2> QED
        BY <2>2, <2>3, <2>4, <2>5 DEF PoolInv
<1>2. ASSUME NEW a \in Additions, AddProportionally(u, a) PROVE PoolInv'
    <2> DEFINE minted == Minted(a)
               needed == [d \in Denoms |-> CeilDiv(minted * pool.coins[d], supply)]
    <2>1. pool # NoPool /\ pool \in Pool /\ supply \in Nat \ {0}
        BY <1>2 DEF AddProportionally, Usable, PoolInv
    <2>2. minted \in Nat
        BY <2>1, MintedNat
    <2> HIDE DEF minted
    <2>3. needed \in Coins
        <3> SUFFICES ASSUME NEW d \in Denoms PROVE CeilDiv(minted * pool.coins[d], supply) \in Nat
            BY DEF Coins
        <3>1. minted * pool.coins[d] \in Nat
            BY <2>1, <2>2, MulNat DEF Pool
        <3> QED
            BY <2>1, <3>1, CeilTypes
    <2>4. /\ pool' = [pool EXCEPT !.coins = Plus(@, needed), !.uses = @ + 1]
          /\ shares' = [shares EXCEPT ![u] = @ + minted]
          /\ supply' = supply + minted
          /\ UNCHANGED poolSeq
        BY <1>2 DEF AddProportionally, minted
    <2> HIDE DEF needed
    <2>5. pool' \in Pool
        <3>1. Plus(pool.coins, needed) \in PosCoins /\ pool.uses + 1 \in Nat
            BY <2>1, <2>3, PlusPos DEF Pool, PosCoins
        <3>2. pool' = [pool EXCEPT !.coins = Plus(pool.coins, needed), !.uses = pool.uses + 1]
            BY <2>1, <2>4 DEF Pool
        <3> QED
            BY <2>1, <3>1, <3>2, PoolWith
    <2> QED
        BY <2>1, <2>2, <2>4, <2>5 DEF PoolInv
<1>3. ASSUME NEW a \in Additions, AddUnbalanced(u, a) PROVE PoolInv'
    <2>1. pool # NoPool /\ pool \in Pool /\ supply \in Nat \ {0}
        BY <1>3 DEF AddUnbalanced, Usable, PoolInv
    <2>2. Minted(a) \in Nat
        BY <2>1, MintedNat
    <2>3. a \in Coins
        BY PoolAssumption
    <2>4. pool' \in Pool
        <3>1. Plus(pool.coins, a) \in PosCoins /\ pool.uses + 1 \in Nat
            BY <2>1, <2>3, PlusPos DEF Pool, PosCoins
        <3>2. pool' = [pool EXCEPT !.coins = Plus(pool.coins, a), !.uses = pool.uses + 1]
            BY <1>3, <2>1 DEF AddUnbalanced, Pool
        <3> QED
            BY <2>1, <3>1, <3>2, PoolWith
    <2> QED
        BY <1>3, <2>1, <2>2, <2>4 DEF PoolInv, AddUnbalanced
<1>4. ASSUME RemoveAll(u) PROVE PoolInv'
    BY <1>4 DEF PoolInv, RemoveAll
<1>5. ASSUME NEW n \in ShareAmounts, RemoveSome(u, n) PROVE PoolInv'
    <2> DEFINE out == [d \in Denoms |-> Part(pool.coins[d], n)]
    <2>1. pool # NoPool /\ pool \in Pool /\ supply \in Nat \ {0} /\ n \in Nat
        BY <1>5, PoolAssumption DEF RemoveSome, Usable, PoolInv
    <2>2. \A d \in Denoms : out[d] \in Int
        BY <2>1, PartInt DEF Pool
    <2>3. /\ \A d \in Denoms : out[d] < pool.coins[d]
          /\ pool' = [pool EXCEPT !.coins = Minus(@, out), !.uses = @ + 1]
          /\ shares' = [shares EXCEPT ![u] = @ - n]
          /\ supply' = supply - n /\ n < supply /\ n <= shares[u]
          /\ UNCHANGED poolSeq
        BY <1>5 DEF RemoveSome
    <2> HIDE DEF out
    <2>4. Minus(pool.coins, out) \in PosCoins
        BY <2>1, <2>2, <2>3 DEF Minus, PosCoins, Pool
    <2>5. pool' \in Pool
        <3>1. pool' = [pool EXCEPT !.coins = Minus(pool.coins, out), !.uses = pool.uses + 1]
            BY <2>1, <2>3 DEF Pool
        <3>2. pool.uses + 1 \in Nat
            BY <2>1 DEF Pool
        <3> QED
            BY <2>1, <2>4, <3>1, <3>2, PoolWith
    <2> QED
        BY <2>1, <2>3, <2>5 DEF PoolInv
<1>6. ASSUME NEW n \in ShareAmounts, NEW v \in Users, SendShares(u, v, n) PROVE PoolInv'
    <2>1. pool # NoPool /\ pool \in Pool /\ n \in Nat
        BY <1>6, PoolAssumption DEF SendShares, Usable, PoolInv
    <2>2. pool' \in Pool
        BY <1>6, <2>1 DEF SendShares, Pool
    <2>3. shares' \in [Users -> Nat]
        BY <1>6, <2>1 DEF SendShares, PoolInv
    <2> QED
        BY <1>6, <2>1, <2>2, <2>3 DEF SendShares, PoolInv
<1>7. ASSUME NEW d \in Denoms, NEW n \in SwapAmounts, SwapIn(u, d, n) PROVE PoolInv'
    <2>1. pool # NoPool /\ pool \in Pool /\ n \in Nat
        BY <1>7, PoolAssumption DEF SwapIn, Usable, PoolInv
    <2>2. ExactIn(pool.coins, d, n) \in Int /\ ExactIn(pool.coins, d, n) < pool.coins[Other(d)]
        BY <2>1, SwapInBelow DEF Pool, PosCoins
    <2> QED
        BY <1>7, <2>1, <2>2, TradeKeeps DEF SwapIn
<1>8. ASSUME NEW d \in Denoms, NEW n \in SwapAmounts, SwapOut(u, d, n) PROVE PoolInv'
    <2>1. pool # NoPool /\ pool \in Pool /\ n \in Nat /\ n < pool.coins[Other(d)]
        BY <1>8, PoolAssumption DEF SwapOut, Usable, PoolInv
    <2>2. ExactOut(pool.coins, d, n) \in Nat
        BY <2>1, SwapOutNat DEF Pool, PosCoins
    <2> QED
        BY <1>8, <2>1, <2>2, TradeKeeps DEF SwapOut
<1> QED
    BY <1>1, <1>2, <1>3, <1>4, <1>5, <1>6, <1>7, <1>8 DEF PoolMessage

-----------------------------------------------------------------------------
(* Payments *)

(* The account of the module gains and loses what the reserves do, the coins come from u or go   *)
(* to u, who has them; no other account is touched.                                              *)
PaysPool(u) ==
    /\ bank' \in [Accounts -> Ints]
    /\ \A a \in Accounts \ {u, Module} : bank'[a] = bank[a]
    /\ \A d \in Denoms : /\ bank'[u][d] >= 0
                          /\ bank'[Module][d] - bank[Module][d] = Reserve(d)' - Reserve(d)

(* Two balances change. *)
LEMMA TwoBalances ==
    ASSUME bank \in [Accounts -> Coins], NEW u \in Users, NEW P \in Ints, NEW Q \in Ints,
           bank' = [bank EXCEPT ![u] = P, ![Module] = Q],
           \A d \in Denoms : P[d] >= 0 /\ Q[d] - bank[Module][d] = Reserve(d)' - Reserve(d)
    PROVE  PaysPool(u)
<1>1. u # Module /\ u \in Accounts /\ Module \in Accounts /\ Coins \subseteq Ints
    BY PoolAssumption DEF Accounts, Coins, Ints
<1>2. bank'[u] = P /\ bank'[Module] = Q
    BY <1>1
<1>3. bank' \in [Accounts -> Ints]
    BY <1>1
<1> QED
    BY <1>1, <1>2, <1>3 DEF PaysPool

(* What u pays for c, when u has it and the reserves gain it. *)
LEMMA PaysIn ==
    ASSUME bank \in [Accounts -> Coins], NEW u \in Users, NEW c \in Coins,
           bank' = Move(u, Module, c),
           \A d \in Denoms : bank[u][d] >= c[d] /\ Reserve(d)' - Reserve(d) = c[d]
    PROVE  PaysPool(u)
<1> DEFINE P == Minus(bank[u], c)
           Q == Plus(bank[Module], c)
<1>1. u # Module /\ bank[u] \in Coins /\ bank[Module] \in Coins
    BY PoolAssumption DEF Accounts
<1>2. bank' = [bank EXCEPT ![u] = P, ![Module] = Q]
    BY <1>1 DEF Move
<1>3. P \in Ints /\ Q \in Ints
    BY <1>1 DEF Plus, Minus, Coins, Ints
<1>4. \A d \in Denoms : P[d] = bank[u][d] - c[d] /\ Q[d] = bank[Module][d] + c[d]
    BY DEF Plus, Minus
<1>5. \A d \in Denoms : bank[u][d] \in Nat /\ bank[Module][d] \in Nat /\ c[d] \in Nat
    BY <1>1 DEF Coins
<1> HIDE DEF P, Q
<1>6. \A d \in Denoms : P[d] >= 0 /\ Q[d] - bank[Module][d] = Reserve(d)' - Reserve(d)
    BY <1>4, <1>5
<1> QED
    BY <1>2, <1>3, <1>6, TwoBalances

(* What u gets, when the reserves lose it. *)
LEMMA PaysOut ==
    ASSUME bank \in [Accounts -> Coins], NEW u \in Users, NEW c \in Coins,
           bank' = Move(Module, u, c),
           \A d \in Denoms : Reserve(d)' - Reserve(d) = -c[d]
    PROVE  PaysPool(u)
<1> DEFINE P == Plus(bank[u], c)
           Q == Minus(bank[Module], c)
<1>1. u # Module /\ bank[u] \in Coins /\ bank[Module] \in Coins
    BY PoolAssumption DEF Accounts
<1>2. bank' = [bank EXCEPT ![u] = P, ![Module] = Q]
    BY <1>1 DEF Move
<1>3. P \in Ints /\ Q \in Ints
    BY <1>1 DEF Plus, Minus, Coins, Ints
<1>4. \A d \in Denoms : P[d] = bank[u][d] + c[d] /\ Q[d] = bank[Module][d] - c[d]
    BY DEF Plus, Minus
<1>5. \A d \in Denoms : bank[u][d] \in Nat /\ bank[Module][d] \in Nat /\ c[d] \in Nat
    BY <1>1 DEF Coins
<1> HIDE DEF P, Q
<1>6. \A d \in Denoms : P[d] >= 0 /\ Q[d] - bank[Module][d] = Reserve(d)' - Reserve(d)
    BY <1>4, <1>5
<1> QED
    BY <1>2, <1>3, <1>6, TwoBalances

(* A trade of one swap pays for itself. *)
LEMMA TradePays ==
    ASSUME PoolInv, bank \in [Accounts -> Coins], pool # NoPool, NEW u \in Users, NEW d \in Denoms,
           NEW in \in Nat, NEW out \in Nat, Trade(u, d, in, out), pool' # NoPool
    PROVE  PaysPool(u)
<1> DEFINE o == Other(d)
           c == One(d, in)
           e == One(o, out)
           P == Plus(Minus(bank[u], c), e)
           Q == Plus(Minus(bank[Module], e), c)
<1>1. u # Module /\ bank[u] \in Coins /\ bank[Module] \in Coins
    BY PoolAssumption DEF Accounts
<1>2. o \in Denoms /\ o # d /\ \A x \in Denoms : x = d \/ x = o
    BY OtherDenom DEF Denoms
<1>3. bank' = [bank EXCEPT ![u] = P, ![Module] = Q]
    BY <1>1 DEF Trade, Exchange
<1>4. \A x \in Denoms : /\ P[x] = bank[u][x] - c[x] + e[x] /\ Q[x] = bank[Module][x] - e[x] + c[x]
                        /\ c[x] = (IF x = d THEN in ELSE 0) /\ e[x] = (IF x = o THEN out ELSE 0)
    BY DEF Plus, Minus, One
<1>5. \A x \in Denoms : bank[u][x] \in Nat /\ bank[Module][x] \in Nat
    BY <1>1 DEF Coins
<1>6. P \in Ints /\ Q \in Ints
    <2>1. c \in Coins /\ e \in Coins
        BY <1>2, OneCoins
    <2> HIDE DEF c, e
    <2> QED
        BY <1>1, <2>1 DEF Plus, Minus, Coins, Ints
<1> HIDE DEF P, Q, c, e
<1>7. bank[u][d] >= in
    BY DEF Trade
<1>8. \A x \in Denoms : Reserve(x)' - Reserve(x) = c[x] - e[x]
    <2>1. pool \in Pool /\ pool.coins \in PosCoins
        BY DEF PoolInv, Pool, PosCoins
    <2>2. pool'.coins = Swapped(pool.coins, d, in, out)
        BY <2>1 DEF Trade, Pool
    <2>3. /\ pool'.coins[d] = pool.coins[d] + in /\ pool'.coins[o] = pool.coins[o] - out
          /\ pool.coins[d] \in Nat /\ pool.coins[o] \in Nat
        BY <1>2, <2>1, <2>2 DEF Swapped, PosCoins
    <2> HIDE DEF o
    <2> QED
        BY <1>2, <1>4, <2>3 DEF Reserve
<1>9. \A x \in Denoms : P[x] >= 0 /\ Q[x] - bank[Module][x] = Reserve(x)' - Reserve(x)
    <2> SUFFICES ASSUME NEW x \in Denoms
                 PROVE  P[x] >= 0 /\ Q[x] - bank[Module][x] = Reserve(x)' - Reserve(x)
        OBVIOUS
    <2> HIDE DEF o
    <2>1. CASE x = d
        BY <1>2, <1>4, <1>5, <1>7, <1>8, <2>1
    <2>2. CASE x = o
        BY <1>2, <1>4, <1>5, <1>8, <2>2
    <2> QED
        BY <1>2, <2>1, <2>2
<1> QED
    BY <1>3, <1>6, <1>9, TwoBalances

(* A share is worth no more than was added for it, rounding included. *)
LEMMA NeededBelow ==
    ASSUME PoolInv, pool # NoPool, NEW a \in Additions, \A d \in Denoms : a[d] > 0, NEW d \in Denoms
    PROVE  CeilDiv(Minted(a) * pool.coins[d], supply) <= a[d]
<1> DEFINE w(x) == (a[x] * supply) \div pool.coins[x]
           worth == {w(x) : x \in {y \in Denoms : a[y] > 0}}
           m == Minted(a)
<1>1. a \in Coins /\ supply \in Nat \ {0} /\ pool.coins \in PosCoins
    BY PoolAssumption DEF PoolInv, Pool, PosCoins
<1>2. a[d] \in Nat \ {0} /\ pool.coins[d] \in Nat \ {0}
    BY <1>1 DEF Coins, PosCoins
<1>3. m \in Nat
    BY MintedNat
<1>4. m <= w(d)
    <2>1. m = CHOOSE n \in worth : \A k \in worth : n <= k
        BY DEF Minted
    <2>2. \A x \in Denoms : w(x) \in worth /\ w(x) \in Nat
        <3> SUFFICES ASSUME NEW x \in Denoms PROVE w(x) \in worth /\ w(x) \in Nat
            OBVIOUS
        <3>1. a[x] * supply \in Nat /\ pool.coins[x] \in Nat \ {0}
            BY <1>1, MulNat DEF Coins, PosCoins
        <3> QED
            BY <3>1, DivNat
    <2>3. \A k \in worth : \E x \in Denoms : k = w(x)
        OBVIOUS
    <2> DEFINE o == Other(d)
    <2>4. o \in Denoms /\ \A x \in Denoms : x = d \/ x = o
        BY OtherDenom DEF Denoms
    <2> HIDE DEF o, w, worth, m
    <2>5. \E n \in worth : \A k \in worth : n <= k
        <3>1. CASE w(o) <= w(d)
            BY <2>2, <2>3, <2>4, <3>1
        <3>2. CASE w(d) <= w(o)
            BY <2>2, <2>3, <2>4, <3>2
        <3> QED
            BY <2>2, <2>4, <3>1, <3>2
    <2> QED
        BY <2>1, <2>2, <2>5
<1> DEFINE c == pool.coins[d]
           A == a[d] * supply
           q == A \div c
<1>5. A \in Nat /\ q \in Nat /\ c * q <= A
    <2>1. A \in Nat
        BY <1>1, <1>2, MulNat
    <2> HIDE DEF A
    <2> QED
        BY <1>2, <2>1, DivNat
<1>6. m <= q
    BY <1>4
<1> HIDE DEF m, q, w
<1>7. m * c \in Nat /\ m * c <= A
    <2>1. c * q = m * c + (q - m) * c
        BY <1>2, <1>3, <1>5
    <2>2. m * c \in Nat /\ (q - m) * c \in Nat
        BY <1>2, <1>3, <1>5, <1>6, MulNat
    <2> HIDE DEF c, A
    <2> QED
        BY <1>5, <2>1, <2>2
<1> DEFINE x == m * c
<1>8. (x + supply - 1) \div supply <= a[d]
    <2> DEFINE n == x + supply - 1
               k == n \div supply
    <2>0. x \in Nat /\ x <= A
        BY <1>7
    <2> HIDE DEF x
    <2>1. n \in Nat /\ supply * k <= n
        BY <1>1, <2>0
    <2>2. k \in Nat
        BY <1>1, <2>1, DivNat
    <2>3. n < A + supply
        BY <1>1, <1>5, <2>0
    <2> HIDE DEF k, n
    <2> SUFFICES ASSUME k >= a[d] + 1 PROVE FALSE
        BY <1>2, <2>2 DEF k, n
    <2>4. supply * k = A + supply + supply * (k - a[d] - 1)
        BY <1>1, <1>2, <2>2
    <2>5. supply * (k - a[d] - 1) \in Nat
        BY <1>1, <1>2, <2>2, MulNat
    <2> HIDE DEF A
    <2> QED
        BY <1>1, <1>5, <2>1, <2>2, <2>3, <2>4, <2>5
<1> QED
    BY <1>8 DEF CeilDiv, m

(* What a withdrawal pays is not negative: the one that is taken off comes off a quotient that   *)
(* is not zero.                                                                                 *)
LEMMA PartNat ==
    ASSUME PoolInv, supply > 0, NEW x \in Nat \ {0}, NEW n \in Nat \ {0}
    PROVE  Part(x, n) \in Nat
<1> DEFINE y == x * n
           q == y \div supply
<1>1. y \in Nat \ {0} /\ supply \in Nat \ {0}
    BY MulPos DEF PoolInv
<1> HIDE DEF y
<1>2. q \in Nat
    BY <1>1, DivNat
<1>3. y % supply = 0 => q > 0
    <2> SUFFICES ASSUME y % supply = 0, q = 0 PROVE FALSE
        BY <1>2
    <2>1. y = supply * q + (y % supply)
        BY <1>1
    <2>2. supply * q = 0
        BY <1>1
    <2> HIDE DEF q
    <2> QED
        BY <1>1, <2>1, <2>2
<1> HIDE DEF q
<1> QED
    BY <1>2, <1>3 DEF Part, y, q

(* Every message to the pool moves the coins that the reserves gain or lose, and only those. *)
LEMMA MessagePaysPool ==
    ASSUME PoolInv, bank \in [Accounts -> Coins], NEW u \in Users, PoolMessage(u)
    PROVE  PaysPool(u)
<1>0. bank[u] \in Coins
    BY DEF Accounts
<1>1. ASSUME NEW c \in Reserves, CreatePool(u, c) PROVE PaysPool(u)
    <2>1. c \in Coins
        BY PoolAssumption DEF Coins
    <2>2. PoolInv'
        BY <1>1, MessageKeepsPool DEF PoolMessage
    <2>3. pool = NoPool /\ pool'.coins = c /\ Has(u, c) /\ bank' = Move(u, Module, c)
        BY <1>1 DEF CreatePool
    <2>4. pool' # NoPool
        <3>1. poolSeq' \in Nat
            BY <2>2 DEF PoolInv
        <3>2. pool' \in Pool
            BY <1>1, <3>1, PoolAssumption DEF CreatePool, Pool, Coins
        <3> QED
            BY <3>2, NoPoolAssumption
    <2>5. \A d \in Denoms : bank[u][d] >= c[d] /\ Reserve(d)' - Reserve(d) = c[d]
        BY <2>1, <2>3, <2>4 DEF Has, Reserve, Coins
    <2> QED
        BY <2>1, <2>3, <2>5, PaysIn
<1>2. ASSUME pool # NoPool PROVE pool \in Pool /\ pool.coins \in PosCoins /\ supply \in Nat \ {0}
    BY <1>2 DEF PoolInv, Pool, PosCoins
<1>3. ASSUME pool # NoPool, NEW c \in PosCoins, pool' = [pool EXCEPT !.coins = c, !.uses = @ + 1]
      PROVE  pool' # NoPool /\ \A d \in Denoms : Reserve(d)' - Reserve(d) = c[d] - pool.coins[d]
    <2> DEFINE n == pool.uses + 1
               q == [pool EXCEPT !.coins = c, !.uses = n]
    <2>1. pool' = q /\ n \in Nat /\ q.coins = c
        BY <1>2, <1>3 DEF Pool
    <2> HIDE DEF n
    <2>2. q \in Pool
        BY <1>2, <1>3, <2>1, PoolWith
    <2> QED
        BY <1>3, <2>1, <2>2, NoPoolAssumption DEF Reserve
<1>4. ASSUME NEW a \in Additions, AddProportionally(u, a) PROVE PaysPool(u)
    <2> DEFINE needed == [d \in Denoms |-> CeilDiv(Minted(a) * pool.coins[d], supply)]
    <2>1. pool # NoPool /\ Has(u, a) /\ \A d \in Denoms : a[d] > 0
        BY <1>4 DEF AddProportionally, Usable
    <2>2. a \in Coins /\ Minted(a) \in Nat
        BY <2>1, PoolAssumption, MintedNat
    <2>3. \A d \in Denoms : CeilDiv(Minted(a) * pool.coins[d], supply) \in Nat
        <3> SUFFICES ASSUME NEW d \in Denoms PROVE CeilDiv(Minted(a) * pool.coins[d], supply) \in Nat
            OBVIOUS
        <3>1. Minted(a) * pool.coins[d] \in Nat
            BY <1>2, <2>1, <2>2, MulNat DEF PosCoins
        <3> QED
            BY <1>2, <2>1, <3>1, CeilTypes
    <2>4. needed \in Coins
        BY <2>3 DEF Coins
    <2>5. \A d \in Denoms : CeilDiv(Minted(a) * pool.coins[d], supply) <= a[d]
        BY <2>1, NeededBelow
    <2>6. \A d \in Denoms : needed[d] <= a[d]
        BY <2>5
    <2>7. /\ pool' = [pool EXCEPT !.coins = Plus(@, needed), !.uses = @ + 1]
          /\ bank' = Move(u, Module, needed)
        BY <1>4 DEF AddProportionally
    <2> HIDE DEF needed
    <2>8. \A d \in Denoms : bank[u][d] >= needed[d]
        BY <1>0, <2>1, <2>2, <2>4, <2>6 DEF Has, Coins
    <2>9. \A d \in Denoms : Reserve(d)' - Reserve(d) = needed[d]
        <3> DEFINE c == Plus(pool.coins, needed)
        <3>1. c \in PosCoins
            BY <1>2, <2>1, <2>4, PlusPos
        <3>2. \A d \in Denoms : c[d] - pool.coins[d] = needed[d]
            BY <1>2, <2>1, <2>4 DEF Plus, PosCoins, Coins
        <3>3. pool' = [pool EXCEPT !.coins = c, !.uses = @ + 1]
            BY <1>2, <2>1, <2>7 DEF Pool
        <3> HIDE DEF c
        <3>4. \A d \in Denoms : Reserve(d)' - Reserve(d) = c[d] - pool.coins[d]
            BY <1>3, <2>1, <3>1, <3>3
        <3> QED
            BY <3>2, <3>4
    <2> QED
        BY <2>4, <2>7, <2>8, <2>9, PaysIn
<1>5. ASSUME NEW a \in Additions, AddUnbalanced(u, a) PROVE PaysPool(u)
    <2>1. /\ pool # NoPool /\ Has(u, a) /\ bank' = Move(u, Module, a)
          /\ pool' = [pool EXCEPT !.coins = Plus(@, a), !.uses = @ + 1]
        BY <1>5 DEF AddUnbalanced, Usable
    <2>2. a \in Coins
        BY PoolAssumption
    <2>3. \A d \in Denoms : Reserve(d)' - Reserve(d) = a[d]
        <3> DEFINE c == Plus(pool.coins, a)
        <3>1. c \in PosCoins
            BY <1>2, <2>1, <2>2, PlusPos
        <3>2. \A d \in Denoms : c[d] - pool.coins[d] = a[d]
            BY <1>2, <2>1, <2>2 DEF Plus, PosCoins, Coins
        <3>3. pool' = [pool EXCEPT !.coins = c, !.uses = @ + 1]
            BY <1>2, <2>1 DEF Pool
        <3> HIDE DEF c
        <3>4. \A d \in Denoms : Reserve(d)' - Reserve(d) = c[d] - pool.coins[d]
            BY <1>3, <2>1, <3>1, <3>3
        <3> QED
            BY <3>2, <3>4
    <2> QED
        BY <2>1, <2>2, <2>3, PaysIn DEF Has
<1>6. ASSUME NEW n \in ShareAmounts, RemoveSome(u, n) PROVE PaysPool(u)
    <2> DEFINE out == [d \in Denoms |-> Part(pool.coins[d], n)]
    <2>1. /\ pool # NoPool /\ bank' = Move(Module, u, out)
          /\ \A d \in Denoms : out[d] < pool.coins[d]
          /\ pool' = [pool EXCEPT !.coins = Minus(@, out), !.uses = @ + 1]
        BY <1>6 DEF RemoveSome, Usable
    <2>2. out \in Coins
        <3>1. n \in Nat \ {0}
            BY PoolAssumption
        <3>2. ASSUME NEW d \in Denoms PROVE Part(pool.coins[d], n) \in Nat
            BY <1>2, <2>1, <3>1, PartNat DEF PosCoins
        <3> QED
            BY <3>2 DEF Coins
    <2> HIDE DEF out
    <2>3. \A d \in Denoms : Reserve(d)' - Reserve(d) = -out[d]
        <3> DEFINE c == Minus(pool.coins, out)
        <3>1. \A d \in Denoms : c[d] = pool.coins[d] - out[d]
            BY DEF Minus
        <3>2. c \in PosCoins
            BY <1>2, <2>1, <2>2 DEF Minus, PosCoins, Coins
        <3>3. pool' = [pool EXCEPT !.coins = c, !.uses = @ + 1]
            BY <1>2, <2>1 DEF Pool
        <3> HIDE DEF c
        <3>4. \A d \in Denoms : Reserve(d)' - Reserve(d) = c[d] - pool.coins[d]
            BY <1>3, <2>1, <3>2, <3>3
        <3>5. \A d \in Denoms : c[d] - pool.coins[d] = -out[d]
            BY <1>2, <2>1, <2>2, <3>1 DEF PosCoins, Coins
        <3> QED
            BY <3>4, <3>5
    <2> QED
        BY <2>1, <2>2, <2>3, PaysOut
<1>7. ASSUME RemoveAll(u) PROVE PaysPool(u)
    <2>1. pool # NoPool /\ pool' = NoPool /\ bank' = Move(Module, u, pool.coins)
        BY <1>7 DEF RemoveAll
    <2>2. pool.coins \in Coins
        BY <1>2, <2>1 DEF PosCoins, Coins
    <2>3. \A d \in Denoms : Reserve(d)' - Reserve(d) = -pool.coins[d]
        BY <2>1, <2>2 DEF Reserve, Coins
    <2> QED
        BY <2>1, <2>2, <2>3, PaysOut
<1>8. ASSUME NEW n \in ShareAmounts, NEW v \in Users, SendShares(u, v, n) PROVE PaysPool(u)
    <2>1. pool # NoPool /\ bank' = bank /\ pool' = [pool EXCEPT !.uses = @ + 1]
        BY <1>8 DEF SendShares, Usable
    <2>2. pool' = [pool EXCEPT !.coins = pool.coins, !.uses = @ + 1]
        BY <1>2, <2>1 DEF Pool
    <2>3. \A d \in Denoms : Reserve(d)' - Reserve(d) = pool.coins[d] - pool.coins[d]
        BY <1>2, <1>3, <2>1, <2>2
    <2>4. \A d \in Denoms : Reserve(d)' - Reserve(d) = 0
        BY <1>2, <2>1, <2>3 DEF PosCoins
    <2>5. bank[Module] \in Coins /\ Coins \subseteq Ints
        BY DEF Accounts, Coins, Ints
    <2> QED
        BY <1>0, <2>1, <2>4, <2>5 DEF PaysPool, Coins
<1>9. ASSUME pool # NoPool, NEW d \in Denoms, NEW in \in Nat, NEW out \in Nat,
             out < pool.coins[Other(d)], Trade(u, d, in, out)
      PROVE  PaysPool(u)
    <2> DEFINE c == Swapped(pool.coins, d, in, out)
    <2>1. c \in PosCoins
        BY <1>2, <1>9, SwappedPos
    <2>2. pool' = [pool EXCEPT !.coins = c, !.uses = @ + 1]
        BY <1>2, <1>9 DEF Trade, Pool
    <2> HIDE DEF c
    <2>3. pool' # NoPool
        BY <1>3, <1>9, <2>1, <2>2
    <2> QED
        BY <1>9, <2>3, TradePays
<1>10. ASSUME NEW d \in Denoms, NEW n \in SwapAmounts, SwapIn(u, d, n) PROVE PaysPool(u)
    <2>1. /\ pool # NoPool /\ n \in Nat /\ ExactIn(pool.coins, d, n) > 0
          /\ Trade(u, d, n, ExactIn(pool.coins, d, n))
        BY <1>10, PoolAssumption DEF SwapIn, Usable
    <2>2. ExactIn(pool.coins, d, n) \in Int /\ ExactIn(pool.coins, d, n) < pool.coins[Other(d)]
        BY <1>2, <2>1, SwapInBelow
    <2> QED
        BY <1>9, <2>1, <2>2
<1>11. ASSUME NEW d \in Denoms, NEW n \in SwapAmounts, SwapOut(u, d, n) PROVE PaysPool(u)
    <2>1. /\ pool # NoPool /\ n \in Nat /\ n < pool.coins[Other(d)]
          /\ Trade(u, d, ExactOut(pool.coins, d, n), n)
        BY <1>11, PoolAssumption DEF SwapOut, Usable
    <2>2. ExactOut(pool.coins, d, n) \in Nat
        BY <1>2, <2>1, SwapOutNat
    <2> QED
        BY <1>9, <2>1, <2>2
<1> QED
    BY <1>1, <1>4, <1>5, <1>6, <1>7, <1>8, <1>10, <1>11 DEF PoolMessage

-----------------------------------------------------------------------------
(* The product of the reserves *)

Product(c) == c[X] * c[Y]

(* Products with a natural number keep the order ... *)
LEMMA MulBelow == ASSUME NEW a \in Nat, NEW b \in Nat, NEW c \in Nat, a <= b PROVE a * c <= b * c
<1>1. b * c = a * c + (b - a) * c /\ b - a \in Nat
    OBVIOUS
<1>2. (b - a) * c \in Nat /\ a * c \in Nat /\ b * c \in Nat
    BY MulNat
<1> QED
    BY <1>1, <1>2

(* ... and with a positive one reflect it. *)
LEMMA MulCancel == ASSUME NEW a \in Nat, NEW b \in Nat, NEW c \in Nat \ {0}, a * c <= b * c PROVE a <= b
<1> SUFFICES ASSUME a > b PROVE FALSE
    OBVIOUS
<1>1. a * c = b * c + (a - b) * c /\ a - b \in Nat \ {0}
    OBVIOUS
<1>2. (a - b) * c \in Nat \ {0} /\ a * c \in Nat /\ b * c \in Nat
    BY <1>1, MulNat, MulPos
<1> QED
    BY <1>1, <1>2

(* Products of larger naturals are no smaller. *)
LEMMA ProductsBelow ==
    ASSUME NEW a \in Nat, NEW b \in Nat, NEW e \in Nat, NEW f \in Nat, a <= e, b <= f
    PROVE  a * b <= e * f
<1>1. a * b <= e * b
    BY MulBelow
<1>2. b * e <= f * e
    BY MulBelow
<1>3. b * e = e * b /\ f * e = e * f /\ a * b \in Nat /\ e * b \in Nat /\ e * f \in Nat
    BY MulNat
<1> QED
    BY <1>1, <1>2, <1>3

(* Nor are their quotients. *)
LEMMA DivBelow == ASSUME NEW a \in Nat, NEW b \in Nat, NEW k \in Nat \ {0}, a <= b PROVE a \div k <= b \div k
<1> DEFINE p == a \div k
           q == b \div k
<1>1. p \in Nat /\ k * p <= a
    BY DivNat
<1>2. q \in Nat /\ b < k * (q + 1)
    BY DivNat
<1> HIDE DEF p, q
<1>3. (q + 1) * k = k * (q + 1) /\ p * k = k * p
    BY <1>1, <1>2
<1> SUFFICES ASSUME p > q PROVE FALSE
    BY <1>1, <1>2 DEF p, q
<1>4. (q + 1) * k <= p * k
    BY <1>1, <1>2, MulBelow
<1>5. (q + 1) * k \in Nat /\ p * k \in Nat
    BY <1>1, <1>2, MulNat
<1> QED
    BY <1>1, <1>2, <1>3, <1>4, <1>5

(* A quotient rounded up times the divisor is at least the dividend. *)
LEMMA CeilCovers ==
    ASSUME NEW a \in Nat, NEW b \in Nat \ {0}
    PROVE  CeilDiv(a, b) \in Nat /\ CeilDiv(a, b) * b >= a
<1> DEFINE n == a + b - 1
           q == n \div b
           r == n % b
<1>1. n \in Nat
    OBVIOUS
<1>2. q \in Nat
    BY <1>1, DivNat
<1>3. r \in Nat /\ r < b
    BY <1>1, RestBelow
<1>4. n = b * q + r
    BY <1>1
<1>5. q * b = b * q /\ b * q \in Nat
    BY <1>2, MulNat
<1>6. q * b >= a
    <2>1. n = a + b - 1
        OBVIOUS
    <2> HIDE DEF n, q, r
    <2> QED
        BY <1>1, <1>3, <1>4, <1>5, <2>1
<1> QED
    BY <1>2, <1>6 DEF CeilDiv

(* A quotient of a multiple is not rounded. *)
LEMMA CeilOfProduct ==
    ASSUME NEW k \in Nat, NEW x \in Nat \ {0}
    PROVE  CeilDiv(k * x, x) = k
<1> DEFINE n == k * x + x - 1
           q == n \div x
           r == n % x
<1>0. k * x \in Nat
    BY MulNat
<1>1. n \in Nat
    BY <1>0
<1>2. n = x * q + r
    BY <1>1
<1>3. q \in Nat /\ r \in Nat /\ r < x
    BY <1>1, DivNat, RestBelow
<1>4. CeilDiv(k * x, x) = q
    BY DEF CeilDiv
<1>5. k * x = x * k
    OBVIOUS
<1> DEFINE y == x * k
           z == x * q
<1>6. z + r = y + x - 1 /\ y \in Nat /\ z \in Nat
    BY <1>0, <1>2, <1>3, <1>5, MulNat
<1>7. q <= k
    <2> SUFFICES ASSUME q >= k + 1 PROVE FALSE
        BY <1>3
    <2>1. (k + 1) * x <= q * x
        BY <1>3, MulBelow
    <2>2. (k + 1) * x = y + x /\ q * x = z
        BY <1>3
    <2> HIDE DEF y, z, q, r
    <2> QED
        BY <1>3, <1>6, <2>1, <2>2
<1>8. k <= q
    <2> SUFFICES ASSUME k >= q + 1 PROVE FALSE
        BY <1>3
    <2>1. (q + 1) * x <= k * x
        BY <1>3, MulBelow
    <2>2. (q + 1) * x = z + x /\ k * x = y
        BY <1>3
    <2> HIDE DEF y, z, q, r
    <2> QED
        BY <1>3, <1>6, <2>1, <2>2
<1> HIDE DEF q
<1> QED
    BY <1>3, <1>4, <1>7, <1>8

(* A product of reserves is a natural number. *)
LEMMA ProductNat == ASSUME NEW c \in PosCoins PROVE Product(c) \in Nat
<1>1. c[X] \in Nat /\ c[Y] \in Nat
    BY DEF PosCoins, Denoms
<1> QED
    BY <1>1, MulNat DEF Product

(* The product, whichever denom comes first. *)
LEMMA ProductOf ==
    ASSUME NEW c, \A e \in Denoms : c[e] \in Int, NEW d \in Denoms
    PROVE  Product(c) = c[d] * c[Other(d)]
    BY PoolAssumption DEF Product, Denoms, Other

(* What goes in, less the fee, is rounded in favour of the pool: a swap of an exact amount in ... *)
LEMMA SwapInGains ==
    ASSUME NEW c \in PosCoins, NEW d \in Denoms, NEW n \in Nat
    PROVE  Product(Swapped(c, d, n, ExactIn(c, d, n))) >= Product(c)
<1> DEFINE o == Other(d)
           P == c[d] * c[o]
           num == P * DecOne
           den == c[d] * DecOne + n * (DecOne - FeeRate)
           q == CeilDiv(num, den)
           s == Swapped(c, d, n, ExactIn(c, d, n))
<1>1. c[d] \in Nat \ {0} /\ c[o] \in Nat \ {0} /\ DecOne \in Nat \ {0} /\ DecOne - FeeRate \in Nat
      /\ DecOne - FeeRate <= DecOne
    BY OtherDenom, PoolAssumption DEF PosCoins
<1>2. P \in Nat \ {0}
    BY <1>1, MulPos
<1>3. num \in Nat
    BY <1>1, <1>2, MulNat
<1>4. c[d] * DecOne \in Nat \ {0} /\ n * (DecOne - FeeRate) \in Nat
    BY <1>1, MulPos, MulNat
<1>5. den \in Nat \ {0}
    BY <1>4
<1>6. den <= (c[d] + n) * DecOne
    <2>1. n * (DecOne - FeeRate) <= n * DecOne
        <3>1. (DecOne - FeeRate) * n <= DecOne * n
            BY <1>1, MulBelow
        <3> QED
            BY <1>1, <3>1
    <2>2. (c[d] + n) * DecOne = c[d] * DecOne + n * DecOne /\ n * DecOne \in Nat
        BY <1>1
    <2> QED
        BY <1>4, <2>1, <2>2
<1> HIDE DEF num, den
<1>7. q \in Nat /\ q * den >= num
    BY <1>3, <1>5, CeilCovers
<1>8. ExactIn(c, d, n) = c[o] - q
    BY DEF ExactIn, num, den
<1> HIDE DEF q
<1>9. ExactIn(c, d, n) \in Int /\ c[o] - ExactIn(c, d, n) = q
    BY <1>1, <1>7, <1>8
<1>10. s[d] = c[d] + n /\ s[o] = q /\ \A e \in Denoms : s[e] \in Int
    BY <1>1, <1>7, <1>9, OtherDenom DEF Swapped, PosCoins, Denoms
<1>11. (c[d] + n) * q >= P
    <2> DEFINE m == c[d] + n
    <2>1. m \in Nat /\ m * DecOne \in Nat
        BY <1>1, MulNat
    <2>2. den <= m * DecOne
        BY <1>6
    <2> HIDE DEF m, P
    <2>3. den * q <= (m * DecOne) * q
        BY <1>5, <1>7, <2>1, <2>2, MulBelow
    <2>4. den * q = q * den /\ (m * DecOne) * q = (m * q) * DecOne /\ q * den \in Nat /\ m * q \in Nat
        BY <1>1, <1>5, <1>7, <2>1
    <2>5. P * DecOne <= (m * q) * DecOne
        <3>1. num <= (m * q) * DecOne
            <4>1. (m * q) * DecOne \in Nat
                BY <1>1, <2>4, MulNat
            <4> QED
                BY <1>3, <1>7, <2>3, <2>4, <4>1
        <3> QED
            BY <3>1 DEF num
    <2>6. P <= m * q
        BY <1>1, <1>2, <2>4, <2>5, MulCancel
    <2>7. m * q >= P
        BY <1>2, <2>4, <2>6
    <2> QED
        BY <2>7 DEF m
<1>12. Product(s) = s[d] * s[o] /\ Product(c) = P
    <2>1. \A e \in Denoms : c[e] \in Int
        BY DEF PosCoins
    <2> HIDE DEF s
    <2> QED
        BY <1>10, <2>1, ProductOf
<1> QED
    BY <1>10, <1>11, <1>12

(* ... and of an exact amount out. *)
LEMMA SwapOutGains ==
    ASSUME NEW c \in PosCoins, NEW d \in Denoms, NEW n \in Nat, n < c[Other(d)]
    PROVE  Product(Swapped(c, d, ExactOut(c, d, n), n)) >= Product(c)
<1> DEFINE o == Other(d)
           r == c[o] - n
           z == DecOne - FeeRate
           num == c[d] * n * DecOne
           den == r * z
           q == CeilDiv(num, den)
           s == Swapped(c, d, ExactOut(c, d, n), n)
<1>1. c[d] \in Nat \ {0} /\ c[o] \in Nat \ {0} /\ DecOne \in Nat \ {0} /\ z \in Nat \ {0}
      /\ z <= DecOne /\ r \in Nat \ {0} /\ c[o] = r + n
    BY OtherDenom, PoolAssumption DEF PosCoins
<1>2. c[d] * n \in Nat
    BY <1>1, MulNat
<1>3. num \in Nat
    BY <1>1, <1>2, MulNat
<1>4. den \in Nat \ {0}
    BY <1>1, MulPos
<1> HIDE DEF r, z
<1>5. q \in Nat /\ q * den >= num
    <2> HIDE DEF num, den
    <2> QED
        BY <1>3, <1>4, CeilCovers
<1>6. ExactOut(c, d, n) = q
    BY DEF ExactOut, r, z
<1> HIDE DEF q
<1>7. s[d] = c[d] + q /\ s[o] = r /\ \A e \in Denoms : s[e] \in Int
    BY <1>1, <1>5, <1>6, OtherDenom DEF Swapped, PosCoins, Denoms, r
<1>8. q * r >= c[d] * n
    <2> DEFINE y == c[d] * n
    <2>1. y * z <= y * DecOne
        <3>1. z * y <= DecOne * y
            BY <1>1, <1>2, MulBelow
        <3> QED
            BY <1>1, <1>2, <3>1
    <2>2. num = y * DecOne /\ y \in Nat
        BY <1>2
    <2>3. q * r \in Nat /\ (q * r) * z = q * den /\ (q * r) * z \in Nat
        BY <1>1, <1>5, MulNat
    <2>4. y * z \in Nat /\ y * DecOne \in Nat
        BY <1>1, <2>2, MulNat
    <2> HIDE DEF y, num, den
    <2>5. y * z <= (q * r) * z
        BY <1>3, <1>4, <1>5, <2>1, <2>2, <2>3, <2>4
    <2>6. y <= q * r
        BY <1>1, <2>2, <2>3, <2>5, MulCancel
    <2> QED
        BY <2>2, <2>3, <2>6 DEF y
<1>9. (c[d] + q) * r >= c[d] * c[o]
    <2>1. (c[d] + q) * r = c[d] * r + q * r /\ c[d] * c[o] = c[d] * r + c[d] * n
        BY <1>1, <1>5
    <2>2. c[d] * r \in Nat /\ q * r \in Nat
        BY <1>1, <1>5, MulNat
    <2> QED
        BY <1>2, <1>8, <2>1, <2>2
<1>10. Product(s) = s[d] * s[o] /\ Product(c) = c[d] * c[o]
    <2>1. \A e \in Denoms : c[e] \in Int
        BY DEF PosCoins
    <2> HIDE DEF s
    <2> QED
        BY <1>7, <2>1, ProductOf
<1> QED
    BY <1>7, <1>9, <1>10

=============================================================================
