------------------------------ MODULE SwapPool ------------------------------
(***************************************************************************)
(* A constant-product pool of x/whaleswap: its reserves, the shares in it, *)
(* and the swaps that go through it.  Reserves lie in the account of the   *)
(* module, shares are coins of their own denom.  Loans out of the pool are *)
(* the module SwapLoans; of them the pool itself knows the sum it lent.    *)
(* A message that fails changes nothing; a failing check is a guard.       *)
(* Decimals are whole numbers of 1/DecOne, computed without rounding.      *)
(***************************************************************************)
EXTENDS Integers, FiniteSetsExt

CONSTANTS
    Users,
    Module,         \* the account of x/whaleswap
    Vault,          \* the account that trades for loans, LeverageBorrowVault
    X, Y,           \* the pool's denoms
    DecOne,         \* the decimal 1
    FeeRate,        \* the pool's fee on what is swapped in
    NoPool,
    InitFunds,
    Reserves,       \* reserves a pool is created with
    Additions,      \* coins added to a pool
    ShareAmounts, SwapAmounts,
    MaxPools,       \* bound: pools over a behaviour, one at a time
    MaxUses         \* bound: messages to a pool, those that lend apart

Denoms   == {X, Y}
Accounts == Users \cup {Module, Vault}
Coins    == [Denoms -> Nat]
Other(d) == IF d = X THEN Y ELSE X

ASSUME PoolAssumption ==
    /\ X # Y
    /\ Module # Vault /\ Module \notin Users /\ Vault \notin Users
    /\ DecOne \in Nat \ {0}
    /\ FeeRate \in 0..DecOne-1
    /\ {InitFunds, MaxPools, MaxUses} \subseteq Nat
    /\ Reserves \subseteq [Denoms -> Nat \ {0}]
    /\ Additions \subseteq Coins \ {[d \in Denoms |-> 0]}
    /\ ShareAmounts \subseteq Nat \ {0} /\ SwapAmounts \subseteq Nat \ {0}

VARIABLES
    bank,       \* balances
    pool,       \* Pool: id, coins, borrowed (TotalBorrowed) and uses, which the bound counts; or NoPool
    shares,     \* balances of the pool's shares
    supply,     \* of the shares
    poolSeq     \* the last id given to a pool

poolVars == <<bank, pool, shares, supply, poolSeq>>

Pool == [id: Nat, coins: [Denoms -> Nat \ {0}], borrowed: Coins, uses: Nat]

ASSUME NoPoolAssumption == NoPool \notin Pool

-----------------------------------------------------------------------------
(* Amounts *)

CeilDiv(a, b) == (a + b - 1) \div b
Lower(a, b)   == IF a < b THEN a ELSE b

\* what a swap of n into the reserves c pays, tradeApplySwapLeg with swap_in
ExactIn_Nearest(c, d, n) ==
    c[Other(d)] - (c[d] * c[Other(d)] * DecOne) \div (c[d] * DecOne + n * (DecOne - FeeRate))
ExactIn(c, d, n) ==
    c[Other(d)] - CeilDiv(c[d] * c[Other(d)] * DecOne, c[d] * DecOne + n * (DecOne - FeeRate))

\* what a swap that pays n out of the reserves c takes of d, with swap_out
ExactOut(c, d, n) == CeilDiv(c[d] * n * DecOne, (c[Other(d)] - n) * (DecOne - FeeRate))

Swapped(c, d, in, out) == [c EXCEPT ![d] = @ + in, ![Other(d)] = @ - out]

\* s is the root of the product of the reserves, rounded up
IsRoot(s, c) == s * s >= c[X] * c[Y] /\ (s-1) * (s-1) < c[X] * c[Y]

\* ensureMajorityOwner
Majority(u) == 2 * shares[u] > supply

\* the shares for additions a to the reserves: the least that one of the coins is worth
Minted(a) == LET worth == {(a[d] * supply) \div pool.coins[d] : d \in {e \in Denoms : a[e] > 0}}
             IN CHOOSE n \in worth : \A m \in worth : n <= m

\* x times n / supply, where the quotient has been cut to a finite number of decimals first
Part(x, n) == IF (x * n) % supply = 0 /\ (n * 1000000) % supply # 0
              THEN (x * n) \div supply - 1 ELSE (x * n) \div supply

\* what the pool has in the account of the module
Reserve(d) == IF pool = NoPool THEN 0 ELSE pool.coins[d]

Has(a, c) == \A d \in Denoms : bank[a][d] >= c[d]

Plus(c, e)  == [d \in Denoms |-> c[d] + e[d]]
Minus(c, e) == [d \in Denoms |-> c[d] - e[d]]
One(e, n)   == [d \in Denoms |-> IF d = e THEN n ELSE 0]

Move(from, to, c) == [bank EXCEPT ![from] = Minus(@, c), ![to] = Plus(@, c)]

\* from pays c into the pool's account and gets e out of it
Exchange(a, c, e) == [bank EXCEPT ![a] = Plus(Minus(@, c), e), ![Module] = Plus(Minus(@, e), c)]

-----------------------------------------------------------------------------
(* Liquidity *)

Usable == pool # NoPool /\ pool.uses < MaxUses

CreatePool(u, c) ==
    /\ pool = NoPool /\ poolSeq < MaxPools
    /\ Has(u, c)
    /\ poolSeq' = poolSeq + 1
    /\ pool' = [id |-> poolSeq', coins |-> c, borrowed |-> [d \in Denoms |-> 0], uses |-> 0]
    /\ supply' \in {s \in 1..c[X] * c[Y] : IsRoot(s, c)}
    /\ shares' = [v \in Users |-> IF v = u THEN supply' ELSE 0]
    /\ bank' = Move(u, Module, c)

\* AddLiquidity; what is not needed for the shares minted is given back
AddProportionally(u, a) ==
    /\ Usable /\ Majority(u) /\ Has(u, a)
    /\ \A d \in Denoms : a[d] > 0
    /\ LET minted == Minted(a)
           needed == [d \in Denoms |-> CeilDiv(minted * pool.coins[d], supply)]
       IN /\ minted > 0
          /\ pool' = [pool EXCEPT !.coins = Plus(@, needed), !.uses = @ + 1]
          /\ shares' = [shares EXCEPT ![u] = @ + minted]
          /\ supply' = supply + minted
          /\ bank' = Move(u, Module, needed)
    /\ UNCHANGED poolSeq

\* AddLiquidity with unbalanced set
AddUnbalanced(u, a) ==
    /\ Usable /\ Majority(u) /\ Has(u, a)
    /\ Minted(a) > 0
    /\ pool' = [pool EXCEPT !.coins = Plus(@, a), !.uses = @ + 1]
    /\ shares' = [shares EXCEPT ![u] = @ + Minted(a)]
    /\ supply' = supply + Minted(a)
    /\ bank' = Move(u, Module, a)
    /\ UNCHANGED poolSeq

\* RemoveLiquidity of some of the shares
RemoveSome(u, n) ==
    /\ Usable /\ n <= shares[u] /\ n < supply
    /\ LET out == [d \in Denoms |-> Part(pool.coins[d], n)]
       IN /\ \E d \in Denoms : out[d] > 0
          /\ \A d \in Denoms : out[d] < pool.coins[d]
          /\ pool' = [pool EXCEPT !.coins = Minus(@, out), !.uses = @ + 1]
          /\ bank' = Move(Module, u, out)
    /\ shares' = [shares EXCEPT ![u] = @ - n]
    /\ supply' = supply - n
    /\ UNCHANGED poolSeq

\* RemoveLiquidity of all shares takes the pool away, whatever it has lent
RemoveAll(u) ==
    /\ pool # NoPool /\ shares[u] = supply
    /\ pool' = NoPool
    /\ bank' = Move(Module, u, pool.coins)
    /\ shares' = [v \in Users |-> 0]
    /\ supply' = 0
    /\ UNCHANGED poolSeq

\* x/bank sends shares
SendShares(u, v, n) ==
    /\ Usable /\ u # v /\ n <= shares[u]
    /\ pool' = [pool EXCEPT !.uses = @ + 1]
    /\ shares' = [shares EXCEPT ![u] = @ - n, ![v] = @ + n]
    /\ UNCHANGED <<bank, supply, poolSeq>>

-----------------------------------------------------------------------------
(* Trades of one swap *)

Trade(u, d, in, out) ==
    /\ bank[u][d] >= in
    /\ pool' = [pool EXCEPT !.coins = Swapped(@, d, in, out), !.uses = @ + 1]
    /\ bank' = Exchange(u, One(d, in), One(Other(d), out))
    /\ UNCHANGED <<shares, supply, poolSeq>>

SwapIn(u, d, n) ==
    /\ Usable /\ ExactIn(pool.coins, d, n) > 0
    /\ Trade(u, d, n, ExactIn(pool.coins, d, n))

SwapOut(u, d, n) ==
    /\ Usable /\ n < pool.coins[Other(d)]
    /\ Trade(u, d, ExactOut(pool.coins, d, n), n)

PoolInit ==
    /\ bank = [a \in Accounts |-> [d \in Denoms |-> IF a \in Users THEN InitFunds ELSE 0]]
    /\ pool = NoPool
    /\ shares = [u \in Users |-> 0]
    /\ supply = 0
    /\ poolSeq = 0

PoolMessage(u) ==
    \/ \E c \in Reserves : CreatePool(u, c)
    \/ \E a \in Additions : AddProportionally(u, a) \/ AddUnbalanced(u, a)
    \/ RemoveAll(u)
    \/ \E n \in ShareAmounts : RemoveSome(u, n) \/ \E v \in Users : SendShares(u, v, n)
    \/ \E d \in Denoms, n \in SwapAmounts : SwapIn(u, d, n) \/ SwapOut(u, d, n)

=============================================================================
