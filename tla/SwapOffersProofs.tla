--------------------------- MODULE SwapOffersProofs ---------------------------
(***************************************************************************)
(* Proofs about SwapOffers for any makers, shapes of offers, deposits,     *)
(* routes and bounds.  First the book: by Bezout's identity the price of   *)
(* what remains of an offer is the one of its units (BookInv).  Then the   *)
(* netting of one denom, which keeps the sums equal only where nobody's    *)
(* row shrinks (Netting), and with it the account of the module (Money)    *)
(* and what a maker is paid.  Last, that a trade of one swap is the swap.  *)
(***************************************************************************)
EXTENDS SwapOffers, SwapPoolProofs, SumProofs

-----------------------------------------------------------------------------
(* Greatest common divisors *)

Less == {p \in Nat \X Nat : p[1] < p[2]}

(* Numbers have a least one among them. *)
LEMMA LeastNat ==
    ASSUME NEW S \in SUBSET Nat, S # {}
    PROVE  \E m \in S : \A n \in S : m <= n
<1>1. IsWellFoundedOn(Less, Nat)
    BY NatLessThanWellFounded DEF OpToRel, Less
<1>2. PICK m \in S : \A n \in S : <<n, m>> \notin Less
    BY <1>1, WFMin
<1>3. ASSUME NEW n \in S PROVE m <= n
    <2>1. <<n, m>> \in Nat \X Nat /\ <<n, m>>[1] = n /\ <<n, m>>[2] = m
        OBVIOUS
    <2>2. ~(n < m)
        BY <1>2, <2>1 DEF Less
    <2> QED
        BY <2>2
<1> QED
    BY <1>3

(* Bounded ones have a greatest one. *)
LEMMA GreatestNat ==
    ASSUME NEW b \in Nat, NEW S \in SUBSET (1..b), S # {}
    PROVE  Max(S) \in S /\ \A n \in S : n <= Max(S)
<1> DEFINE T == {n \in Nat : \E m \in S : n = b - m}
<1>1. T \in SUBSET Nat /\ T # {}
    <2>1. PICK k \in S : TRUE
        OBVIOUS
    <2>2. b - k \in Nat
        OBVIOUS
    <2> QED
        BY <2>2
<1>2. PICK n \in T : \A k \in T : n <= k
    <2> HIDE DEF T
    <2> QED
        BY <1>1, LeastNat
<1>3. PICK m \in S : n = b - m
    OBVIOUS
<1>4. \A k \in S : m >= k
    <2> SUFFICES ASSUME NEW k \in S PROVE m >= k
        OBVIOUS
    <2>1. b - k \in T
        OBVIOUS
    <2> QED
        BY <1>2, <1>3, <2>1
<1>5. Max(S) \in S /\ \A k \in S : Max(S) >= k
    BY <1>4 DEF Max
<1> QED
    BY <1>5

(* A number that is divided without a rest is a multiple. *)
LEMMA NoRest ==
    ASSUME NEW a \in Nat, NEW g \in Nat \ {0}
    PROVE  a % g = 0 <=> \E q \in Nat : a = g * q
<1>1. /\ a = g * (a \div g) + (a % g)
      /\ a \div g \in Nat /\ a % g \in Nat /\ a % g < g
    <2>1. a = g * (a \div g) + (a % g)
        OBVIOUS
    <2> QED
        BY <2>1, DivNat, RestBelow
<1>2. ASSUME NEW q \in Nat, a = g * q PROVE a % g = 0
    <2> DEFINE k == a \div g
               r == a % g
    <2>1. r = g * (q - k)
        BY <1>1, <1>2
    <2>2. k \in Nat /\ q - k \in Int /\ r \in Nat /\ r < g
        BY <1>1
    <2> HIDE DEF k, r
    <2>3. q - k <= 0
        <3> SUFFICES ASSUME q - k >= 1 PROVE FALSE
            BY <2>2
        <3>1. g * (q - k) = g + g * (q - k - 1)
            BY <2>2
        <3>2. g * (q - k - 1) \in Nat
            BY <2>2, MulNat
        <3> QED
            BY <2>1, <2>2, <3>1, <3>2
    <2>4. q - k >= 0
        <3> SUFFICES ASSUME q - k < 0 PROVE FALSE
            BY <2>2
        <3>1. g * (k - q) \in Nat \ {0}
            BY <2>2, MulPos
        <3>2. g * (q - k) = -(g * (k - q))
            BY <2>2
        <3> QED
            BY <2>1, <2>2, <3>1, <3>2
    <2>5. q - k = 0
        BY <2>2, <2>3, <2>4
    <2> QED
        BY <2>1, <2>5 DEF r
<1>3. a % g = 0 => a = g * (a \div g)
    BY <1>1
<1> QED
    BY <1>1, <1>2, <1>3

(* A quotient undoes a product. *)
LEMMA DivOfProduct ==
    ASSUME NEW g \in Nat \ {0}, NEW q \in Nat
    PROVE  (g * q) \div g = q
<1> DEFINE a == g * q
           k == a \div g
<1>1. a \in Nat
    BY MulNat
<1>2. a % g = 0
    BY <1>1, NoRest
<1> HIDE DEF a
<1>3. a = g * k /\ k \in Nat
    BY <1>1, <1>2, DivNat
<1> HIDE DEF k
<1>4. k = q
    <2>1. CASE k > q
        <3>1. g * (k - q) \in Nat \ {0}
            BY <1>3, <2>1, MulPos
        <3>2. g * k = g * q + g * (k - q)
            BY <1>3
        <3> QED
            BY <1>1, <1>3, <3>1, <3>2 DEF a
    <2>2. CASE k < q
        <3>1. g * (q - k) \in Nat \ {0}
            BY <1>3, <2>2, MulPos
        <3>2. g * q = g * k + g * (q - k)
            BY <1>3
        <3> QED
            BY <1>1, <1>3, <3>1, <3>2 DEF a
    <2> QED
        BY <1>3, <2>1, <2>2
<1> QED
    BY <1>4 DEF k, a

(* A divisor of a positive number is not greater. *)
LEMMA DivisorBelow ==
    ASSUME NEW a \in Nat \ {0}, NEW g \in Nat \ {0}, a % g = 0
    PROVE  g <= a
<1>1. PICK q \in Nat : a = g * q
    BY NoRest
<1>2. q # 0
    <2> SUFFICES ASSUME q = 0 PROVE FALSE
        OBVIOUS
    <2>1. g * q = 0
        BY <1>1
    <2> QED
        BY <1>1, <2>1
<1>3. g * q = g + g * (q - 1) /\ g * (q - 1) \in Nat
    BY <1>1, <1>2, MulNat
<1> QED
    BY <1>1, <1>3

(* The greatest common divisor is one, and no common divisor is greater. *)
LEMMA GcdTypes ==
    ASSUME NEW a \in Nat \ {0}, NEW b \in Nat \ {0}
    PROVE  /\ Gcd(a, b) \in Nat \ {0}
           /\ a % Gcd(a, b) = 0 /\ b % Gcd(a, b) = 0
           /\ \A g \in Nat \ {0} : a % g = 0 /\ b % g = 0 => g <= Gcd(a, b)
<1> DEFINE S == {g \in 1..a : a % g = 0 /\ b % g = 0}
<1>1. S \in SUBSET (1..a)
    OBVIOUS
<1>2. 1 \in S
    BY a = 1 * a, b = 1 * b, NoRest
<1>3. \A g \in Nat \ {0} : a % g = 0 /\ b % g = 0 => g \in S
    BY DivisorBelow
<1>4. Gcd(a, b) = Max(S)
    BY DEF Gcd
<1>5. \A g \in S : g \in Nat \ {0} /\ a % g = 0 /\ b % g = 0
    OBVIOUS
<1> HIDE DEF S
<1>6. Max(S) \in S /\ \A g \in S : g <= Max(S)
    BY <1>1, <1>2, GreatestNat
<1> QED
    BY <1>3, <1>4, <1>5, <1>6

(* What divides without a rest is written as a sum of multiples of the two numbers. *)
Combined(a, b) == {n \in Nat \ {0} : \E x, y \in Int : n = a * x + b * y}

(* The least such sum divides the first of them, *)
LEMMA LeastDivides ==
    ASSUME NEW a \in Nat \ {0}, NEW b \in Nat \ {0},
           NEW g \in Combined(a, b), \A n \in Combined(a, b) : g <= n
    PROVE  a % g = 0
<1>1. PICK x \in Int, y \in Int : g = a * x + b * y
    BY DEF Combined
<1>2. g \in Nat \ {0}
    BY DEF Combined
<1> DEFINE q == a \div g
           r == a % g
<1>3. a = g * q + r /\ q \in Nat /\ r \in Nat /\ r < g
    <2>1. a = g * q + r
        BY <1>2
    <2> QED
        BY <1>2, <2>1, DivNat, RestBelow
<1> HIDE DEF q, r
<1>4. r = a * (1 - x * q) + b * (-(y * q))
    <2>1. g * q = a * (x * q) + b * (y * q)
        BY <1>1, <1>2, <1>3
    <2>2. x * q \in Int /\ y * q \in Int
        BY <1>3
    <2> DEFINE u == x * q
               v == y * q
    <2> HIDE DEF u, v
    <2>3. u \in Int /\ v \in Int /\ r = a - (a * u + b * v)
        BY <1>2, <1>3, <2>1, <2>2 DEF u, v
    <2>4. a * (1 - u) + b * (-v) = a - (a * u + b * v)
        BY <2>3
    <2> QED
        BY <2>3, <2>4 DEF u, v
<1>5. r = 0
    <2> SUFFICES ASSUME r # 0 PROVE FALSE
        OBVIOUS
    <2>1. 1 - x * q \in Int /\ -(y * q) \in Int
        BY <1>3
    <2>2. r \in Combined(a, b)
        BY <1>3, <1>4, <2>1 DEF Combined
    <2> QED
        BY <1>2, <1>3, <2>2
<1> QED
    BY <1>5 DEF r

(* Combinations of two numbers are those of them in the other order. *)
LEMMA CombinedSwapped ==
    ASSUME NEW a \in Nat \ {0}, NEW b \in Nat \ {0}
    PROVE  Combined(a, b) = Combined(b, a)
<1>1. ASSUME NEW p \in Nat, NEW q \in Nat PROVE Combined(p, q) \subseteq Combined(q, p)
    <2> SUFFICES ASSUME NEW z \in Combined(p, q) PROVE z \in Combined(q, p)
        OBVIOUS
    <2>1. PICK x \in Int, y \in Int : z = p * x + q * y
        BY DEF Combined
    <2> DEFINE v == p * x
               w == q * y
    <2>2. v \in Int /\ w \in Int /\ z = v + w
        BY <2>1
    <2> HIDE DEF v, w
    <2>3. z = w + v
        BY <2>2
    <2>4. z = q * y + p * x
        BY <2>3 DEF v, w
    <2> QED
        BY <2>4 DEF Combined
<1>2. Combined(a, b) \subseteq Combined(b, a) /\ Combined(b, a) \subseteq Combined(a, b)
    BY <1>1
<1> QED
    BY <1>2

(* and so the second. *)
LEMMA Bezout ==
    ASSUME NEW a \in Nat \ {0}, NEW b \in Nat \ {0}
    PROVE  \E g \in Combined(a, b) : g \in Nat \ {0} /\ a % g = 0 /\ b % g = 0
<1>1. a \in Combined(a, b)
    BY a = a * 1 + b * 0 DEF Combined
<1>2. Combined(a, b) \in SUBSET Nat
    BY DEF Combined
<1>3. PICK g \in Combined(a, b) : \A n \in Combined(a, b) : g <= n
    BY <1>1, <1>2, LeastNat
<1>4. a % g = 0
    BY <1>3, LeastDivides
<1>5. b % g = 0
    BY <1>3, CombinedSwapped, LeastDivides
<1> QED
    BY <1>4, <1>5 DEF Combined

(* k times two numbers without a common divisor: the greatest one is k. *)
LEMMA GcdScaled ==
    ASSUME NEW h \in Nat \ {0}, NEW w \in Nat \ {0}, Gcd(h, w) = 1, NEW k \in Nat \ {0}
    PROVE  Gcd(k * h, k * w) = k
<1>1. PICK e \in Combined(h, w) : e \in Nat \ {0} /\ h % e = 0 /\ w % e = 0
    BY Bezout
<1>2. e = 1
    BY <1>1, GcdTypes
<1>3. PICK x \in Int, y \in Int : 1 = h * x + w * y
    BY <1>2 DEF Combined
<1> DEFINE a == k * h
           b == k * w
           G == Gcd(a, b)
<1>4. a \in Nat \ {0} /\ b \in Nat \ {0}
    BY MulPos
<1>5. a % k = 0 /\ b % k = 0
    BY <1>4, NoRest
<1>6. k = a * x + b * y
    <2>1. k * (h * x + w * y) = (k * h) * x + (k * w) * y
        OBVIOUS
    <2> QED
        BY <1>3, <2>1
<1> HIDE DEF a, b
<1>7. G \in Nat \ {0} /\ a % G = 0 /\ b % G = 0 /\ k <= G
    BY <1>4, <1>5, GcdTypes
<1> HIDE DEF G
<1>8. PICK p \in Nat, q \in Nat : a = G * p /\ b = G * q
    <2>1. \E p \in Nat : a = G * p
        BY <1>4, <1>7, NoRest
    <2>2. \E q \in Nat : b = G * q
        BY <1>4, <1>7, NoRest
    <2> QED
        BY <2>1, <2>2
<1> DEFINE z == p * x + q * y
<1>9. z \in Int /\ k = G * z
    <2>1. z \in Int
        BY <1>8
    <2>2. (G * p) * x + (G * q) * y = G * z
        BY <1>7, <1>8
    <2> QED
        BY <1>6, <1>8, <2>1, <2>2
<1> HIDE DEF z
<1>10. z \in Nat
    <2> SUFFICES ASSUME z < 0 PROVE FALSE
        BY <1>9
    <2>1. G * (-z) \in Nat \ {0}
        BY <1>7, <1>9, MulPos
    <2>2. G * z = -(G * (-z))
        BY <1>7, <1>9
    <2> QED
        BY <1>9, <2>1, <2>2
<1>11. k % G = 0
    BY <1>7, <1>9, <1>10, NoRest
<1>12. G <= k
    BY <1>7, <1>11, DivisorBelow
<1> QED
    BY <1>7, <1>12 DEF G, a, b

(* Divided by the greatest common divisor, two numbers have none but 1. *)
LEMMA GcdReduced ==
    ASSUME NEW a \in Nat \ {0}, NEW b \in Nat \ {0}
    PROVE  /\ a \div Gcd(a, b) \in Nat \ {0} /\ b \div Gcd(a, b) \in Nat \ {0}
           /\ a = Gcd(a, b) * (a \div Gcd(a, b))
           /\ b = Gcd(a, b) * (b \div Gcd(a, b))
           /\ Gcd(a \div Gcd(a, b), b \div Gcd(a, b)) = 1
<1> DEFINE g == Gcd(a, b)
           h == a \div g
           w == b \div g
           e == Gcd(h, w)
<1>1. g \in Nat \ {0} /\ a % g = 0 /\ b % g = 0
      /\ \A f \in Nat \ {0} : a % f = 0 /\ b % f = 0 => f <= g
    BY GcdTypes
<1> HIDE DEF g
<1>2. a = g * h /\ b = g * w /\ h \in Nat /\ w \in Nat
    BY <1>1, DivNat
<1> HIDE DEF h, w
<1>3. h # 0 /\ w # 0
    BY <1>1, <1>2
<1>4. e \in Nat \ {0} /\ h % e = 0 /\ w % e = 0
    BY <1>2, <1>3, GcdTypes
<1> HIDE DEF e
<1>5. PICK p \in Nat, q \in Nat : h = e * p /\ w = e * q
    <2>1. PICK p \in Nat : h = e * p
        BY <1>2, <1>4, NoRest
    <2>2. PICK q \in Nat : w = e * q
        BY <1>2, <1>4, NoRest
    <2> QED
        BY <2>1, <2>2
<1> DEFINE f == g * e
<1>6. f \in Nat \ {0} /\ f * p = g * (e * p) /\ f * q = g * (e * q)
    BY <1>1, <1>4, <1>5, MulPos
<1> HIDE DEF f
<1>7. a % f = 0 /\ b % f = 0
    BY <1>2, <1>5, <1>6, NoRest
<1>8. f <= g
    BY <1>1, <1>6, <1>7
<1>9. e = 1
    <2>1. f = g + g * (e - 1)
        BY <1>1, <1>4 DEF f
    <2>2. CASE e > 1
        <3>1. g * (e - 1) \in Nat \ {0}
            BY <1>1, <1>4, <2>2, MulPos
        <3> QED
            BY <1>1, <1>6, <1>8, <2>1, <3>1
    <2> QED
        BY <1>4, <2>2
<1> QED
    BY <1>2, <1>3, <1>9 DEF e, h, w, g

(* However many units of an offer there are, the price is the price of one. *)
LEMMA PriceScaled ==
    ASSUME NEW h \in Nat \ {0}, NEW w \in Nat \ {0}, Gcd(h, w) = 1, NEW k \in Nat \ {0},
           NEW d \in Denoms
    PROVE  Price(d, k * h, k * w) = Price(d, h, w)
<1>1. Gcd(k * h, k * w) = k
    BY GcdScaled
<1>2. (k * h) \div k = h /\ (k * w) \div k = w
    BY DivOfProduct
<1>3. h \div 1 = h /\ w \div 1 = w
    BY h = 1 * h, w = 1 * w, DivOfProduct
<1>4. Price(d, h, w) = [e \in Denoms |-> IF e = d THEN h ELSE w]
    BY <1>3 DEF Price
<1>5. Price(d, k * h, k * w) = [e \in Denoms |-> IF e = d THEN h ELSE w]
    BY <1>1, <1>2 DEF Price
<1> QED
    BY <1>4, <1>5

-----------------------------------------------------------------------------
(* The order book *)

\* offers as the handlers leave them: without a common divisor of the amounts of a unit, with
\* units while open, and with a deposit only where they are liquid
Sound == {o \in Offer : /\ Gcd(o.unitHave, o.unitWant) = 1
                        /\ o.status = "open" => o.units > 0
                        /\ ~o.liquid => o.pfand = Nil}

(* What is proved of the book: its offers are sound and the books by status and by price exact. *)
BookInv ==
    /\ offers \in Seq(Sound)
    /\ byDenom \subseteq DOMAIN offers
    /\ IndexExact

(* An offer in the book, by its id. *)
LEMMA SoundOffers ==
    ASSUME offers \in Seq(Sound)
    PROVE  /\ DOMAIN offers = 1..Len(offers) /\ Len(offers) \in Nat
           /\ \A i \in DOMAIN offers : offers[i] \in Sound
           /\ Open \subseteq DOMAIN offers
    BY DEF Open

(* The key an open offer is written with is the one it is removed by, whatever remains of it. *)
LEMMA KeysAgree ==
    ASSUME NEW o \in Sound, o.status = "open"
    PROVE  OpenKey(o) = CloseKey(o)
<1>1. /\ o.unitHave \in Nat \ {0} /\ o.unitWant \in Nat \ {0} /\ o.units \in Nat \ {0}
      /\ Gcd(o.unitHave, o.unitWant) = 1 /\ o.have \in Denoms
    <2>1. o \in Offer /\ Gcd(o.unitHave, o.unitWant) = 1 /\ o.units > 0
        BY DEF Sound
    <2> QED
        BY <2>1 DEF Offer
<1>2. Price(o.have, o.units * o.unitHave, o.units * o.unitWant) = Price(o.have, o.unitHave, o.unitWant)
    BY <1>1, PriceScaled
<1> QED
    BY <1>2 DEF OpenKey, CloseKey

(* The books stay exact when some open offers leave the status and none changes its price. *)
LEMMA Reindexed ==
    ASSUME IndexExact, offers \in Seq(Sound), offers' \in Seq(Sound),
           DOMAIN offers' = DOMAIN offers, NEW S \in SUBSET Open, NEW st, st # "open",
           Reindex(S, st), Asserted',
           \A i \in S : offers'[i].status = st,
           \A i \in DOMAIN offers \ S : offers'[i].status = offers[i].status,
           \A i \in DOMAIN offers : CloseKey(offers'[i]) = CloseKey(offers[i])
    PROVE  IndexExact' /\ byDenom' \subseteq DOMAIN offers'
<1>1. S \subseteq DOMAIN offers /\ \A i \in S : offers[i].status = "open"
    BY DEF Open
<1>2. Open' = Open \ S
    BY <1>1 DEF Open
<1>3. byStatus' = {<<offers'[i].status, i>> : i \in DOMAIN offers'}
    <2>1. byStatus = {<<offers[i].status, i>> : i \in DOMAIN offers}
        BY DEF IndexExact
    <2>2. byStatus' = (byStatus \ ({"open"} \X S)) \cup ({st} \X S)
        BY DEF Reindex
    <2>3. ASSUME NEW e \in byStatus' PROVE \E i \in DOMAIN offers' : e = <<offers'[i].status, i>>
        <3>1. CASE e \in {st} \X S
            BY <1>1, <3>1
        <3>2. CASE e \in byStatus /\ e \notin {"open"} \X S
            <4>1. PICK i \in DOMAIN offers : e = <<offers[i].status, i>>
                BY <2>1, <3>2
            <4>2. i \notin S
                BY <1>1, <3>2, <4>1
            <4> QED
                BY <4>1, <4>2
        <3> QED
            BY <2>2, <2>3, <3>1, <3>2
    <2>4. ASSUME NEW i \in DOMAIN offers' PROVE <<offers'[i].status, i>> \in byStatus'
        <3>1. CASE i \in S
            BY <2>2, <3>1
        <3>2. CASE i \notin S
            BY <2>1, <2>2, <3>2
        <3> QED
            BY <3>1, <3>2
    <2> QED
        BY <2>3, <2>4
<1>4. \A i \in Open : OpenKey(offers[i]) = CloseKey(offers[i])
    BY SoundOffers, KeysAgree DEF Open
<1>5. \A i \in Open' : OpenKey(offers'[i]) = CloseKey(offers[i])
    <2> SUFFICES ASSUME NEW i \in Open' PROVE OpenKey(offers'[i]) = CloseKey(offers[i])
        OBVIOUS
    <2>1. i \in DOMAIN offers /\ offers'[i] \in Sound /\ offers'[i].status = "open"
        BY DEF Open
    <2>2. OpenKey(offers'[i]) = CloseKey(offers'[i])
        BY <2>1, KeysAgree
    <2> QED
        BY <2>1, <2>2
<1>6. byPrice' = {<<OpenKey(offers'[i]), i>> : i \in Open'}
    <2> DEFINE Key(i) == CloseKey(offers[i])
    <2>1. byPrice = {<<Key(i), i>> : i \in Open}
        BY <1>4 DEF IndexExact
    <2>2. byPrice' = byPrice \ {<<Key(i), i>> : i \in S}
        BY DEF Reindex
    <2>3. \A i \in Open' : OpenKey(offers'[i]) = Key(i)
        BY <1>5
    <2> HIDE DEF Key
    <2>4. byPrice' = {<<Key(i), i>> : i \in Open'}
        BY <1>2, <2>1, <2>2
    <2> QED
        BY <2>3, <2>4
<1>7. Open' \subseteq byDenom' /\ byDenom' \subseteq DOMAIN offers'
    BY DEF Asserted, Open
<1> QED
    BY <1>3, <1>6, <1>7 DEF IndexExact

(* An offer as MakeOffer writes it. *)
LEMMA NewOffer ==
    ASSUME NEW u \in Users, NEW d \in Denoms, NEW shape \in Shapes, NEW liquid \in BOOLEAN,
           NEW p \in Coins
    PROVE  LET g == Gcd(shape[1], shape[2])
           IN [maker |-> u, status |-> "open", liquid |-> liquid, have |-> d,
               unitHave |-> shape[1] \div g, unitWant |-> shape[2] \div g, units |-> g,
               pfand |-> IF liquid THEN p ELSE Nil] \in Sound
<1> DEFINE a == shape[1]
           b == shape[2]
           g == Gcd(a, b)
           h == a \div g
           w == b \div g
           c == IF liquid THEN p ELSE Nil
           o == [maker |-> u, status |-> "open", liquid |-> liquid, have |-> d,
                 unitHave |-> h, unitWant |-> w, units |-> g, pfand |-> c]
<1>1. a \in Nat \ {0} /\ b \in Nat \ {0}
    BY OfferAssumption
<1> HIDE DEF a, b
<1>2. g \in Nat \ {0} /\ h \in Nat \ {0} /\ w \in Nat \ {0} /\ Gcd(h, w) = 1
    BY <1>1, GcdTypes, GcdReduced
<1>3. c \in Coins /\ (~liquid => c = Nil)
    BY DEF Nil, Coins
<1> HIDE DEF g, h, w, c
<1>4. o \in Offer
    BY <1>2, <1>3 DEF Offer, Statuses
<1>5. o \in Sound
    BY <1>2, <1>3, <1>4 DEF Sound
<1> QED
    BY <1>5 DEF g, h, w, c, a, b

(* Each handler keeps the book.  MakeOffer adds to it, *)
LEMMA MakeOfferKeepsBook ==
    ASSUME BookInv, NEW u \in Users, NEW d \in Denoms, NEW shape \in Shapes,
           NEW liquid \in BOOLEAN, NEW p \in Coins, MakeOffer(u, d, shape, liquid, p)
    PROVE  BookInv'
<1> DEFINE i == Len(offers) + 1
<1>1. PICK o \in Sound : /\ o.status = "open"
                         /\ offers' = Append(offers, o)
                         /\ byDenom' = byDenom \cup {i}
                         /\ byStatus' = byStatus \cup {<<"open", i>>}
                         /\ byPrice' = byPrice \cup {<<OpenKey(o), i>>}
    BY NewOffer DEF MakeOffer
<1>2. offers \in Seq(Sound)
    BY DEF BookInv
<1>3. /\ offers' \in Seq(Sound) /\ DOMAIN offers' = DOMAIN offers \cup {i} /\ i \notin DOMAIN offers
      /\ offers'[i] = o
      /\ \A j \in DOMAIN offers : offers'[j] = offers[j]
    BY <1>1, <1>2
<1>4. Open' = Open \cup {i}
    BY <1>1, <1>3 DEF Open
<1> HIDE DEF i
<1>5. byStatus' = {<<offers'[j].status, j>> : j \in DOMAIN offers'}
    <2>1. byStatus = {<<offers[j].status, j>> : j \in DOMAIN offers}
        BY DEF BookInv, IndexExact
    <2> QED
        BY <1>1, <1>3, <2>1
<1>6. byPrice' = {<<OpenKey(offers'[j]), j>> : j \in Open'}
    <2> DEFINE Key(j) == OpenKey(offers'[j])
    <2>1. byPrice = {<<OpenKey(offers[j]), j>> : j \in Open}
        BY DEF BookInv, IndexExact
    <2>2. \A j \in Open : Key(j) = OpenKey(offers[j])
        BY <1>3 DEF Open
    <2>3. Key(i) = OpenKey(o)
        BY <1>3
    <2> HIDE DEF Key
    <2>4. byPrice = {<<Key(j), j>> : j \in Open}
        BY <2>1, <2>2
    <2>5. byPrice' = {<<Key(j), j>> : j \in Open'}
        BY <1>1, <1>4, <2>3, <2>4
    <2> QED
        BY <2>5 DEF Key
<1>7. Open' \subseteq byDenom' /\ byDenom' \subseteq DOMAIN offers'
    BY <1>1, <1>3, <1>4 DEF BookInv, IndexExact
<1> QED
    BY <1>3, <1>5, <1>6, <1>7 DEF BookInv, IndexExact

(* CancelOffer takes one offer out, *)
LEMMA CancelKeepsBook ==
    ASSUME BookInv, NEW v \in Users, NEW i \in DOMAIN offers, CancelOffer(v, i)
    PROVE  BookInv'
<1>1. offers \in Seq(Sound) /\ IndexExact
    BY DEF BookInv
<1>2. i \in Open /\ offers' = [offers EXCEPT ![i].status = "cancelled"] /\ Reindex({i}, "cancelled") /\ Asserted'
    BY DEF CancelOffer
<1> DEFINE o == [offers[i] EXCEPT !.status = "cancelled"]
<1>3. offers[i] \in Sound /\ offers[i] \in Offer
    BY <1>1 DEF Sound
<1>4. o \in Sound /\ o.status = "cancelled" /\ CloseKey(o) = CloseKey(offers[i])
    <2>1. o \in Offer /\ o.status = "cancelled" /\ o.unitHave = offers[i].unitHave
          /\ o.unitWant = offers[i].unitWant /\ o.liquid = offers[i].liquid
          /\ o.pfand = offers[i].pfand /\ o.have = offers[i].have
        BY <1>3 DEF Offer, Statuses
    <2> HIDE DEF o
    <2> QED
        BY <1>3, <2>1 DEF Sound, CloseKey
<1>5. offers' = [offers EXCEPT ![i] = o]
    BY <1>2
<1> HIDE DEF o
<1>6. offers' \in Seq(Sound) /\ DOMAIN offers' = DOMAIN offers /\ offers'[i] = o
      /\ \A j \in DOMAIN offers \ {i} : offers'[j] = offers[j]
    BY <1>1, <1>4, <1>5
<1>7. IndexExact' /\ byDenom' \subseteq DOMAIN offers'
    <2>1. /\ \A j \in {i} : offers'[j].status = "cancelled"
          /\ \A j \in DOMAIN offers \ {i} : offers'[j].status = offers[j].status
          /\ \A j \in DOMAIN offers : CloseKey(offers'[j]) = CloseKey(offers[j])
        BY <1>4, <1>6
    <2>2. {i} \in SUBSET Open
        BY <1>2
    <2>3. "cancelled" # "open" /\ Reindex({i}, "cancelled") /\ Asserted'
        BY <1>2
    <2> HIDE <1>5
    <2> QED
        BY <1>1, <1>6, <2>1, <2>2, <2>3, Reindexed
<1> QED
    BY <1>6, <1>7 DEF BookInv

(* A take is a number of units, that are there, of some open offers. *)
LEMMA TakeTypes ==
    ASSUME NEW t \in Takes, CanTake(t), offers \in Seq(Sound)
    PROVE  /\ DOMAIN t \subseteq Open
           /\ \A i \in DOMAIN t : t[i] \in Nat \ {0} /\ offers[i].units \in Nat /\ t[i] <= offers[i].units
           /\ Done(t) \subseteq DOMAIN t
<1>1. PICK S \in SUBSET Open : t \in [S -> UNION {1..offers[i].units : i \in S}]
    BY DEF Takes
<1>2. ASSUME NEW i \in S
      PROVE  t[i] \in Nat \ {0} /\ offers[i].units \in Nat /\ t[i] <= offers[i].units
    <2>1. PICK j \in S : t[i] \in 1..offers[j].units
        BY <1>1
    <2>2. \A k \in S : offers[k] \in Offer
        BY SoundOffers DEF Sound
    <2>3. \A k \in S : offers[k].units \in Nat
        BY <2>2 DEF Offer
    <2>4. t[i] <= offers[i].units
        BY <1>1 DEF CanTake
    <2> QED
        BY <2>1, <2>3, <2>4
<1> QED
    BY <1>1, <1>2 DEF Done

\* what a trade leaves of an offer it takes
LeftOf(t, i) == [offers[i] EXCEPT !.units = @ - t[i],
                                  !.status = IF i \in Done(t) THEN "closed" ELSE "open"]

(* The offers after a trade: of those taken there are fewer units, and none of those it is done with. *)
LEMMA OffersAfter ==
    ASSUME BookInv, NEW u \in Users, NEW t \in Takes, CanTake(t), NEW route \in Routes,
           MakeTrade(u, t, route)
    PROVE  /\ offers' \in Seq(Sound) /\ DOMAIN offers' = DOMAIN offers
           /\ \A i \in DOMAIN offers \ DOMAIN t : offers'[i] = offers[i]
           /\ \A i \in DOMAIN t : offers'[i] = LeftOf(t, i)
<1>1. offers \in Seq(Sound)
    BY DEF BookInv
<1>2. DOMAIN offers = 1..Len(offers) /\ Len(offers) \in Nat /\ \A i \in DOMAIN offers : offers[i] \in Sound
    BY <1>1, SoundOffers
<1> DEFINE new(i) == [offers[i] EXCEPT !.units = @ - t[i],
                                       !.status = IF i \in Done(t) THEN "closed" ELSE "open"]
           after(i) == IF i \notin DOMAIN t THEN offers[i] ELSE new(i)
<1>3. offers' = [i \in DOMAIN offers |-> after(i)]
    BY DEF MakeTrade
<1>4. ASSUME NEW i \in DOMAIN t PROVE new(i) \in Sound
    <2> DEFINE o == offers[i]
               n == o.units - t[i]
               st == IF i \in Done(t) THEN "closed" ELSE "open"
               q == [o EXCEPT !.units = n, !.status = st]
    <2>1. i \in DOMAIN offers /\ t[i] \in Nat \ {0} /\ o.units \in Nat /\ t[i] <= o.units
        BY <1>1, TakeTypes, SoundOffers
    <2>2. o \in Sound /\ o \in Offer
        BY <1>2, <2>1 DEF Sound
    <2>3. n \in Nat /\ (st = "open" => n > 0) /\ st \in Statuses
        BY <2>1 DEF Done, Statuses
    <2>4. new(i) = q
        OBVIOUS
    <2> HIDE DEF o, n, st
    <2>5. q \in Offer /\ q.units = n /\ q.status = st /\ q.unitHave = o.unitHave
          /\ q.unitWant = o.unitWant /\ q.liquid = o.liquid /\ q.pfand = o.pfand
        BY <2>2, <2>3 DEF Offer
    <2> HIDE DEF q, new
    <2>6. q \in Sound
        BY <2>2, <2>3, <2>5 DEF Sound
    <2> QED
        BY <2>4, <2>6
<1>5. \A i \in DOMAIN offers : after(i) \in Sound
    BY <1>2, <1>4
<1>6. \A i \in DOMAIN t : i \in DOMAIN offers
    BY <1>1, TakeTypes, SoundOffers
<1> HIDE DEF new
<1>7. /\ \A i \in DOMAIN offers \ DOMAIN t : offers'[i] = offers[i]
      /\ \A i \in DOMAIN t : offers'[i] = new(i)
    BY <1>3, <1>6
<1> HIDE DEF after
<1>8. offers' \in Seq(Sound) /\ DOMAIN offers' = DOMAIN offers
    BY <1>2, <1>3, <1>5
<1> QED
    BY <1>7, <1>8 DEF new, LeftOf

(* MakeTrade takes out the ones it is done with, *)
LEMMA TradeKeepsBook ==
    ASSUME BookInv, NEW u \in Users, NEW t \in Takes, CanTake(t), NEW route \in Routes,
           MakeTrade(u, t, route)
    PROVE  BookInv'
<1>1. offers \in Seq(Sound) /\ IndexExact
    BY DEF BookInv
<1>2. Reindex(Done(t), "closed") /\ Asserted'
    BY DEF MakeTrade
<1>3. DOMAIN t \subseteq Open /\ Done(t) \subseteq DOMAIN t /\ Open \subseteq DOMAIN offers
    BY <1>1, TakeTypes, SoundOffers
<1>4. \A i \in DOMAIN offers : offers[i] \in Offer
    BY <1>1, SoundOffers DEF Sound
<1>5. offers' \in Seq(Sound) /\ DOMAIN offers' = DOMAIN offers
    BY OffersAfter
<1>10. ASSUME NEW i \in DOMAIN t
       PROVE  /\ offers'[i].status = IF i \in Done(t) THEN "closed" ELSE "open"
              /\ offers'[i].have = offers[i].have
              /\ offers'[i].unitHave = offers[i].unitHave /\ offers'[i].unitWant = offers[i].unitWant
    <2> DEFINE o == offers[i]
               q == offers'[i]
               st == IF i \in Done(t) THEN "closed" ELSE "open"
    <2>1. o \in Offer
        BY <1>3, <1>4, <1>10
    <2>2. q = [o EXCEPT !.units = @ - t[i], !.status = st]
        <3>1. offers'[i] = LeftOf(t, i)
            BY <1>10, OffersAfter
        <3> QED
            BY <3>1 DEF LeftOf
    <2> HIDE DEF o, q, st
    <2>3. q.status = st /\ q.have = o.have /\ q.unitHave = o.unitHave /\ q.unitWant = o.unitWant
        BY <2>1, <2>2 DEF Offer
    <2> QED
        BY <2>3 DEF o, q, st
<1>6. \A i \in Done(t) : offers'[i].status = "closed"
    BY <1>3, <1>10
<1>7. ASSUME NEW i \in DOMAIN offers \ Done(t) PROVE offers'[i].status = offers[i].status
    <2>1. CASE i \in DOMAIN t
        <3>1. offers'[i].status = "open"
            BY <1>7, <1>10, <2>1
        <3> QED
            BY <1>3, <2>1, <3>1 DEF Open
    <2>2. CASE i \notin DOMAIN t
        BY <2>2, OffersAfter
    <2> QED
        BY <2>1, <2>2
<1>8. ASSUME NEW i \in DOMAIN offers PROVE CloseKey(offers'[i]) = CloseKey(offers[i])
    <2>1. CASE i \in DOMAIN t
        <3>1. /\ offers'[i].have = offers[i].have
              /\ offers'[i].unitHave = offers[i].unitHave /\ offers'[i].unitWant = offers[i].unitWant
            BY <1>10, <2>1
        <3> QED
            BY <3>1 DEF CloseKey
    <2>2. CASE i \notin DOMAIN t
        BY <2>2, OffersAfter
    <2> QED
        BY <2>1, <2>2
<1>9. IndexExact' /\ byDenom' \subseteq DOMAIN offers'
    <2>1. "closed" # "open" /\ Done(t) \in SUBSET Open
        BY <1>3
    <2> QED
        BY <1>1, <1>2, <1>5, <1>6, <1>7, <1>8, <2>1, Reindexed
<1> QED
    BY <1>5, <1>9 DEF BookInv

(* and an import writes it anew. *)
LEMMA ImportKeepsBook ==
    ASSUME BookInv, ExportImport
    PROVE  BookInv'
<1>1. offers' = offers /\ Open' = Open
    BY DEF ExportImport, Open
<1>2. IndexExact'
    BY <1>1, SoundOffers DEF ExportImport, IndexExact, BookInv
<1> QED
    BY <1>1, <1>2 DEF ExportImport, BookInv

(* The invariant of the book holds at first and is kept by every step. *)
LEMMA BookInductive ==
    /\ Init => BookInv
    /\ BookInv /\ [Next]_vars => BookInv'
<1>1. ASSUME Init PROVE BookInv
    <2>1. offers = <<>> /\ DOMAIN offers = {} /\ offers \in Seq(Sound)
        BY <1>1 DEF Init
    <2> QED
        BY <1>1, <2>1 DEF Init, BookInv, IndexExact, Open
<1>2. ASSUME BookInv, UNCHANGED <<offers, index>> PROVE BookInv'
    BY <1>2 DEF index, BookInv, IndexExact, Open
<1>3. ASSUME BookInv, Next PROVE BookInv'
    <2>1. ASSUME NEW u \in Users, PoolMessage(u), UNCHANGED <<offers, index, trades>> PROVE BookInv'
        BY <1>2, <1>3, <2>1
    <2>2. ASSUME NEW u \in Users, NEW d \in Denoms, NEW s \in Shapes, MakeOffer(u, d, s, FALSE, Nil)
          PROVE  BookInv'
        BY <1>3, <2>2, Nil \in Coins, MakeOfferKeepsBook DEF Nil, Coins
    <2>3. ASSUME NEW u \in Users, NEW d \in Denoms, NEW s \in Shapes, NEW p \in Pfands,
                 MakeOffer(u, d, s, TRUE, p)
          PROVE  BookInv'
        BY <1>3, <2>3, OfferAssumption, MakeOfferKeepsBook
    <2>4. ASSUME NEW u \in Users, NEW i \in DOMAIN offers, CancelOffer(u, i) PROVE BookInv'
        BY <1>3, <2>4, CancelKeepsBook
    <2>5. ASSUME NEW u \in Users, NEW r \in Routes, NEW t \in Takes, CanTake(t), MakeTrade(u, t, r)
          PROVE  BookInv'
        BY <1>3, <2>5, TradeKeepsBook
    <2>6. ASSUME ExportImport PROVE BookInv'
        BY <1>3, <2>6, ImportKeepsBook
    <2> QED
        BY <1>3, <2>1, <2>2, <2>3, <2>4, <2>5, <2>6 DEF Next
<1> QED
    BY <1>1, <1>2, <1>3 DEF vars

(* The book by price and the one by status agree with the offers, whatever is made, taken in parts, *)
(* cancelled, exported and imported. *)
THEOREM BookIsExact == Spec => []IndexExact
<1>1. BookInv => IndexExact
    BY DEF BookInv
<1> QED
    BY <1>1, BookInductive, PTL DEF Spec

-----------------------------------------------------------------------------
(* Routes of swaps *)

(* Induction over an interval, with a set for the predicate. *)
LEMMA UpTo ==
    ASSUME NEW n \in Nat, NEW T \in SUBSET (0..n), 0 \in T,
           \A k \in 1..n : k - 1 \in T => k \in T
    PROVE  \A k \in 0..n : k \in T
<1> DEFINE Bad == (0..n) \ T
<1>1. SUFFICES ASSUME Bad # {} PROVE FALSE
    OBVIOUS
<1>2. Bad \in SUBSET Nat
    OBVIOUS
<1>3. PICK m \in Bad : \A k \in Bad : m <= k
    <2> HIDE DEF Bad
    <2> QED
        BY <1>1, <1>2, LeastNat
<1>4. m \in 1..n /\ m - 1 \in 0..n /\ m - 1 \notin Bad
    BY <1>3
<1> QED
    BY <1>3, <1>4

Start == [ok |-> TRUE, coins |-> pool.coins, delta |-> Nil, chained |-> Nil]
IsRoute(route, n, s) ==
    s = [k \in 0..n |-> IF k = 0 THEN Start ELSE After(s[k-1], route[k])]

\* what is known between two swaps
Swapping == {s \in [ok: BOOLEAN, coins: PosCoins, delta: Ints, chained: Coins] :
                \A d \in Denoms : s.delta[d] = s.coins[d] - pool.coins[d]}

(* Routes of any length have their prefixes computed. *)
LEMMA RouteExists ==
    ASSUME NEW route \in Seq(Leg)
    PROVE  \E s : IsRoute(route, Len(route), s)
<1> DEFINE n == Len(route)
           T == {k \in 0..n : \E s : IsRoute(route, k, s)}
<1>1. n \in Nat
    OBVIOUS
<1>2. 0 \in T
    <2> DEFINE s == [k \in 0..0 |-> Start]
    <2>1. s = [k \in 0..0 |-> IF k = 0 THEN Start ELSE After(s[k-1], route[k])]
        OBVIOUS
    <2>2. IsRoute(route, 0, s)
        BY <2>1 DEF IsRoute
    <2> QED
        BY <1>1, <2>2
<1>3. ASSUME NEW m \in 1..n, m - 1 \in T PROVE m \in T
    <2>1. PICK h : IsRoute(route, m-1, h)
        BY <1>3
    <2> DEFINE s == [k \in 0..m |-> IF k = m THEN After(h[m-1], route[m]) ELSE h[k]]
    <2>2. ASSUME NEW k \in 0..m
          PROVE  s[k] = IF k = 0 THEN Start ELSE After(s[k-1], route[k])
        <3>1. CASE k = m
            <4>1. s[k] = After(h[m-1], route[m]) /\ s[m-1] = h[m-1] /\ m # 0
                BY <3>1
            <4> QED
                BY <3>1, <4>1
        <3>2. CASE k # m
            <4>1. k \in 0..(m-1)
                BY <3>2
            <4>2. h[k] = IF k = 0 THEN Start ELSE After(h[k-1], route[k])
                BY <2>1, <4>1 DEF IsRoute
            <4>3. s[k] = h[k] /\ (k # 0 => s[k-1] = h[k-1])
                BY <3>2, <4>1
            <4> HIDE DEF s
            <4> QED
                BY <4>2, <4>3
        <3> QED
            BY <3>1, <3>2
    <2>3. s = [k \in 0..m |-> s[k]]
        OBVIOUS
    <2> HIDE DEF s
    <2>4. IsRoute(route, m, s)
        BY <2>2, <2>3 DEF IsRoute
    <2> QED
        BY <2>4
<1> HIDE DEF n
<1>4. T \in SUBSET (0..n)
    OBVIOUS
<1> HIDE DEF T
<1>5. \A k \in 1..n : k - 1 \in T => k \in T
    BY <1>3
<1>6. \A k \in 0..n : k \in T
    BY <1>1, <1>2, <1>4, <1>5, UpTo
<1>7. n \in T
    BY <1>1, <1>6
<1> QED
    BY <1>7 DEF T, n

(* A swap leaves reserves of both coins, and gives the module's account what they grew by. *)
LEMMA AfterTypes ==
    ASSUME PoolInv, pool # NoPool, NEW s \in Swapping, NEW leg \in Leg
    PROVE  After(s, leg) \in Swapping
<1> DEFINE d == leg.denom
           e == Other(d)
           n == IF leg.kind = "swap_in" /\ leg.amount = 0 THEN s.chained[d] ELSE leg.amount
           out == IF leg.kind = "swap_in" THEN ExactIn(s.coins, d, n) ELSE n
           in == IF leg.kind = "swap_in" THEN n ELSE ExactOut(s.coins, d, n)
           c == Swapped(s.coins, d, in, out)
           f == [s.delta EXCEPT ![d] = @ + in, ![e] = @ - out]
           h == [s.chained EXCEPT ![e] = out]
           r == [ok |-> TRUE, coins |-> c, delta |-> f, chained |-> h]
           failed == ~s.ok \/ n = 0 \/ out <= 0 \/ out >= s.coins[e]
<1>1. /\ s.ok \in BOOLEAN /\ s.coins \in PosCoins /\ s.delta \in Ints /\ s.chained \in Coins
      /\ s = [ok |-> s.ok, coins |-> s.coins, delta |-> s.delta, chained |-> s.chained]
      /\ \A x \in Denoms : s.delta[x] = s.coins[x] - pool.coins[x]
    BY DEF Swapping
<1>2. d \in Denoms /\ leg.amount \in Nat
    BY DEF Leg
<1>3. e \in Denoms /\ e # d /\ \A x \in Denoms : x = d \/ x = e
    BY <1>2, OtherDenom DEF Other, Denoms
<1> HIDE DEF d, e
<1>4. n \in Nat
    BY <1>1, <1>2 DEF Coins
<1>5. After(s, leg) = IF failed THEN [s EXCEPT !.ok = FALSE] ELSE r
    BY DEF After, d, e
<1>6. CASE failed
    <2>1. After(s, leg) = [s EXCEPT !.ok = FALSE]
        BY <1>5, <1>6
    <2> QED
        BY <1>1, <2>1 DEF Swapping
<1>7. CASE ~failed
    <2>1. out \in Nat /\ out < s.coins[e] /\ in \in Nat
        <3>1. CASE leg.kind = "swap_in"
            <4>1. ExactIn(s.coins, d, n) \in Int /\ ExactIn(s.coins, d, n) < s.coins[e]
                BY <1>1, <1>2, <1>4, SwapInBelow DEF e
            <4> QED
                BY <1>4, <1>7, <3>1, <4>1
        <3>2. CASE leg.kind # "swap_in"
            <4>1. s.coins[e] \in Nat
                BY <1>1, <1>3 DEF PosCoins
            <4>2. n < s.coins[e]
                BY <1>4, <1>7, <3>2, <4>1
            <4>3. ExactOut(s.coins, d, n) \in Nat
                BY <1>1, <1>2, <1>4, <4>2, SwapOutNat DEF e
            <4> QED
                BY <1>4, <3>2, <4>2, <4>3
        <3> QED
            BY <3>1, <3>2
    <2> HIDE DEF n, out, in
    <2>2. c \in PosCoins
        BY <1>1, <1>2, <2>1, SwappedPos DEF e
    <2>3. f \in Ints /\ h \in Coins
        BY <1>1, <1>2, <1>3, <2>1 DEF Ints, Coins
    <2>4. pool.coins \in PosCoins
        BY DEF PoolInv, Pool, PosCoins
    <2>5. ASSUME NEW x \in Denoms PROVE f[x] = c[x] - pool.coins[x]
        <3>1. /\ s.coins[x] \in Int /\ pool.coins[x] \in Int /\ s.delta[x] \in Int
              /\ s.delta[x] = s.coins[x] - pool.coins[x]
            BY <1>1, <2>4 DEF PosCoins, Ints
        <3>2. CASE x = d
            <4>1. c[x] = s.coins[x] + in /\ f[x] = s.delta[x] + in
                BY <1>1, <1>2, <1>3, <3>2 DEF Swapped, PosCoins, Ints, e
            <4> HIDE DEF c, f
            <4> QED
                BY <2>1, <3>1, <4>1
        <3>3. CASE x = e
            <4>1. c[x] = s.coins[x] - out /\ f[x] = s.delta[x] - out
                BY <1>1, <1>2, <1>3, <3>3 DEF Swapped, PosCoins, Ints, e
            <4> HIDE DEF c, f
            <4> QED
                BY <2>1, <3>1, <4>1
        <3> QED
            BY <1>3, <3>2, <3>3
    <2> HIDE DEF c, f, h
    <2>6. r \in Swapping
        BY <2>2, <2>3, <2>5 DEF Swapping
    <2> QED
        BY <1>5, <1>7, <2>6
<1> QED
    BY <1>6, <1>7

(* So do all swaps of a route. *)
LEMMA SwapsTypes ==
    ASSUME PoolInv, pool # NoPool, NEW route \in Seq(Leg)
    PROVE  Swaps(route) \in Swapping
<1> DEFINE n == Len(route)
           s == CHOOSE h : IsRoute(route, n, h)
<1>1. Swaps(route) = s[n]
    BY DEF Swaps, IsRoute, Start
<1>2. IsRoute(route, n, s)
    BY RouteExists
<1>3. n \in Nat /\ \A k \in 1..n : route[k] \in Leg
    OBVIOUS
<1> HIDE DEF s, n
<1> DEFINE T == {k \in 0..n : s[k] \in Swapping}
<1>4. 0 \in T
    <2>1. s[0] = Start
        BY <1>2, <1>3 DEF IsRoute
    <2>2. pool.coins \in PosCoins /\ Nil \in Coins /\ Nil \in Ints
        BY DEF PoolInv, Pool, PosCoins, Nil, Coins, Ints
    <2>3. \A d \in Denoms : Nil[d] = pool.coins[d] - pool.coins[d]
        BY <2>2 DEF Nil, PosCoins
    <2>4. Start \in Swapping
        BY <2>2, <2>3 DEF Start, Swapping
    <2> QED
        BY <1>3, <2>1, <2>4
<1>5. ASSUME NEW k \in 1..n, k - 1 \in T PROVE k \in T
    <2>1. s[k] = After(s[k-1], route[k])
        BY <1>2, <1>3 DEF IsRoute
    <2> QED
        BY <1>3, <1>5, <2>1, AfterTypes
<1>6. n \in T
    <2>1. T \in SUBSET (0..n)
        OBVIOUS
    <2>2. \A k \in 1..n : k - 1 \in T => k \in T
        BY <1>5
    <2>3. n \in Nat
        BY <1>3
    <2> HIDE DEF T
    <2>4. \A k \in 0..n : k \in T
        BY <1>4, <2>1, <2>2, <2>3, UpTo
    <2> QED
        BY <2>3, <2>4
<1> QED
    BY <1>1, <1>6

-----------------------------------------------------------------------------
(* Settlement, in one denom *)

(* What is paid in and out before the netting, of what liquid offers of the trader (own) and of    *)
(* others (lent) give and offers in escrow (held), the deposits set free, what is asked by other   *)
(* makers, and n, which the swaps leave with the pool.                                             *)
InRow(own, lent, held, freed, n) ==
    Row(own + (IF n > 0 THEN n ELSE 0), held + freed + (IF n < 0 THEN -n ELSE 0), lent)
OutRow(own, lent, held, freed, asked, n) ==
    Row((own + lent + held) + freed + (IF n < 0 THEN -n ELSE 0), IF n > 0 THEN n ELSE 0, asked)

\* rows that MakeTrade settles, and what they come to
Matched(r, balance) == r.covered = TRUE /\ Sum3(r.in) = Sum3(r.out) /\ r.in.trader <= balance
PaidUp(r, lent, held, freed, asked, n) ==
    /\ r.in.trader \in Nat /\ r.out.trader \in Nat
    /\ r.out.makers = asked /\ r.in.makers = lent
    /\ r.in.trader + r.in.makers - r.out.trader - r.out.makers = n - held - freed

(* However the rows are netted: when what is left of them is covered, equal, and there, then no    *)
(* maker is paid less than asked, and the module's account gets what the swaps leave with the pool *)
(* less what it paid for offers in escrow and for deposits.                                        *)
LEMMA Netting ==
    ASSUME NEW own \in Nat, NEW lent \in Nat, NEW held \in Nat, NEW freed \in Nat,
           NEW asked \in Nat, NEW n \in Int, NEW balance \in Nat,
           NEW r, r = Settled(InRow(own, lent, held, freed, n),
                              OutRow(own, lent, held, freed, asked, n), balance),
           Matched(r, balance)
    PROVE  PaidUp(r, lent, held, freed, asked, n)
<1> DEFINE in0 == InRow(own, lent, held, freed, n)
           out0 == OutRow(own, lent, held, freed, asked, n)
           in == Covered(in0, out0, balance)
           out == Reduced(in0, out0)
           k == Lower(in.trader, out.trader)
           i == SelfNet(in, k)
           o == SelfNet(out, k)
<1>0. r.in = i /\ r.out = o /\ Sum3(out) <= Sum3(in) /\ Sum3(i) = Sum3(o) /\ i.trader <= balance
    <2>1. r = [covered |-> Sum3(out) <= Sum3(in), in |-> i, out |-> o]
        BY DEF Settled
    <2> DEFINE b == Sum3(out) <= Sum3(in)
    <2> HIDE DEF i, o, b
    <2>2. r = [covered |-> b, in |-> i, out |-> o]
        BY <2>1 DEF b
    <2>3. r.in = i /\ r.out = o
        BY <2>2
    <2>4. r.covered = b
        BY <2>2
    <2>5. b
        BY <2>4 DEF Matched
    <2> QED
        BY <2>3, <2>5 DEF b, Matched
<1> DEFINE pos == IF n > 0 THEN n ELSE 0
           neg == IF n < 0 THEN -n ELSE 0
           paid == own + pos
           kept == held + freed + neg
           got == (own + lent + held) + freed + neg
           net == Lower(got, asked)
           cover == Lower(asked - net, balance)
           p == paid + cover
           g == got - net
           a == IF kept + lent = 0 THEN asked - net ELSE asked
<1>1. /\ pos \in Nat /\ neg \in Nat /\ n = pos - neg /\ (pos = 0 \/ neg = 0)
      /\ paid \in Nat /\ kept \in Nat /\ got \in Nat
    OBVIOUS
<1>2. in0 = Row(paid, kept, lent) /\ out0 = Row(got, pos, asked)
    BY DEF InRow, OutRow
<1>3. net \in Nat /\ net <= got /\ net <= asked /\ (net = got \/ net = asked)
    BY <1>1 DEF Lower
<1>4. cover \in Nat /\ cover <= asked - net /\ cover <= balance /\ (cover = asked - net \/ cover = balance)
    BY <1>3 DEF Lower
<1>5. kept = held + freed + neg /\ got = own + lent + kept /\ paid = own + pos
    OBVIOUS
<1> HIDE DEF pos, neg, paid, kept, got
<1> HIDE DEF in0, out0
<1>6. Netted(out0) = net
    BY <1>2 DEF Netted, Row
<1>7. in = Row(p, kept, lent)
    BY <1>2, <1>6 DEF Covered, Row
<1>8. out = Row(g, pos, a)
    BY <1>2, <1>6 DEF Reduced, Row
<1> HIDE DEF net, cover, in, out
<1>9. p \in Nat /\ g \in Nat /\ a \in Nat
    BY <1>1, <1>3, <1>4
<1>10. k \in Nat /\ k <= p /\ k <= g /\ (k = p \/ k = g)
    BY <1>7, <1>8, <1>9 DEF Lower, Row
<1> HIDE DEF k
<1> DEFINE ik == IF kept > 0 THEN kept - k ELSE kept
           ok == IF pos > 0 THEN pos - k ELSE pos
<1>11. i = Row(p - k, ik, lent) /\ o = Row(g - k, ok, a)
    BY <1>7, <1>8 DEF SelfNet, Row
<1>12. /\ (p - k) + ik + lent = (g - k) + ok + a
       /\ g + pos + a <= p + kept + lent
       /\ balance >= p - k
    <2> HIDE DEF i, o, p, g, a, ik, ok
    <2>1. i.trader = p - k /\ Sum3(i) = (p - k) + ik + lent /\ Sum3(o) = (g - k) + ok + a
        BY <1>11 DEF Sum3, Row
    <2>2. Sum3(out) = g + pos + a /\ Sum3(in) = p + kept + lent
        BY <1>7, <1>8 DEF Sum3, Row
    <2> QED
        BY <1>0, <1>9, <1>10, <2>1, <2>2
<1>13. p = paid + cover /\ g = got - net /\ a = IF kept + lent = 0 THEN asked - net ELSE asked
    OBVIOUS
<1> HIDE DEF p, g, a
<1>14. a = asked /\ (p - k) + lent + (-(g - k)) + (-a) = n + (-held) + (-freed)
    <2>1. CASE kept > 0
        <3>1. a = asked /\ cover = asked - net
            BY <1>1, <1>3, <1>4, <1>5, <1>9, <1>12, <1>13, <2>1
        <3>2. CASE pos > 0
            BY <1>1, <1>3, <1>4, <1>5, <1>9, <1>10, <1>12, <1>13, <2>1, <3>1, <3>2
        <3>3. CASE pos = 0
            BY <1>1, <1>3, <1>4, <1>5, <1>9, <1>10, <1>12, <1>13, <2>1, <3>1, <3>3
        <3> QED
            BY <1>1, <3>2, <3>3
    <2>2. CASE kept = 0 /\ lent > 0
        <3>1. a = asked /\ cover = asked - net
            BY <1>1, <1>3, <1>4, <1>5, <1>9, <1>12, <1>13, <2>2
        <3>2. CASE pos > 0
            BY <1>1, <1>3, <1>4, <1>5, <1>9, <1>10, <1>12, <1>13, <2>2, <3>1, <3>2
        <3>3. CASE pos = 0
            BY <1>1, <1>3, <1>4, <1>5, <1>9, <1>10, <1>12, <1>13, <2>2, <3>1, <3>3
        <3> QED
            BY <1>1, <3>2, <3>3
    <2>3. CASE kept = 0 /\ lent = 0
        <3>1. a = asked - net /\ got = own /\ held = 0 /\ freed = 0 /\ neg = 0
            BY <1>1, <1>5, <1>13, <2>3
        <3>2. net = 0
            <4>1. CASE pos > 0
                BY <1>1, <1>3, <1>4, <1>5, <1>9, <1>10, <1>12, <1>13, <2>3, <3>1, <4>1
            <4>2. CASE pos = 0
                BY <1>1, <1>3, <1>4, <1>5, <1>9, <1>10, <1>12, <1>13, <2>3, <3>1, <4>2
            <4> QED
                BY <1>1, <4>1, <4>2
        <3>3. CASE pos > 0
            BY <1>1, <1>3, <1>4, <1>5, <1>9, <1>10, <1>12, <1>13, <2>3, <3>1, <3>2, <3>3
        <3>4. CASE pos = 0
            BY <1>1, <1>3, <1>4, <1>5, <1>9, <1>10, <1>12, <1>13, <2>3, <3>1, <3>2, <3>4
        <3> QED
            BY <1>1, <3>3, <3>4
    <2> QED
        BY <1>1, <2>1, <2>2, <2>3
<1>15. i.trader = p - k /\ i.makers = lent /\ o.trader = g - k /\ o.makers = a
    BY <1>11 DEF Row
<1>16. i.trader \in Nat /\ o.trader \in Nat
    BY <1>9, <1>10, <1>15
<1> HIDE DEF i, o
<1> QED
    BY <1>0, <1>9, <1>14, <1>15, <1>16 DEF PaidUp

-----------------------------------------------------------------------------
(* What a take amounts to *)

GivenF(t, d) == [i \in DOMAIN t |-> Given(offers[i], t[i])[d]]
AskedF(t, d) == [i \in DOMAIN t |-> Asked(offers[i], t[i])[d]]
FreedF(t, d) == [i \in DOMAIN t |-> offers[i].pfand[d]]

(* The amounts of a take are natural numbers, of offers that have the units. *)
LEMMA TakeAmounts ==
    ASSUME offers \in Seq(Sound), NEW t \in Takes, CanTake(t), NEW d \in Denoms
    PROVE  /\ IsFiniteSet(DOMAIN t)
           /\ \A i \in DOMAIN t : /\ GivenF(t, d)[i] \in Nat /\ GivenF(t, d)[i] = Given(offers[i], t[i])[d]
                                   /\ AskedF(t, d)[i] \in Nat /\ AskedF(t, d)[i] = Asked(offers[i], t[i])[d]
                                   /\ FreedF(t, d)[i] \in Nat /\ FreedF(t, d)[i] = offers[i].pfand[d]
                                   /\ offers[i] \in Sound /\ offers[i] \in Offer /\ t[i] \in Nat
                                   /\ offers[i].units \in Nat /\ t[i] <= offers[i].units
<1>1. IsFiniteSet(DOMAIN offers)
    BY SoundOffers, FS_Interval, 1 \in Int
<1>2. DOMAIN t \subseteq DOMAIN offers
    BY TakeTypes, SoundOffers
<1>3. ASSUME NEW i \in DOMAIN t
      PROVE  /\ GivenF(t, d)[i] \in Nat /\ GivenF(t, d)[i] = Given(offers[i], t[i])[d]
             /\ AskedF(t, d)[i] \in Nat /\ AskedF(t, d)[i] = Asked(offers[i], t[i])[d]
             /\ FreedF(t, d)[i] \in Nat /\ FreedF(t, d)[i] = offers[i].pfand[d]
             /\ offers[i] \in Sound /\ offers[i] \in Offer /\ t[i] \in Nat
             /\ offers[i].units \in Nat /\ t[i] <= offers[i].units
    <2>1. offers[i] \in Sound /\ offers[i] \in Offer
        BY <1>2, SoundOffers DEF Sound
    <2>2. t[i] \in Nat /\ offers[i].units \in Nat /\ t[i] <= offers[i].units
        BY TakeTypes
    <2>3. /\ offers[i].have \in Denoms /\ offers[i].unitHave \in Nat /\ offers[i].unitWant \in Nat
          /\ offers[i].pfand \in Coins
        BY <2>1 DEF Offer
    <2>4. t[i] * offers[i].unitHave \in Nat /\ t[i] * offers[i].unitWant \in Nat
        BY <2>2, <2>3, MulNat
    <2>5. Given(offers[i], t[i]) \in Coins /\ Asked(offers[i], t[i]) \in Coins
        BY <2>3, <2>4, OneCoins, OtherDenom DEF Given, Asked
    <2>6. Given(offers[i], t[i])[d] \in Nat /\ Asked(offers[i], t[i])[d] \in Nat /\ offers[i].pfand[d] \in Nat
        BY <2>3, <2>5 DEF Coins
    <2> QED
        BY <2>1, <2>2, <2>6 DEF GivenF, AskedF, FreedF
<1> QED
    BY <1>1, <1>2, <1>3, FS_Subset

(* The sums over a part of what is taken, all natural numbers. *)
LEMMA TakeSums ==
    ASSUME offers \in Seq(Sound), NEW t \in Takes, CanTake(t), NEW d \in Denoms,
           NEW S \in SUBSET (DOMAIN t)
    PROVE  /\ GivenOf(t, d, S) = SumFunctionOnSet(GivenF(t, d), S) /\ GivenOf(t, d, S) \in Nat
           /\ AskedOf(t, d, S) = SumFunctionOnSet(AskedF(t, d), S) /\ AskedOf(t, d, S) \in Nat
<1>1. IsFiniteSet(S)
    BY TakeAmounts, FS_Subset
<1> DEFINE f == [i \in S |-> Given(offers[i], t[i])[d]]
           g == [i \in S |-> Asked(offers[i], t[i])[d]]
<1>2. GivenOf(t, d, S) = SumFunctionOnSet(f, S) /\ AskedOf(t, d, S) = SumFunctionOnSet(g, S)
    <2>1. DOMAIN f = S /\ DOMAIN g = S
        OBVIOUS
    <2>2. GivenOf(t, d, S) = SumFunction(f) /\ AskedOf(t, d, S) = SumFunction(g)
        BY DEF GivenOf, AskedOf
    <2>3. SumFunction(f) = SumFunctionOnSet(f, DOMAIN f) /\ SumFunction(g) = SumFunctionOnSet(g, DOMAIN g)
        BY DEF SumFunction
    <2> HIDE DEF f, g
    <2> QED
        BY <2>1, <2>2, <2>3
<1>3. \A i \in S : /\ f[i] = GivenF(t, d)[i] /\ GivenF(t, d)[i] \in Nat
                    /\ g[i] = AskedF(t, d)[i] /\ AskedF(t, d)[i] \in Nat
    BY TakeAmounts
<1> HIDE DEF f, g
<1>4. /\ SumFunctionOnSet(f, S) = SumFunctionOnSet(GivenF(t, d), S)
      /\ SumFunctionOnSet(g, S) = SumFunctionOnSet(AskedF(t, d), S)
    BY <1>1, <1>3, SameValuesSameSum
<1>5. SumFunctionOnSet(GivenF(t, d), S) \in Nat /\ SumFunctionOnSet(AskedF(t, d), S) \in Nat
    BY <1>1, <1>3, SumIsNat
<1> QED
    BY <1>2, <1>4, <1>5

(* The deposits set free are a sum over the offers that are used up. *)
LEMMA FreedSum ==
    ASSUME offers \in Seq(Sound), NEW t \in Takes, CanTake(t), NEW d \in Denoms
    PROVE  Freed(t, d) = SumFunctionOnSet(FreedF(t, d), Done(t)) /\ Freed(t, d) \in Nat
<1> DEFINE S == Done(t)
           f == [i \in S |-> offers[i].pfand[d]]
<1>0. S \in SUBSET (DOMAIN t)
    BY TakeTypes
<1>1. IsFiniteSet(S)
    BY <1>0, TakeAmounts, FS_Subset
<1>2. Freed(t, d) = SumFunctionOnSet(f, S)
    <2>1. DOMAIN f = S
        OBVIOUS
    <2>2. Freed(t, d) = SumFunction(f)
        BY DEF Freed
    <2>3. SumFunction(f) = SumFunctionOnSet(f, DOMAIN f)
        BY DEF SumFunction
    <2> HIDE DEF f, S
    <2> QED
        BY <2>1, <2>2, <2>3
<1>3. \A i \in S : f[i] = FreedF(t, d)[i] /\ FreedF(t, d)[i] \in Nat
    BY <1>0, TakeAmounts
<1> HIDE DEF f
<1>4. SumFunctionOnSet(f, S) = SumFunctionOnSet(FreedF(t, d), S)
    BY <1>1, <1>3, SameValuesSameSum
<1>5. SumFunctionOnSet(FreedF(t, d), S) \in Nat
    BY <1>1, <1>3, SumIsNat
<1> QED
    BY <1>2, <1>4, <1>5

(* What is given is given by the trader, by others, or out of the escrow. *)
LEMMA GivenByAll ==
    ASSUME offers \in Seq(Sound), NEW t \in Takes, CanTake(t), NEW d \in Denoms, NEW u \in Users
    PROVE  /\ GivenOf(t, d, DOMAIN t) = GivenOf(t, d, Liquid(t, {u})) + GivenOf(t, d, Liquid(t, Makers(u)))
                                         + GivenOf(t, d, Escrowed(t))
           /\ GivenOf(t, d, Liquid(t, {u})) \in Nat /\ GivenOf(t, d, Liquid(t, Makers(u))) \in Nat
           /\ GivenOf(t, d, Escrowed(t)) \in Nat /\ AskedOf(t, d, OffersOf(t, Makers(u))) \in Nat
<1> DEFINE D == DOMAIN t
           E == Escrowed(t)
           L == Liquid(t, {u})
           M == Liquid(t, Makers(u))
           f == GivenF(t, d)
           R == D \ E
<1>1. E \in SUBSET D /\ L \in SUBSET D /\ M \in SUBSET D /\ R \in SUBSET D
      /\ OffersOf(t, Makers(u)) \in SUBSET D /\ D \in SUBSET D
    BY DEF Escrowed, Liquid, OffersOf
<1>2. \A i \in D : offers[i].maker \in Users
    BY TakeAmounts DEF Offer
<1>3. L \in SUBSET R /\ R \ L = M
    BY <1>2 DEF Escrowed, Liquid, OffersOf, Makers
<1>4. IsFiniteSet(D) /\ IsFiniteSet(R) /\ \A i \in D : f[i] \in Int
    BY <1>1, TakeAmounts, FS_Subset
<1> HIDE DEF E, L, M, f, D
<1>5. SumFunctionOnSet(f, D) = SumFunctionOnSet(f, E) + SumFunctionOnSet(f, R)
    BY <1>1, <1>4, SumOfTwoParts
<1>6. SumFunctionOnSet(f, R) = SumFunctionOnSet(f, L) + SumFunctionOnSet(f, R \ L)
    <2>1. \A i \in R : f[i] \in Int
        BY <1>1, <1>4
    <2> HIDE DEF R
    <2> QED
        BY <1>3, <1>4, <2>1, SumOfTwoParts
<1>7. ASSUME NEW S \in SUBSET D
      PROVE  GivenOf(t, d, S) = SumFunctionOnSet(f, S) /\ GivenOf(t, d, S) \in Nat /\ AskedOf(t, d, S) \in Nat
    BY TakeSums DEF f, D
<1>8. /\ GivenOf(t, d, D) = SumFunctionOnSet(f, D) /\ GivenOf(t, d, E) = SumFunctionOnSet(f, E)
      /\ GivenOf(t, d, L) = SumFunctionOnSet(f, L) /\ GivenOf(t, d, M) = SumFunctionOnSet(f, M)
      /\ GivenOf(t, d, E) \in Nat /\ GivenOf(t, d, L) \in Nat /\ GivenOf(t, d, M) \in Nat
      /\ AskedOf(t, d, OffersOf(t, Makers(u))) \in Nat
    BY <1>1, <1>7
<1>9. GivenOf(t, d, D) = GivenOf(t, d, L) + GivenOf(t, d, M) + GivenOf(t, d, E)
    <2>1. SumFunctionOnSet(f, R \ L) = SumFunctionOnSet(f, M)
        BY <1>3
    <2> DEFINE x == SumFunctionOnSet(f, R)
               y == SumFunctionOnSet(f, R \ L)
    <2>2. /\ SumFunctionOnSet(f, D) = SumFunctionOnSet(f, E) + x
          /\ x = SumFunctionOnSet(f, L) + y /\ y = SumFunctionOnSet(f, M)
        BY <1>5, <1>6, <2>1
    <2> HIDE DEF x, y
    <2> QED
        BY <1>8, <2>2
<1> QED
    BY <1>8, <1>9 DEF E, L, M, D

-----------------------------------------------------------------------------
(* What a trade does to the balances *)

(* The swaps of a trade change the reserves by what the module's account gets of them. *)
LEMMA RouteMoves ==
    ASSUME PoolInv, NEW u \in Users, NEW t \in Takes, NEW route \in Routes, CanSwap(route),
           MakeTrade(u, t, route)
    PROVE  /\ Delta(route) \in Ints
           /\ PoolInv'
           /\ \A d \in Denoms : Reserve(d)' - Reserve(d) = Delta(route)[d]
<1>0. /\ pool' = IF route = <<>> THEN pool
                 ELSE [pool EXCEPT !.coins = Swaps(route).coins, !.uses = @ + Len(route)]
      /\ UNCHANGED <<shares, supply, poolSeq>>
    BY DEF MakeTrade
<1>1. CASE route = <<>>
    <2>1. pool' = pool /\ Delta(route) = Nil
        BY <1>0, <1>1 DEF Delta
    <2>2. Nil \in Ints /\ \A d \in Denoms : Nil[d] = 0
        BY DEF Nil, Ints
    <2>3. \A d \in Denoms : Reserve(d)' = Reserve(d) /\ Reserve(d) \in Int
        BY <2>1 DEF Reserve, PoolInv, Pool
    <2>4. PoolInv'
        BY <1>0, <2>1 DEF PoolInv
    <2> QED
        BY <2>1, <2>2, <2>3, <2>4
<1>2. CASE route # <<>>
    <2> DEFINE s == Swaps(route)
               n == pool.uses + Len(route)
    <2>1. pool # NoPool /\ pool \in Pool /\ route \in Seq(Leg)
        BY <1>2, OfferAssumption DEF CanSwap, PoolInv
    <2>2. s \in Swapping
        BY <2>1, SwapsTypes
    <2>3. /\ s.coins \in PosCoins /\ s.delta \in Ints
          /\ \A d \in Denoms : s.delta[d] = s.coins[d] - pool.coins[d]
        BY <2>2 DEF Swapping
    <2>4. n \in Nat
        BY <2>1 DEF Pool
    <2>5. pool' = [pool EXCEPT !.coins = s.coins, !.uses = n] /\ Delta(route) = s.delta
        BY <1>0, <1>2 DEF Delta
    <2> HIDE DEF s, n
    <2>6. pool' \in Pool
        BY <2>1, <2>3, <2>4, <2>5, PoolWith
    <2>7. pool'.coins = s.coins /\ pool' # NoPool
        BY <2>1, <2>5, <2>6, NoPoolAssumption DEF Pool
    <2>8. \A d \in Denoms : Reserve(d) = pool.coins[d] /\ Reserve(d)' = s.coins[d]
        BY <2>1, <2>7 DEF Reserve
    <2>9. PoolInv'
        BY <1>0, <2>1, <2>6 DEF PoolInv
    <2> QED
        BY <2>3, <2>5, <2>8, <2>9
<1> QED
    BY <1>1, <1>2

(* A settlement that goes through pays the makers in full, and the module what the swaps left with *)
(* the pool less what it had for the offers.                                                       *)
LEMMA TradeSettles ==
    ASSUME offers \in Seq(Sound), bank \in [Accounts -> Coins], NEW u \in Users,
           NEW t \in Takes, CanTake(t), NEW delta \in Ints,
           NEW s, s = [d \in Denoms |-> Settlement(u, t, delta[d], d)],
           s \in Settlements, Balanced(s), Funded(u, t, s), NEW d \in Denoms
    PROVE  /\ s[d].in.trader \in Nat /\ s[d].out.trader \in Nat
           /\ s[d].in.trader <= bank[u][d]
           /\ s[d].out.makers = AskedOf(t, d, OffersOf(t, Makers(u)))
           /\ s[d].in.trader + s[d].in.makers - s[d].out.trader - s[d].out.makers
                  = delta[d] - GivenOf(t, d, Escrowed(t)) - Freed(t, d)
<1> DEFINE own == GivenOf(t, d, Liquid(t, {u}))
           lent == GivenOf(t, d, Liquid(t, Makers(u)))
           held == GivenOf(t, d, Escrowed(t))
           freed == Freed(t, d)
           asked == AskedOf(t, d, OffersOf(t, Makers(u)))
           n == delta[d]
           balance == bank[u][d]
           r == s[d]
<1>1. /\ own \in Nat /\ lent \in Nat /\ held \in Nat /\ asked \in Nat
      /\ GivenOf(t, d, DOMAIN t) = own + lent + held
    BY GivenByAll
<1>2. freed \in Nat
    BY FreedSum
<1>3. n \in Int /\ balance \in Nat
    BY DEF Ints, Accounts, Coins
<1>4. Ins(u, t, n, d) = InRow(own, lent, held, freed, n)
    BY DEF Ins, InRow
<1>5. Outs(u, t, n, d) = OutRow(own, lent, held, freed, asked, n)
    BY <1>1 DEF Outs, OutRow
<1>6. r = Settled(Ins(u, t, n, d), Outs(u, t, n, d), balance)
    BY DEF Settlement
<1>7. Matched(r, balance)
    <2>1. r \in [covered: {TRUE}, in: Rows, out: Rows]
        BY DEF Settlements
    <2>2. r.covered = TRUE /\ r.in.trader \in Nat
        BY <2>1 DEF Rows
    <2>3. Sum3(r.in) = Sum3(r.out) /\ balance >= r.in.trader
        BY DEF Balanced, Funded
    <2> HIDE DEF r, balance
    <2> QED
        BY <1>3, <2>2, <2>3 DEF Matched
<1>8. r.in.trader <= balance
    BY <1>7 DEF Matched
<1> HIDE DEF own, lent, held, freed, asked, n, balance, r
<1>9. PaidUp(r, lent, held, freed, asked, n)
    <2>1. r = Settled(InRow(own, lent, held, freed, n), OutRow(own, lent, held, freed, asked, n), balance)
        BY <1>4, <1>5, <1>6
    <2> QED
        BY <1>1, <1>2, <1>3, <1>7, <2>1, Netting
<1> QED
    BY <1>8, <1>9 DEF PaidUp, asked, n, held, freed, balance, r

(* No maker's row shrinks. *)
LEMMA NothingShrinks ==
    ASSUME NEW u \in Users, NEW t, NEW s,
           \A d \in Denoms : /\ s[d].out.makers = AskedOf(t, d, OffersOf(t, Makers(u)))
                             /\ AskedOf(t, d, OffersOf(t, Makers(u))) \in Nat,
           NEW c \in Shrinks(u, t, s), NEW m \in Makers(u), NEW d \in Denoms
    PROVE  c[m][d] = 0
<1> DEFINE n(e) == AskedOf(t, e, OffersOf(t, Makers(u))) - s[e].out.makers
<1>1. c \in [Makers(u) -> [Denoms -> UNION {0..n(e) : e \in Denoms}]]
    BY DEF Shrinks
<1>2. \A e \in Denoms : n(e) = 0
    OBVIOUS
<1> HIDE DEF n
<1>3. c[m][d] \in UNION {0..n(e) : e \in Denoms}
    BY <1>1
<1> QED
    BY <1>2, <1>3

(* What a trade does to the balances: the module pays out of the takes from escrow, of deposits  *)
(* and of the swaps; a maker gets the price and gives the units of liquid offers.                *)
LEMMA TradeMoves ==
    ASSUME offers \in Seq(Sound), PoolInv, bank \in [Accounts -> Coins], NEW u \in Users,
           NEW t \in Takes, CanTake(t), NEW route \in Routes, CanSwap(route), MakeTrade(u, t, route)
    PROVE  /\ bank' \in [Accounts -> Ints]
           /\ \A a \in Accounts \ {Module}, d \in Denoms : bank'[a][d] >= 0
           /\ \A d \in Denoms : bank'[Module][d] =
                  bank[Module][d] + (Delta(route)[d] - GivenOf(t, d, Escrowed(t)) - Freed(t, d))
           /\ \A m \in Makers(u), d \in Denoms : bank'[m][d] =
                  bank[m][d] + AskedOf(t, d, OffersOf(t, {m})) - GivenOf(t, d, Liquid(t, {m}))
<1> DEFINE delta == Delta(route)
           s == [d \in Denoms |-> Settlement(u, t, delta[d], d)]
<1>1. /\ s \in Settlements /\ Balanced(s) /\ Funded(u, t, s)
      /\ \E c \in Shrinks(u, t, s) : Settle(u, t, s, c)
    BY DEF MakeTrade
<1>2. s = [d \in Denoms |-> Settlement(u, t, delta[d], d)]
    OBVIOUS
<1>3. delta \in Ints
    BY RouteMoves
<1> HIDE DEF s, delta
<1>4. PICK c \in Shrinks(u, t, s) : Settle(u, t, s, c)
    BY <1>1
<1>5. ASSUME NEW d \in Denoms
      PROVE  /\ s[d].in.trader \in Nat /\ s[d].out.trader \in Nat
             /\ s[d].in.trader <= bank[u][d]
             /\ s[d].out.makers = AskedOf(t, d, OffersOf(t, Makers(u)))
             /\ AskedOf(t, d, OffersOf(t, Makers(u))) \in Nat
             /\ s[d].in.trader + s[d].in.makers - s[d].out.trader - s[d].out.makers
                    = delta[d] - GivenOf(t, d, Escrowed(t)) - Freed(t, d)
    <2>1. AskedOf(t, d, OffersOf(t, Makers(u))) \in Nat
        BY GivenByAll
    <2>2. /\ s[d].in.trader \in Nat /\ s[d].out.trader \in Nat
          /\ s[d].in.trader <= bank[u][d]
          /\ s[d].out.makers = AskedOf(t, d, OffersOf(t, Makers(u)))
          /\ s[d].in.trader + s[d].in.makers - s[d].out.trader - s[d].out.makers
                 = delta[d] - GivenOf(t, d, Escrowed(t)) - Freed(t, d)
        BY <1>1, <1>2, <1>3, TradeSettles
    <2> QED
        BY <2>1, <2>2
<1>6. ASSUME NEW m \in Makers(u), NEW d \in Denoms PROVE c[m][d] = 0
    BY <1>5, NothingShrinks
<1> DEFINE asked(m, d) == AskedOf(t, d, OffersOf(t, {m}))
           given(m, d) == GivenOf(t, d, Liquid(t, {m}))
           change(a, d) ==
               CASE a = u -> s[d].out.trader - s[d].in.trader
                 [] a = Module -> s[d].in.trader + s[d].in.makers - s[d].out.trader - s[d].out.makers
                 [] a \in Makers(u) -> asked(a, d) - c[a][d] - given(a, d)
                 [] OTHER -> 0
<1>7. ASSUME NEW a \in Accounts, NEW d \in Denoms
      PROVE  bank'[a][d] = bank[a][d] + change(a, d) /\ bank[a][d] \in Nat
    <2>1. bank' = [x \in Accounts |-> [e \in Denoms |-> bank[x][e] + change(x, e)]]
        BY <1>4 DEF Settle
    <2> HIDE DEF change
    <2> QED
        BY <2>1 DEF Coins
<1>8. bank' \in [Accounts -> [Denoms -> {bank'[a][d] : a \in Accounts, d \in Denoms}]]
    <2>1. bank' = [x \in Accounts |-> [e \in Denoms |-> bank[x][e] + change(x, e)]]
        BY <1>4 DEF Settle
    <2> HIDE DEF change
    <2> QED
        BY <2>1
<1>9. ASSUME NEW m \in Makers(u), NEW d \in Denoms
      PROVE  /\ asked(m, d) \in Nat /\ given(m, d) \in Nat /\ given(m, d) <= bank[m][d]
             /\ bank[m][d] \in Nat
             /\ change(m, d) = asked(m, d) - given(m, d)
    <2>1. OffersOf(t, {m}) \in SUBSET DOMAIN t /\ Liquid(t, {m}) \in SUBSET DOMAIN t
        BY DEF OffersOf, Liquid
    <2>2. asked(m, d) \in Nat /\ given(m, d) \in Nat
        BY <2>1, TakeSums
    <2>3. m # u /\ m # Module /\ m \in Accounts
        BY PoolAssumption DEF Makers, Accounts
    <2>4. bank[m][d] >= given(m, d)
        BY <1>1 DEF Funded
    <2>5. bank[m][d] \in Nat
        BY <2>3 DEF Coins
    <2>6. change(m, d) = asked(m, d) - c[m][d] - given(m, d)
        BY <2>3
    <2> HIDE DEF asked, given, change
    <2> QED
        BY <1>6, <2>2, <2>4, <2>5, <2>6
<1>10. u # Module /\ u \in Accounts /\ Module \in Accounts /\ \A m \in Makers(u) : m \in Accounts
    BY PoolAssumption DEF Accounts, Makers
<1>11. ASSUME NEW d \in Denoms PROVE change(u, d) = s[d].out.trader - s[d].in.trader
    BY <1>10, u \notin Makers(u) DEF Makers
<1>12. ASSUME NEW d \in Denoms
       PROVE  change(Module, d) = delta[d] - GivenOf(t, d, Escrowed(t)) - Freed(t, d)
    <2>1. Module \notin Makers(u) /\ Module # u
        BY PoolAssumption DEF Makers
    <2>2. change(Module, d) = s[d].in.trader + s[d].in.makers - s[d].out.trader - s[d].out.makers
        BY <2>1
    <2> HIDE DEF change
    <2> QED
        BY <1>5, <2>2
<1>13. ASSUME NEW d \in Denoms, NEW a \in Accounts, a # u, a # Module, a \notin Makers(u)
       PROVE  change(a, d) = 0
    BY <1>13
<1>14. ASSUME NEW d \in Denoms
       PROVE  delta[d] \in Int /\ GivenOf(t, d, Escrowed(t)) \in Int /\ Freed(t, d) \in Int
    <2>1. GivenOf(t, d, Escrowed(t)) \in Nat
        BY GivenByAll
    <2>2. Freed(t, d) \in Nat
        BY FreedSum
    <2> QED
        BY <1>3, <2>1, <2>2 DEF Ints
<1> HIDE DEF change
<1>15. ASSUME NEW a \in Accounts, a # Module, NEW d \in Denoms
       PROVE  bank'[a][d] \in Int /\ bank'[a][d] >= 0
    <2>1. CASE a = u
        <3> DEFINE x == bank[u][d]
                   y == bank'[u][d]
                   p == s[d].in.trader
                   q == s[d].out.trader
        <3>1. y = x + change(u, d) /\ x \in Nat
            BY <1>7, <1>10
        <3>2. change(u, d) = q - p
            BY <1>11
        <3>3. p \in Nat /\ q \in Nat /\ p <= x
            BY <1>5
        <3> HIDE DEF x, y, p, q
        <3>4. y = x + (q - p)
            BY <3>1, <3>2
        <3>5. y \in Int /\ y >= 0
            BY <3>1, <3>3, <3>4
        <3> QED
            BY <2>1, <3>5 DEF y
    <2>2. CASE a \in Makers(u)
        <3> HIDE DEF asked, given
        <3> QED
            BY <1>7, <1>9, <2>2
    <2>3. CASE a # u /\ a \notin Makers(u)
        BY <1>7, <1>13, <1>15, <2>3
    <2> QED
        BY <2>1, <2>2, <2>3
<1>16. ASSUME NEW d \in Denoms
       PROVE  /\ bank'[Module][d] =
                     bank[Module][d] + (delta[d] - GivenOf(t, d, Escrowed(t)) - Freed(t, d))
              /\ bank'[Module][d] \in Int
    <2> DEFINE x == bank[Module][d]
               v == delta[d] - GivenOf(t, d, Escrowed(t)) - Freed(t, d)
    <2>1. bank'[Module][d] = x + change(Module, d) /\ x \in Nat
        BY <1>7, <1>10
    <2>2. change(Module, d) = v
        BY <1>12
    <2>3. v \in Int
        BY <1>14
    <2> HIDE DEF x, v
    <2>4. bank'[Module][d] = x + v
        BY <2>1, <2>2
    <2> QED
        BY <2>1, <2>3, <2>4 DEF x, v
<1>17. \A m \in Makers(u), d \in Denoms : bank'[m][d] = bank[m][d] + asked(m, d) - given(m, d)
    <2> HIDE DEF asked, given
    <2> QED
        BY <1>7, <1>9, <1>10
<1>18. bank' \in [Accounts -> Ints]
    <2>1. \A a \in Accounts, d \in Denoms : bank'[a][d] \in Int
        BY <1>15, <1>16
    <2>2. {bank'[a][d] : a \in Accounts, d \in Denoms} \subseteq Int
        BY <2>1
    <2> QED
        BY <1>8, <2>2 DEF Ints
<1> QED
    BY <1>15, <1>16, <1>17, <1>18 DEF delta

-----------------------------------------------------------------------------
(* What the module owes for the offers *)

LockedIn(os, d) == [i \in DOMAIN os |-> IF os[i].status = "open" THEN Locked(os[i])[d] ELSE 0]
OpenSum(os, d) == SumFunction([i \in {j \in DOMAIN os : os[j].status = "open"} |-> Locked(os[i])[d]])
Tally(os, d) == SumFunctionOnSet(LockedIn(os, d), DOMAIN os)

(* What is kept for an offer: its deposit or its units. *)
LEMMA LockedNat ==
    ASSUME NEW o \in Sound, NEW d \in Denoms
    PROVE  /\ Locked(o)[d] \in Nat /\ Locked(o) \in Coins /\ o.pfand \in Coins
           /\ o.liquid => Locked(o)[d] = o.pfand[d]
           /\ ~o.liquid => o.pfand[d] = 0 /\ Locked(o)[d] = Given(o, o.units)[d]
<1>1. o \in Offer /\ (~o.liquid => o.pfand = Nil)
    BY DEF Sound
<1>2. o.have \in Denoms /\ o.unitHave \in Nat /\ o.units \in Nat /\ o.pfand \in Coins
    BY <1>1 DEF Offer
<1>3. o.units * o.unitHave \in Nat
    BY <1>2, MulNat
<1>4. Given(o, o.units) \in Coins
    BY <1>2, <1>3, OneCoins DEF Given
<1>5. Locked(o) \in Coins
    BY <1>2, <1>4 DEF Locked
<1> QED
    BY <1>1, <1>2, <1>5 DEF Locked, Coins, Nil

(* The sum over the open offers is one over all, where the others count nothing. *)
LEMMA TallyOf ==
    ASSUME NEW os \in Seq(Sound), NEW d \in Denoms
    PROVE  /\ OpenSum(os, d) = Tally(os, d) /\ Tally(os, d) \in Nat
           /\ IsFiniteSet(DOMAIN os)
           /\ \A i \in DOMAIN os : LockedIn(os, d)[i] \in Nat
<1> DEFINE D == DOMAIN os
           P == {j \in D : os[j].status = "open"}
           f == [i \in P |-> Locked(os[i])[d]]
           g == LockedIn(os, d)
<1>1. IsFiniteSet(D)
    BY FS_Interval, 1 \in Int, D = 1..Len(os), Len(os) \in Nat
<1>2. \A i \in D : Locked(os[i])[d] \in Nat
    BY LockedNat
<1>3. /\ \A i \in D : g[i] \in Nat
      /\ \A i \in P : f[i] \in Int /\ g[i] = f[i]
      /\ \A i \in D \ P : g[i] = 0
    BY <1>2 DEF LockedIn
<1>4. P \in SUBSET D /\ DOMAIN f = P
    OBVIOUS
<1>5. OpenSum(os, d) = SumFunctionOnSet(f, DOMAIN f)
    BY DEF OpenSum, SumFunction
<1> HIDE DEF f, g, P, D
<1>6. SumFunctionOnSet(g, D) = SumFunctionOnSet(f, P)
    BY <1>1, <1>3, <1>4, SumWhere
<1>7. SumFunctionOnSet(g, D) \in Nat
    BY <1>1, <1>3, SumIsNat
<1>8. OpenSum(os, d) = SumFunctionOnSet(f, P)
    BY <1>4, <1>5
<1> QED
    BY <1>1, <1>3, <1>6, <1>7, <1>8 DEF Tally, g, D

(* What the module owes is the tally over all offers with the reserve. *)
LEMMA OwedIs ==
    ASSUME NEW d \in Denoms
    PROVE  /\ offers \in Seq(Sound) => Owed(d) = Tally(offers, d) + Reserve(d)
           /\ offers' \in Seq(Sound) => Owed(d)' = Tally(offers', d) + Reserve(d)'
<1>1. Owed(d) = OpenSum(offers, d) + Reserve(d)
    BY DEF Owed, Open, OpenSum
<1>2. Owed(d)' = OpenSum(offers', d) + Reserve(d)'
    BY DEF Owed, Open, OpenSum
<1> QED
    BY <1>1, <1>2, TallyOf

(* A new offer adds what is locked for it, *)
LEMMA TallyAppend ==
    ASSUME NEW os \in Seq(Sound), NEW o \in Sound, o.status = "open", NEW d \in Denoms
    PROVE  Tally(Append(os, o), d) = Tally(os, d) + Locked(o)[d]
<1> DEFINE qs == Append(os, o)
           n == Len(os) + 1
           D == DOMAIN os
           f == LockedIn(os, d)
           g == LockedIn(qs, d)
<1>1. qs \in Seq(Sound) /\ DOMAIN qs = D \cup {n} /\ n \notin D /\ qs[n] = o
      /\ \A i \in D : qs[i] = os[i]
    OBVIOUS
<1> HIDE DEF qs, n
<1>2. /\ \A i \in D : f[i] \in Nat /\ g[i] = f[i]
      /\ g[n] = Locked(o)[d] /\ Locked(o)[d] \in Nat
      /\ IsFiniteSet(D)
    <2>1. \A i \in D : f[i] \in Nat
        BY TallyOf
    <2>2. IsFiniteSet(D)
        BY TallyOf
    <2>3. Locked(o)[d] \in Nat
        BY LockedNat
    <2> QED
        BY <1>1, <2>1, <2>2, <2>3 DEF LockedIn
<1> HIDE DEF f, g, D
<1>3. SumFunctionOnSet(g, D \cup {n}) = g[n] + SumFunctionOnSet(g, D)
    <2>1. \A i \in D \cup {n} : g[i] \in Int
        BY <1>2
    <2> QED
        BY <1>1, <1>2, <2>1, SumOfOneMore
<1>4. SumFunctionOnSet(g, D) = SumFunctionOnSet(f, D)
    BY <1>2, SameValuesSameSum
<1>5. SumFunctionOnSet(f, D) \in Nat
    BY <1>2, SumIsNat
<1>6. Tally(qs, d) = SumFunctionOnSet(g, D \cup {n}) /\ Tally(os, d) = SumFunctionOnSet(f, D)
    BY <1>1 DEF Tally, f, g, D
<1>7. Tally(qs, d) = Tally(os, d) + Locked(o)[d]
    BY <1>2, <1>3, <1>4, <1>5, <1>6
<1> QED
    BY <1>7 DEF qs

(* one that is closed or cancelled takes it away, *)
LEMMA TallyRemove ==
    ASSUME NEW os \in Seq(Sound), NEW qs \in Seq(Sound), DOMAIN qs = DOMAIN os,
           NEW a \in DOMAIN os, os[a].status = "open", qs[a].status # "open",
           \A i \in DOMAIN os \ {a} : qs[i] = os[i], NEW d \in Denoms
    PROVE  Tally(qs, d) = Tally(os, d) - Locked(os[a])[d]
<1> DEFINE D == DOMAIN os
           f == LockedIn(os, d)
           g == LockedIn(qs, d)
<1>1. /\ \A i \in D : f[i] \in Nat /\ (i # a => g[i] = f[i])
      /\ g[a] = 0 /\ f[a] = Locked(os[a])[d]
      /\ IsFiniteSet(D)
    <2>1. \A i \in D : f[i] \in Nat
        BY TallyOf
    <2>2. IsFiniteSet(D)
        BY TallyOf
    <2> QED
        BY <2>1, <2>2 DEF LockedIn
<1> HIDE DEF f, g, D
<1>2. SumFunctionOnSet(g, D) = SumFunctionOnSet(f, D) - f[a] + g[a]
    <2>1. a \in D
        BY DEF D
    <2>2. \A i \in D : f[i] \in Nat /\ g[i] \in Nat
        BY <1>1
    <2>3. \A i \in D : i # a => g[i] = f[i]
        BY <1>1
    <2>4. IsFiniteSet(D)
        BY <1>1
    <2> QED
        BY <2>1, <2>2, <2>3, <2>4, SumWithOneChanged
<1>3. SumFunctionOnSet(f, D) \in Nat /\ f[a] \in Nat
    BY <1>1, SumIsNat DEF D
<1>4. Tally(qs, d) = SumFunctionOnSet(g, D) /\ Tally(os, d) = SumFunctionOnSet(f, D)
    BY DEF Tally, f, g, D
<1> QED
    BY <1>1, <1>2, <1>3, <1>4

(* and a trade what the offers in escrow gave, and the deposits of those it is done with. *)
LEMMA TallyTrade ==
    ASSUME BookInv, NEW u \in Users, NEW t \in Takes, CanTake(t), NEW route \in Routes,
           MakeTrade(u, t, route), NEW d \in Denoms
    PROVE  Tally(offers', d) = Tally(offers, d) - (GivenOf(t, d, Escrowed(t)) + Freed(t, d))
<1> DEFINE D == DOMAIN offers
           E == Escrowed(t)
           F == Done(t)
           f == LockedIn(offers, d)
           g == LockedIn(offers', d)
           e == [i \in D |-> IF i \in E THEN GivenF(t, d)[i] ELSE 0]
           h == [i \in D |-> IF i \in F THEN FreedF(t, d)[i] ELSE 0]
           k == [i \in D |-> e[i] + h[i]]
<1>1. offers \in Seq(Sound) /\ offers' \in Seq(Sound) /\ DOMAIN offers' = D
    BY OffersAfter DEF BookInv
<1>2. DOMAIN t \subseteq Open /\ Open \subseteq D /\ E \subseteq DOMAIN t /\ F \subseteq DOMAIN t
    BY <1>1, TakeTypes, SoundOffers DEF Escrowed
<1>3. IsFiniteSet(D) /\ \A i \in D : f[i] \in Nat /\ g[i] \in Nat
    BY <1>1, TallyOf
<1>4. ASSUME NEW i \in D
      PROVE  /\ e[i] \in Nat /\ h[i] \in Nat /\ k[i] = e[i] + h[i]
             /\ i \in E => e[i] = GivenF(t, d)[i] /\ GivenF(t, d)[i] \in Nat
             /\ i \notin E => e[i] = 0
             /\ i \in F => h[i] = FreedF(t, d)[i] /\ FreedF(t, d)[i] \in Nat
             /\ i \notin F => h[i] = 0
    <2>1. \A j \in DOMAIN t : GivenF(t, d)[j] \in Nat /\ FreedF(t, d)[j] \in Nat
        BY <1>1, TakeAmounts
    <2> QED
        BY <1>2, <2>1
<1>5. ASSUME NEW i \in DOMAIN t PROVE f[i] = g[i] + k[i]
    <2> DEFINE o == offers[i]
               q == offers'[i]
               st == IF i \in F THEN "closed" ELSE "open"
               n == t[i]
    <2>1. o \in Sound /\ o \in Offer /\ n \in Nat /\ o.units \in Nat /\ n <= o.units /\ i \in D
          /\ o.status = "open"
        BY <1>1, <1>2, TakeAmounts DEF Open
    <2>2. q = [o EXCEPT !.units = @ - n, !.status = st]
        <3>1. offers'[i] = LeftOf(t, i)
            BY OffersAfter
        <3> QED
            BY <3>1 DEF LeftOf
    <2>3. q \in Sound
        BY <1>1, <2>1
    <2>4. f[i] = Locked(o)[d] /\ g[i] = IF st = "open" THEN Locked(q)[d] ELSE 0
        <3>1. q.status = st
            BY <2>1, <2>2 DEF Offer
        <3> QED
            BY <1>1, <2>1, <3>1 DEF LockedIn
    <2>5. i \in E <=> ~o.liquid
        BY DEF Escrowed
    <2>6. i \in F <=> n = o.units
        BY DEF Done
    <2>7. GivenF(t, d)[i] = Given(o, n)[d] /\ FreedF(t, d)[i] = o.pfand[d]
        BY DEF GivenF, FreedF
    <2> HIDE DEF f, g, e, h, k, o, q, n, st
    <2>8. q.liquid = o.liquid /\ q.pfand = o.pfand /\ q.units = o.units - n
          /\ q.have = o.have /\ q.unitHave = o.unitHave
        BY <2>1, <2>2 DEF Offer
    <2>9. st = IF i \in F THEN "closed" ELSE "open"
        BY DEF st
    <2>10. o.pfand[d] \in Nat /\ Locked(o)[d] \in Nat /\ Locked(q)[d] \in Nat
        BY <2>1, <2>3, LockedNat DEF Coins
    <2>11. CASE o.liquid
        <3>1. Locked(o)[d] = o.pfand[d] /\ Locked(q)[d] = o.pfand[d]
            <4>1. Locked(o)[d] = o.pfand[d]
                BY <2>1, <2>11, LockedNat
            <4>2. Locked(q)[d] = q.pfand[d]
                BY <2>3, <2>8, <2>11, LockedNat
            <4> QED
                BY <2>8, <4>1, <4>2
        <3>2. e[i] = 0 /\ k[i] = e[i] + h[i]
            BY <1>4, <2>1, <2>5, <2>11
        <3>3. CASE i \in F
            BY <1>4, <2>1, <2>4, <2>7, <2>9, <2>10, <3>1, <3>2, <3>3
        <3>4. CASE i \notin F
            BY <1>4, <2>1, <2>4, <2>7, <2>9, <2>10, <3>1, <3>2, <3>4
        <3> QED
            BY <3>3, <3>4
    <2>12. CASE ~o.liquid
        <3>1. o.pfand[d] = 0 /\ Locked(o)[d] = Given(o, o.units)[d] /\ Locked(q)[d] = Given(q, q.units)[d]
            BY <2>1, <2>3, <2>8, <2>12, LockedNat
        <3>2. e[i] = Given(o, n)[d] /\ h[i] = 0 /\ k[i] = e[i] + h[i] /\ e[i] \in Nat
            BY <1>4, <2>1, <2>5, <2>7, <2>12, <3>1
        <3>3. Given(o, o.units)[d] = Given(q, q.units)[d] + Given(o, n)[d]
            <4>1. o.unitHave \in Nat
                BY <2>1 DEF Offer
            <4>2. o.units * o.unitHave = (o.units - n) * o.unitHave + n * o.unitHave
                BY <2>1, <4>1
            <4>3. q.units * q.unitHave = (o.units - n) * o.unitHave
                BY <2>8
            <4> DEFINE x == o.units * o.unitHave
                       y == q.units * q.unitHave
                       z == n * o.unitHave
            <4>4. x = y + z
                BY <4>2, <4>3
            <4>5. /\ Given(o, o.units) = One(o.have, x) /\ Given(q, q.units) = One(o.have, y)
                  /\ Given(o, n) = One(o.have, z)
                BY <2>8 DEF Given
            <4> HIDE DEF x, y, z
            <4> QED
                BY <4>4, <4>5 DEF One
        <3>4. CASE i \in F
            <4>1. n = o.units
                BY <2>6, <3>4
            <4> QED
                BY <2>4, <2>9, <3>1, <3>2, <3>4, <4>1
        <3>5. CASE i \notin F
            BY <2>4, <2>9, <2>10, <3>1, <3>2, <3>3, <3>5
        <3> QED
            BY <3>4, <3>5
    <2> QED
        BY <2>11, <2>12
<1>6. ASSUME NEW i \in D \ DOMAIN t PROVE f[i] = g[i] + k[i]
    <2>1. f[i] = g[i]
        BY <1>1, OffersAfter DEF LockedIn
    <2>2. k[i] = 0
        BY <1>2, <1>4
    <2> HIDE DEF f, g, k
    <2> QED
        BY <1>3, <2>1, <2>2
<1> HIDE DEF f, g, e, h, k, D, E, F
<1>7. \A i \in D : e[i] \in Int /\ h[i] \in Int /\ k[i] \in Int /\ k[i] = e[i] + h[i]
    BY <1>4
<1>8. SumFunctionOnSet(f, D) = SumFunctionOnSet(g, D) + SumFunctionOnSet(k, D)
    <2>1. \A i \in D : g[i] \in Int /\ k[i] \in Int /\ f[i] = g[i] + k[i]
        BY <1>3, <1>5, <1>6, <1>7
    <2> QED
        BY <1>3, <2>1, SumOfSums
<1>9. SumFunctionOnSet(k, D) = SumFunctionOnSet(e, D) + SumFunctionOnSet(h, D)
    <2>1. \A i \in D : e[i] \in Int /\ h[i] \in Int /\ k[i] = e[i] + h[i]
        BY <1>7
    <2> QED
        BY <1>3, <2>1, SumOfSums
<1>10. SumFunctionOnSet(e, D) = SumFunctionOnSet(GivenF(t, d), E)
    <2>1. E \in SUBSET D
        BY <1>2
    <2>2. \A i \in E : GivenF(t, d)[i] \in Int /\ e[i] = GivenF(t, d)[i]
        BY <1>4, <2>1
    <2>3. \A i \in D \ E : e[i] = 0
        BY <1>4
    <2> QED
        BY <1>3, <2>1, <2>2, <2>3, SumWhere
<1>11. SumFunctionOnSet(h, D) = SumFunctionOnSet(FreedF(t, d), F)
    <2>1. F \in SUBSET D
        BY <1>2
    <2>2. \A i \in F : FreedF(t, d)[i] \in Int /\ h[i] = FreedF(t, d)[i]
        BY <1>4, <2>1
    <2>3. \A i \in D \ F : h[i] = 0
        BY <1>4
    <2> QED
        BY <1>3, <2>1, <2>2, <2>3, SumWhere
<1>12. GivenOf(t, d, E) = SumFunctionOnSet(GivenF(t, d), E) /\ GivenOf(t, d, E) \in Nat
    BY <1>1, <1>2, TakeSums
<1>13. Freed(t, d) = SumFunctionOnSet(FreedF(t, d), F) /\ Freed(t, d) \in Nat
    BY <1>1, FreedSum DEF F
<1>14. Tally(offers, d) = SumFunctionOnSet(f, D) /\ Tally(offers', d) = SumFunctionOnSet(g, D)
    BY <1>1 DEF Tally, f, g, D
<1>15. Tally(offers, d) \in Nat /\ Tally(offers', d) \in Nat
    BY <1>1, TallyOf
<1> DEFINE x == GivenOf(t, d, E)
           y == Freed(t, d)
<1>16. Tally(offers, d) = Tally(offers', d) + (x + y) /\ x \in Nat /\ y \in Nat
    BY <1>8, <1>9, <1>10, <1>11, <1>12, <1>13, <1>14
<1> HIDE DEF x, y
<1>17. Tally(offers', d) = Tally(offers, d) - (x + y)
    BY <1>15, <1>16
<1> QED
    BY <1>17 DEF x, y, E

-----------------------------------------------------------------------------
(* The books balance *)

Money ==
    /\ BookInv
    /\ PoolInv
    /\ bank \in [Accounts -> Coins]
    /\ BooksBalance
    /\ trades \in 0..MaxTrades

(* What every step has to show: no balance but the module's is negative, and the module's changes *)
(* as much as what it owes.                                                                        *)
LEMMA StillBalanced ==
    ASSUME offers \in Seq(Sound), PoolInv, bank \in [Accounts -> Coins], BooksBalance,
           offers' \in Seq(Sound), PoolInv', bank' \in [Accounts -> Ints],
           \A a \in Accounts \ {Module}, d \in Denoms : bank'[a][d] >= 0,
           \A d \in Denoms : bank'[Module][d] - bank[Module][d] =
               (Tally(offers', d) - Tally(offers, d)) + (Reserve(d)' - Reserve(d))
    PROVE  bank' \in [Accounts -> Coins] /\ BooksBalance'
<1>1. ASSUME NEW d \in Denoms PROVE bank'[Module][d] = Owed(d)' /\ Owed(d)' \in Nat
    <2>1. /\ Owed(d) = Tally(offers, d) + Reserve(d) /\ Owed(d)' = Tally(offers', d) + Reserve(d)'
          /\ Tally(offers, d) \in Nat /\ Tally(offers', d) \in Nat
        BY OwedIs, TallyOf
    <2>2. Reserve(d) \in Nat /\ Reserve(d)' \in Nat
        BY DEF Reserve, PoolInv, Pool
    <2>3. bank[Module][d] = Owed(d) /\ bank'[Module][d] \in Int
        BY DEF BooksBalance, Accounts, Ints
    <2>4. bank'[Module][d] - bank[Module][d] =
              (Tally(offers', d) - Tally(offers, d)) + (Reserve(d)' - Reserve(d))
        OBVIOUS
    <2> DEFINE x == bank[Module][d]
               y == bank'[Module][d]
               p == Tally(offers, d)
               q == Tally(offers', d)
               r == Reserve(d)
               s == Reserve(d)'
    <2>5. p \in Nat /\ q \in Nat /\ r \in Nat /\ s \in Nat /\ y \in Int
        BY <2>1, <2>2, <2>3
    <2>6. x = p + r /\ y - x = (q - p) + (s - r)
        BY <2>1, <2>3, <2>4
    <2>7. Owed(d)' = q + s
        BY <2>1
    <2> HIDE DEF x, y, p, q, r, s
    <2>8. y = q + s /\ q + s \in Nat
        BY <2>5, <2>6
    <2> QED
        BY <2>7, <2>8 DEF y
<1>2. BooksBalance'
    BY <1>1 DEF BooksBalance
<1>3. ASSUME NEW a \in Accounts PROVE bank'[a] \in Coins
    <2>1. bank'[a] \in Ints /\ bank'[a] = [d \in Denoms |-> bank'[a][d]]
        BY DEF Ints
    <2>2. \A d \in Denoms : bank'[a][d] \in Nat
        <3> SUFFICES ASSUME NEW d \in Denoms PROVE bank'[a][d] \in Nat
            OBVIOUS
        <3>1. bank'[a][d] \in Int
            BY <2>1 DEF Ints
        <3>2. CASE a = Module
            BY <1>1, <3>2
        <3>3. CASE a # Module
            BY <3>1, <3>3
        <3> QED
            BY <3>2, <3>3
    <2> QED
        BY <2>1, <2>2 DEF Coins
<1> QED
    BY <1>2, <1>3

(* A reserve is a natural number. *)
LEMMA ReserveNat == ASSUME PoolInv, NEW d \in Denoms PROVE Reserve(d) \in Nat
    BY DEF Reserve, PoolInv, Pool

(* The messages to the pool move what the reserves do. *)
LEMMA PoolKeepsMoney ==
    ASSUME Money, NEW u \in Users, PoolMessage(u), UNCHANGED <<offers, index, trades>>
    PROVE  bank' \in [Accounts -> Coins] /\ BooksBalance' /\ PoolInv'
<1>1. offers \in Seq(Sound) /\ offers' \in Seq(Sound) /\ PoolInv /\ bank \in [Accounts -> Coins] /\ BooksBalance
    BY DEF Money, BookInv
<1>2. PoolInv'
    BY <1>1, MessageKeepsPool
<1>3. PaysPool(u)
    BY <1>1, MessagePaysPool
<1>4. bank' \in [Accounts -> Ints]
    BY <1>3 DEF PaysPool
<1>5. ASSUME NEW a \in Accounts \ {Module}, NEW d \in Denoms PROVE bank'[a][d] >= 0
    <2>1. CASE a = u
        BY <1>3, <2>1 DEF PaysPool
    <2>2. CASE a # u
        <3>1. bank'[a] = bank[a]
            BY <1>3, <2>2 DEF PaysPool
        <3>2. bank[a][d] \in Nat
            BY <1>1 DEF Coins
        <3> QED
            BY <3>1, <3>2
    <2> QED
        BY <2>1, <2>2
<1>6. ASSUME NEW d \in Denoms
      PROVE  bank'[Module][d] - bank[Module][d] =
                 (Tally(offers', d) - Tally(offers, d)) + (Reserve(d)' - Reserve(d))
    <2>1. bank'[Module][d] - bank[Module][d] = Reserve(d)' - Reserve(d)
        BY <1>3 DEF PaysPool
    <2>2. Tally(offers', d) = Tally(offers, d) /\ Tally(offers, d) \in Nat
        BY <1>1, TallyOf
    <2>3. Reserve(d) \in Nat /\ Reserve(d)' \in Nat
        BY <1>1, <1>2 DEF Reserve, PoolInv, Pool
    <2> QED
        BY <2>1, <2>2, <2>3
<1> QED
    BY <1>1, <1>2, <1>4, <1>5, <1>6, StillBalanced

(* A new offer pays into the account what it locks. *)
LEMMA MakeOfferKeepsMoney ==
    ASSUME Money, NEW u \in Users, NEW d \in Denoms, NEW shape \in Shapes,
           NEW liquid \in BOOLEAN, NEW p \in Coins, MakeOffer(u, d, shape, liquid, p)
    PROVE  bank' \in [Accounts -> Coins] /\ BooksBalance' /\ PoolInv'
<1>1. PICK o \in Sound : /\ o.status = "open" /\ offers' = Append(offers, o)
                         /\ Has(u, Locked(o)) /\ bank' = Move(u, Module, Locked(o))
    BY NewOffer DEF MakeOffer
<1>2. offers \in Seq(Sound) /\ offers' \in Seq(Sound) /\ PoolInv /\ bank \in [Accounts -> Coins] /\ BooksBalance
    BY <1>1 DEF Money, BookInv
<1>3. UNCHANGED <<pool, shares, supply, poolSeq>>
    BY DEF MakeOffer
<1>4. PoolInv'
    BY <1>2, <1>3 DEF PoolInv
<1> DEFINE c == Locked(o)
           P == Minus(bank[u], c)
           Q == Plus(bank[Module], c)
<1>5. c \in Coins
    BY LockedNat
<1>6. u # Module /\ u \in Accounts /\ Module \in Accounts
    BY PoolAssumption DEF Accounts
<1>7. bank' = [bank EXCEPT ![u] = P, ![Module] = Q] /\ \A e \in Denoms : bank[u][e] >= c[e]
    BY <1>1, <1>2, <1>6 DEF Move, Has
<1> HIDE DEF c
<1>8. P \in Ints /\ Q \in Ints
      /\ \A e \in Denoms : P[e] >= 0 /\ P[e] = bank[u][e] - c[e] /\ Q[e] = bank[Module][e] + c[e]
    <2>1. bank[u] \in Coins /\ bank[Module] \in Coins
        BY <1>2, <1>6
    <2>2. P \in Ints /\ Q \in Ints
        BY <1>5, <2>1 DEF Minus, Plus, Ints, Coins
    <2>3. \A e \in Denoms : P[e] = bank[u][e] - c[e] /\ Q[e] = bank[Module][e] + c[e]
        BY DEF Minus, Plus
    <2>4. \A e \in Denoms : bank[u][e] \in Nat /\ c[e] \in Nat /\ bank[u][e] >= c[e]
        BY <1>5, <1>7, <2>1 DEF Coins
    <2> HIDE DEF P, Q
    <2>5. \A e \in Denoms : P[e] >= 0
        BY <2>3, <2>4
    <2> QED
        BY <2>2, <2>3, <2>5
<1> HIDE DEF P, Q
<1>9. bank' \in [Accounts -> Ints] /\ bank'[u] = P /\ bank'[Module] = Q
      /\ \A a \in Accounts \ {u, Module} : bank'[a] = bank[a]
    <2>1. Coins \subseteq Ints
        BY DEF Coins, Ints
    <2> QED
        BY <1>2, <1>6, <1>7, <1>8, <2>1
<1>10. ASSUME NEW a \in Accounts \ {Module}, NEW e \in Denoms PROVE bank'[a][e] >= 0
    <2>1. CASE a = u
        BY <1>8, <1>9, <2>1
    <2>2. CASE a # u
        BY <1>2, <1>9, <2>2 DEF Coins
    <2> QED
        BY <2>1, <2>2
<1>11. ASSUME NEW e \in Denoms
       PROVE  bank'[Module][e] - bank[Module][e] =
                  (Tally(offers', e) - Tally(offers, e)) + (Reserve(e)' - Reserve(e))
    <2>1. Tally(offers', e) = Tally(offers, e) + c[e] /\ Tally(offers, e) \in Nat
        BY <1>1, <1>2, TallyAppend, TallyOf DEF c
    <2>2. Reserve(e)' = Reserve(e) /\ Reserve(e) \in Nat
        BY <1>2, <1>3, ReserveNat DEF Reserve
    <2>3. bank'[Module][e] = bank[Module][e] + c[e] /\ bank[Module][e] \in Nat /\ c[e] \in Nat
        BY <1>2, <1>5, <1>6, <1>8, <1>9 DEF Coins
    <2> QED
        BY <2>1, <2>2, <2>3
<1> QED
    BY <1>2, <1>4, <1>9, <1>10, <1>11, StillBalanced

(* A cancelled one pays back what it locked, or its deposit to whoever cancelled. *)
LEMMA CancelKeepsMoney ==
    ASSUME Money, NEW v \in Users, NEW i \in DOMAIN offers, CancelOffer(v, i)
    PROVE  bank' \in [Accounts -> Coins] /\ BooksBalance' /\ PoolInv'
<1>1. offers \in Seq(Sound) /\ PoolInv /\ bank \in [Accounts -> Coins] /\ BooksBalance
    BY DEF Money, BookInv
<1>2. offers' \in Seq(Sound)
    BY CancelKeepsBook DEF Money, BookInv
<1>3. UNCHANGED <<pool, shares, supply, poolSeq>> /\ i \in Open
    BY DEF CancelOffer
<1>4. PoolInv'
    BY <1>1, <1>3 DEF PoolInv
<1> DEFINE o == offers[i]
           r == IF o.liquid THEN Nil ELSE Given(o, o.units)
           p == o.pfand
           A(a) == IF a = Module THEN Minus(bank[a], Plus(r, p)) ELSE bank[a]
           B(a) == IF a = o.maker THEN r ELSE Nil
           C(a) == IF a = v THEN p ELSE Nil
<1>5. o \in Sound /\ o \in Offer /\ o.status = "open" /\ o.maker \in Users
    <2>1. o \in Sound /\ o \in Offer
        BY <1>1, SoundOffers DEF Sound
    <2> QED
        BY <1>3, <2>1 DEF Offer, Open
<1>6. p \in Coins /\ r \in Coins /\ Nil \in Coins
      /\ \A d \in Denoms : Locked(o)[d] = r[d] + p[d] /\ Locked(o)[d] \in Nat /\ Nil[d] = 0
    <2>1. p \in Coins /\ Locked(o) \in Coins /\ \A d \in Denoms : Locked(o)[d] \in Nat
        <3>1. X \in Denoms
            BY DEF Denoms
        <3> HIDE DEF o
        <3> QED
            BY <1>5, <3>1, LockedNat DEF o
    <2>2. Nil \in Coins /\ \A d \in Denoms : Nil[d] = 0
        BY DEF Nil, Coins
    <2>3. CASE o.liquid
        <3>1. r = Nil /\ Locked(o) = p
            BY <2>3 DEF Locked
        <3> HIDE DEF o, p, r
        <3> QED
            BY <2>1, <2>2, <3>1 DEF Coins
    <2>4. CASE ~o.liquid
        <3>1. p = Nil /\ Locked(o) = r
            BY <1>5, <2>4 DEF Sound, Locked
        <3> HIDE DEF o, p, r
        <3> QED
            BY <2>1, <2>2, <3>1 DEF Coins
    <2> QED
        BY <2>3, <2>4
<1>7. bank' = [a \in Accounts |-> Plus(Plus(A(a), B(a)), C(a))]
    BY DEF CancelOffer
<1>8. offers'[i].status # "open" /\ DOMAIN offers' = DOMAIN offers
      /\ \A j \in DOMAIN offers \ {i} : offers'[j] = offers[j]
    <2>1. offers' = [offers EXCEPT ![i] = [o EXCEPT !.status = "cancelled"]]
        BY DEF CancelOffer
    <2>2. [o EXCEPT !.status = "cancelled"].status # "open"
        BY <1>5 DEF Offer
    <2> HIDE DEF o
    <2> QED
        BY <1>1, <2>1, <2>2
<1> HIDE DEF o, r, p
<1>9. ASSUME NEW a \in Accounts, NEW d \in Denoms
      PROVE  /\ bank'[a] \in Ints
             /\ a # Module => bank'[a][d] >= 0
             /\ a = Module => bank'[a][d] = bank[a][d] - Locked(o)[d]
    <2>1. bank'[a] = [e \in Denoms |-> Plus(A(a), B(a))[e] + C(a)[e]]
        BY <1>7 DEF Plus
    <2>2. bank'[a] = [e \in Denoms |-> (A(a)[e] + B(a)[e]) + C(a)[e]]
        BY <2>1 DEF Plus
    <2>3. B(a) \in Coins /\ C(a) \in Coins /\ bank[a] \in Coins
        BY <1>1, <1>6
    <2>4. ASSUME NEW e \in Denoms
          PROVE  /\ A(a)[e] = IF a = Module THEN bank[a][e] - (r[e] + p[e]) ELSE bank[a][e]
                 /\ B(a)[e] \in Nat /\ C(a)[e] \in Nat /\ bank[a][e] \in Nat
                 /\ r[e] \in Nat /\ p[e] \in Nat
        BY <1>6, <2>3 DEF Coins, Minus, Plus
    <2>5. a = Module => B(a)[d] = 0 /\ C(a)[d] = 0
        BY <1>5, <1>6, PoolAssumption
    <2> HIDE DEF A, B, C
    <2>6. bank'[a] \in Ints
        BY <2>2, <2>4 DEF Ints
    <2>7. bank'[a][d] = (A(a)[d] + B(a)[d]) + C(a)[d]
        BY <2>2
    <2>8. a # Module => bank'[a][d] >= 0
        BY <2>4, <2>7
    <2>9. ASSUME a = Module PROVE bank'[a][d] = bank[a][d] - Locked(o)[d]
        <3>1. Locked(o)[d] = r[d] + p[d]
            BY <1>6
        <3> QED
            BY <2>4, <2>5, <2>7, <2>9, <3>1
    <2> QED
        BY <2>6, <2>8, <2>9
<1>10. bank' \in [Accounts -> Ints]
    <2>1. \A a \in Accounts : bank'[a] \in Ints
        BY <1>9, PoolAssumption DEF Denoms
    <2>2. bank' = [a \in Accounts |-> bank'[a]]
        BY <1>7
    <2> QED
        BY <2>1, <2>2
<1>11. ASSUME NEW d \in Denoms
       PROVE  bank'[Module][d] - bank[Module][d] =
                  (Tally(offers', d) - Tally(offers, d)) + (Reserve(d)' - Reserve(d))
    <2>1. Tally(offers', d) = Tally(offers, d) - Locked(o)[d] /\ Tally(offers, d) \in Nat
        BY <1>1, <1>2, <1>5, <1>8, TallyRemove, TallyOf DEF o
    <2>2. Reserve(d)' = Reserve(d) /\ Reserve(d) \in Nat
        BY <1>1, <1>3, ReserveNat DEF Reserve
    <2>3. bank'[Module][d] = bank[Module][d] - Locked(o)[d] /\ bank[Module][d] \in Nat /\ Locked(o)[d] \in Nat
        BY <1>1, <1>6, <1>9 DEF Accounts, Coins
    <2> QED
        BY <2>1, <2>2, <2>3
<1>12. \A a \in Accounts \ {Module}, d \in Denoms : bank'[a][d] >= 0
    BY <1>9
<1> QED
    BY <1>1, <1>2, <1>4, <1>10, <1>11, <1>12, StillBalanced

(* A trade moves what the takes and the swaps come to. *)
LEMMA TradeKeepsMoney ==
    ASSUME Money, NEW u \in Users, NEW t \in Takes, CanTake(t), NEW route \in Routes,
           CanSwap(route), MakeTrade(u, t, route)
    PROVE  bank' \in [Accounts -> Coins] /\ BooksBalance' /\ PoolInv'
<1>1. offers \in Seq(Sound) /\ PoolInv /\ bank \in [Accounts -> Coins] /\ BooksBalance /\ BookInv
    BY DEF Money, BookInv
<1>2. offers' \in Seq(Sound)
    BY <1>1, OffersAfter
<1>3. Delta(route) \in Ints /\ PoolInv' /\ \A d \in Denoms : Reserve(d)' - Reserve(d) = Delta(route)[d]
    BY <1>1, RouteMoves
<1>4. /\ bank' \in [Accounts -> Ints]
      /\ \A a \in Accounts \ {Module}, d \in Denoms : bank'[a][d] >= 0
      /\ \A d \in Denoms : bank'[Module][d] =
             bank[Module][d] + (Delta(route)[d] - GivenOf(t, d, Escrowed(t)) - Freed(t, d))
    BY <1>1, TradeMoves
<1>5. ASSUME NEW d \in Denoms
      PROVE  bank'[Module][d] - bank[Module][d] =
                 (Tally(offers', d) - Tally(offers, d)) + (Reserve(d)' - Reserve(d))
    <2> DEFINE n == Delta(route)[d]
               e == GivenOf(t, d, Escrowed(t))
               f == Freed(t, d)
               x == bank[Module][d]
               y == bank'[Module][d]
               p == Tally(offers, d)
               q == Tally(offers', d)
               r == Reserve(d)
               s == Reserve(d)'
    <2>1. q = p - (e + f)
        BY <1>1, TallyTrade
    <2>2. y = x + (n - e - f) /\ s - r = n
        BY <1>3, <1>4
    <2>3. e \in Nat /\ f \in Nat /\ p \in Nat
        BY <1>1, GivenByAll, FreedSum, TallyOf
    <2>4. n \in Int /\ x \in Nat
        BY <1>1, <1>3 DEF Ints, Accounts, Coins
    <2>5. r \in Nat /\ s \in Nat
        BY <1>1, <1>3 DEF Reserve, PoolInv, Pool
    <2> HIDE DEF n, e, f, x, y, p, q, r, s
    <2>6. y - x = (q - p) + (s - r)
        BY <2>1, <2>2, <2>3, <2>4, <2>5
    <2> QED
        BY <2>6 DEF x, y, p, q, r, s
<1> QED
    BY <1>1, <1>2, <1>3, <1>4, <1>5, StillBalanced

(* The invariant of the balances holds at first and is kept by every step. *)
LEMMA MoneyInductive ==
    /\ Init => Money
    /\ Money /\ [Next]_vars => Money'
<1>1. ASSUME Init PROVE Money
    <2>1. PoolInv /\ bank \in [Accounts -> Coins] /\ pool = NoPool
          /\ \A d \in Denoms : bank[Module][d] = 0
        BY <1>1, PoolAssumption DEF Init, PoolInit, PoolInv, Coins, Accounts
    <2>2. BookInv
        BY <1>1, BookInductive
    <2>3. trades \in 0..MaxTrades
        BY <1>1, OfferAssumption DEF Init
    <2>4. ASSUME NEW d \in Denoms PROVE Owed(d) = 0
        <3>1. offers = <<>> /\ DOMAIN offers = {} /\ offers \in Seq(Sound)
            BY <1>1 DEF Init
        <3>2. Tally(offers, d) = 0
            BY <3>1, SumOfNone DEF Tally
        <3>3. Reserve(d) = 0
            BY <2>1 DEF Reserve
        <3> QED
            BY <3>1, <3>2, <3>3, OwedIs
    <2> QED
        BY <2>1, <2>2, <2>3, <2>4 DEF Money, BooksBalance
<1>2. ASSUME Money, UNCHANGED vars PROVE Money'
    <2>1. BookInv'
        BY <1>2, BookInductive DEF Money
    <2>2. PoolInv' /\ bank' \in [Accounts -> Coins] /\ (trades \in 0..MaxTrades)'
        BY <1>2 DEF Money, vars, poolVars, PoolInv
    <2>3. BooksBalance'
        <3>1. \A d \in Denoms : Owed(d)' = Owed(d)
            BY <1>2 DEF vars, poolVars, Owed, Open, Reserve
        <3> QED
            BY <1>2, <3>1 DEF Money, vars, poolVars, BooksBalance
    <2> QED
        BY <2>1, <2>2, <2>3 DEF Money
<1>3. ASSUME Money, Next PROVE Money'
    <2>1. BookInv'
        BY <1>3, BookInductive DEF Money
    <2>2. ASSUME NEW u \in Users, PoolMessage(u), UNCHANGED <<offers, index, trades>> PROVE Money'
        BY <1>3, <2>1, <2>2, PoolKeepsMoney DEF Money
    <2>3. ASSUME NEW u \in Users, NEW d \in Denoms, NEW s \in Shapes, MakeOffer(u, d, s, FALSE, Nil)
          PROVE  Money'
        <3>1. Nil \in Coins /\ trades' = trades
            BY <2>3 DEF Nil, Coins, MakeOffer
        <3> QED
            BY <1>3, <2>1, <2>3, <3>1, MakeOfferKeepsMoney DEF Money
    <2>4. ASSUME NEW u \in Users, NEW d \in Denoms, NEW s \in Shapes, NEW p \in Pfands,
                 MakeOffer(u, d, s, TRUE, p)
          PROVE  Money'
        <3>1. p \in Coins /\ trades' = trades
            BY <2>4, OfferAssumption DEF MakeOffer
        <3> QED
            BY <1>3, <2>1, <2>4, <3>1, MakeOfferKeepsMoney DEF Money
    <2>5. ASSUME NEW u \in Users, NEW i \in DOMAIN offers, CancelOffer(u, i) PROVE Money'
        <3>1. trades' = trades
            BY <2>5 DEF CancelOffer
        <3> QED
            BY <1>3, <2>1, <2>5, <3>1, CancelKeepsMoney DEF Money
    <2>6. ASSUME NEW u \in Users, NEW r \in Routes, CanSwap(r), NEW t \in Takes, CanTake(t), MakeTrade(u, t, r)
          PROVE  Money'
        <3>1. trades' \in 0..MaxTrades
            <4>1. trades < MaxTrades /\ trades' = trades + 1
                BY <2>6 DEF MakeTrade
            <4> QED
                BY <1>3, <4>1, OfferAssumption DEF Money
        <3> QED
            BY <1>3, <2>1, <2>6, <3>1, TradeKeepsMoney DEF Money
    <2>7. ASSUME ExportImport PROVE Money'
        <3>1. UNCHANGED <<bank, pool, shares, supply, offers, trades>>
            BY <2>7 DEF ExportImport
        <3>2. poolSeq' \in Nat
            BY <1>3, <2>7 DEF ExportImport, Money, PoolInv, Pool
        <3>3. \A d \in Denoms : Owed(d)' = Owed(d)
            BY <3>1 DEF Owed, Open, Reserve
        <3> QED
            BY <1>3, <2>1, <3>1, <3>2, <3>3 DEF Money, PoolInv, BooksBalance
    <2> QED
        BY <1>3, <2>2, <2>3, <2>4, <2>5, <2>6, <2>7 DEF Next
<1> QED
    BY <1>1, <1>2, <1>3

(* The account of the module holds, to the coin, the coins of offers in escrow, the deposits and   *)
(* the reserves: the check of balances that ends every handler never refuses one.                  *)
THEOREM BooksAlwaysBalance == Spec => []BooksBalance
<1>1. Money => BooksBalance
    BY DEF Money
<1> QED
    BY <1>1, MoneyInductive, PTL DEF Spec

(* Nobody has a negative balance, and the indices are of the offers there are. *)
THEOREM OfferTypes == Spec => []TypeOK
<1>1. ASSUME Money PROVE TypeOK
    <2>1. /\ bank \in [Accounts -> Coins] /\ pool \in Pool \cup {NoPool}
          /\ shares \in [Users -> Nat] /\ supply \in Nat /\ poolSeq \in Nat
          /\ byDenom \subseteq DOMAIN offers /\ trades \in 0..MaxTrades
          /\ offers \in Seq(Sound) /\ IndexExact
        BY <1>1 DEF Money, BookInv, PoolInv
    <2>2. offers \in Seq(Offer)
        <3>1. Sound \subseteq Offer
            BY DEF Sound
        <3> QED
            BY <2>1, <3>1
    <2>3. byStatus \subseteq Statuses \X DOMAIN offers
        <3>1. ASSUME NEW i \in DOMAIN offers PROVE offers[i].status \in Statuses
            <4>1. offers[i] \in Offer
                BY <2>1, SoundOffers DEF Sound
            <4> QED
                BY <4>1 DEF Offer
        <3> QED
            BY <2>1, <3>1 DEF IndexExact
    <2>4. \A e \in byPrice : e[1] \in Coins /\ e[2] \in DOMAIN offers
        <3>1. ASSUME NEW i \in Open PROVE OpenKey(offers[i]) \in Coins /\ i \in DOMAIN offers
            <4> DEFINE o == offers[i]
                       h == o.unitHave
                       w == o.unitWant
            <4>1. i \in DOMAIN offers /\ o \in Sound /\ o \in Offer /\ o.status = "open"
                BY <2>1, SoundOffers DEF Open, Sound
            <4>2. h \in Nat /\ w \in Nat /\ Gcd(h, w) = 1
                BY <4>1 DEF Offer, Sound
            <4>3. OpenKey(o) = [e \in Denoms |-> (IF e = o.have THEN h ELSE w) \div 1]
                BY <4>1, <4>2, KeysAgree DEF CloseKey, Price
            <4> HIDE DEF h, w
            <4>4. h \div 1 \in Nat /\ w \div 1 \in Nat
                BY <4>2, DivNat
            <4> QED
                BY <4>1, <4>3, <4>4 DEF Coins
        <3> QED
            BY <2>1, <3>1 DEF IndexExact
    <2> QED
        BY <2>1, <2>2, <2>3, <2>4 DEF TypeOK
<1> QED
    BY <1>1, MoneyInductive, PTL DEF Spec

(* What a trade takes of a maker's offers, summed over all of them or over those it names. *)
LEMMA TakenSums ==
    ASSUME BookInv, NEW u \in Users, NEW t \in Takes, CanTake(t), NEW route \in Routes,
           MakeTrade(u, t, route), NEW m \in Users, NEW d \in Denoms
    PROVE  /\ AskedBy(m, d) = AskedOf(t, d, OffersOf(t, {m}))
           /\ GivenBy(m, d) = GivenOf(t, d, Liquid(t, {m}))
<1> DEFINE S == MadeBy(m)
           R == {j \in S : offers[j].liquid}
           P == OffersOf(t, {m})
           Q == Liquid(t, {m})
           g == [i \in S |-> Asked(offers[i], Taken(i))[d]]
           h == [i \in R |-> Given(offers[i], Taken(i))[d]]
<1>1. offers \in Seq(Sound)
    BY DEF BookInv
<1>2. DOMAIN t \subseteq DOMAIN offers
    BY <1>1, TakeTypes, SoundOffers
<1>3. IsFiniteSet(DOMAIN offers)
    BY <1>1, TallyOf, X \in Denoms DEF Denoms
<1>4. S \in SUBSET DOMAIN offers /\ R \in SUBSET DOMAIN offers
    BY DEF MadeBy
<1>5. IsFiniteSet(S) /\ IsFiniteSet(R)
    BY <1>3, <1>4, FS_Subset
<1>6. P \in SUBSET S /\ Q \in SUBSET R /\ P = S \cap DOMAIN t /\ Q = R \cap DOMAIN t
      /\ P \in SUBSET DOMAIN t /\ Q \in SUBSET DOMAIN t
    BY <1>2 DEF OffersOf, Liquid, MadeBy
<1>7. ASSUME NEW i \in DOMAIN t PROVE Taken(i) = t[i]
    <2>1. offers[i] \in Offer /\ t[i] \in Nat /\ offers[i].units \in Nat
        BY <1>1, TakeAmounts
    <2>2. offers'[i] = [offers[i] EXCEPT !.units = @ - t[i],
                                         !.status = IF i \in Done(t) THEN "closed" ELSE "open"]
        <3>1. offers'[i] = LeftOf(t, i)
            BY OffersAfter
        <3> QED
            BY <3>1 DEF LeftOf
    <2>3. offers'[i].units = offers[i].units - t[i]
        BY <2>1, <2>2 DEF Offer
    <2> QED
        BY <2>1, <2>3 DEF Taken
<1>8. ASSUME NEW i \in DOMAIN offers \ DOMAIN t
      PROVE  Asked(offers[i], Taken(i))[d] = 0 /\ Given(offers[i], Taken(i))[d] = 0
    <2>1. offers'[i] = offers[i]
        BY OffersAfter
    <2>2. offers[i] \in Offer
        BY <1>1, SoundOffers DEF Sound
    <2>3. offers[i].units \in Nat /\ offers[i].unitHave \in Nat /\ offers[i].unitWant \in Nat
        BY <2>2 DEF Offer
    <2>4. Taken(i) = 0
        BY <2>1, <2>3 DEF Taken
    <2>5. 0 * offers[i].unitHave = 0 /\ 0 * offers[i].unitWant = 0
        BY <2>3
    <2> QED
        BY <2>4, <2>5 DEF Asked, Given, One
<1>9. /\ \A i \in P : AskedF(t, d)[i] \in Int /\ g[i] = AskedF(t, d)[i]
      /\ \A i \in Q : GivenF(t, d)[i] \in Int /\ h[i] = GivenF(t, d)[i]
    <2>1. ASSUME NEW i \in P PROVE AskedF(t, d)[i] \in Int /\ g[i] = AskedF(t, d)[i]
        <3>1. i \in DOMAIN t /\ i \in S
            BY <1>6
        <3>2. Asked(offers[i], t[i])[d] \in Nat
            BY <1>1, <3>1, TakeAmounts
        <3>3. AskedF(t, d)[i] = Asked(offers[i], t[i])[d]
            BY <3>1 DEF AskedF
        <3>4. g[i] = Asked(offers[i], Taken(i))[d]
            BY <3>1
        <3>5. Taken(i) = t[i]
            BY <1>7, <3>1
        <3> QED
            BY <3>2, <3>3, <3>4, <3>5
    <2>2. ASSUME NEW i \in Q PROVE GivenF(t, d)[i] \in Int /\ h[i] = GivenF(t, d)[i]
        <3>1. i \in DOMAIN t /\ i \in R
            BY <1>6
        <3>2. Given(offers[i], t[i])[d] \in Nat
            BY <1>1, <3>1, TakeAmounts
        <3>3. GivenF(t, d)[i] = Given(offers[i], t[i])[d]
            BY <3>1 DEF GivenF
        <3>4. h[i] = Given(offers[i], Taken(i))[d]
            BY <3>1
        <3>5. Taken(i) = t[i]
            BY <1>7, <3>1
        <3> QED
            BY <3>2, <3>3, <3>4, <3>5
    <2> QED
        BY <2>1, <2>2
<1>10. (\A i \in S \ P : g[i] = 0) /\ (\A i \in R \ Q : h[i] = 0)
    BY <1>4, <1>6, <1>8
<1>11. AskedBy(m, d) = SumFunctionOnSet(g, S) /\ GivenBy(m, d) = SumFunctionOnSet(h, R)
    <2>1. DOMAIN g = S /\ DOMAIN h = R
        OBVIOUS
    <2>2. AskedBy(m, d) = SumFunctionOnSet(g, DOMAIN g) /\ GivenBy(m, d) = SumFunctionOnSet(h, DOMAIN h)
        BY DEF AskedBy, GivenBy, SumFunction
    <2> HIDE DEF g, h
    <2> QED
        BY <2>1, <2>2
<1> HIDE DEF g, h, S, R, P, Q
<1>12. SumFunctionOnSet(g, S) = SumFunctionOnSet(AskedF(t, d), P)
    BY <1>5, <1>6, <1>9, <1>10, SumWhere
<1>13. SumFunctionOnSet(h, R) = SumFunctionOnSet(GivenF(t, d), Q)
    BY <1>5, <1>6, <1>9, <1>10, SumWhere
<1>14. AskedOf(t, d, P) = SumFunctionOnSet(AskedF(t, d), P) /\ GivenOf(t, d, Q) = SumFunctionOnSet(GivenF(t, d), Q)
    BY <1>1, <1>6, TakeSums
<1> QED
    BY <1>11, <1>12, <1>13, <1>14 DEF P, Q

(* However a trade is netted, a maker is paid what was asked for all that was taken, and gives what *)
(* liquid offers promised of it; no other message touches an offer of anybody else.                 *)
THEOREM MakersGetThePrice == Spec => OnlyByPrice
<1> DEFINE Touched == \E i \in DOMAIN offers : Taken(i) # 0
           Paid == \E u \in Users : \A m \in Makers(u), d \in Denoms :
                       bank'[m][d] = bank[m][d] + AskedBy(m, d) - GivenBy(m, d)
<1>1. ASSUME Money, Next, Touched PROVE Paid
    <2>0. offers \in Seq(Sound) /\ \A i \in DOMAIN offers : offers[i] \in Offer
        BY <1>1, SoundOffers DEF Money, BookInv, Sound
    <2>1. ~(\A i \in DOMAIN offers : offers'[i].units = offers[i].units)
        <3>1. \A i \in DOMAIN offers : offers[i].units \in Nat
            BY <2>0 DEF Offer
        <3> QED
            BY <1>1, <3>1 DEF Taken
    <2>2. ASSUME NEW u \in Users, NEW d \in Denoms, NEW s \in Shapes, NEW l \in BOOLEAN, NEW p \in Coins,
                 MakeOffer(u, d, s, l, p)
          PROVE  FALSE
        <3>1. PICK o \in Sound : offers' = Append(offers, o)
            BY <2>2, NewOffer DEF MakeOffer
        <3>2. \A i \in DOMAIN offers : offers'[i] = offers[i]
            BY <2>0, <3>1
        <3> QED
            BY <2>1, <3>2
    <2>3. ASSUME NEW u \in Users, NEW i \in DOMAIN offers, CancelOffer(u, i) PROVE FALSE
        <3>1. offers' = [offers EXCEPT ![i] = [offers[i] EXCEPT !.status = "cancelled"]]
            BY <2>3 DEF CancelOffer
        <3>2. [offers[i] EXCEPT !.status = "cancelled"].units = offers[i].units
            BY <2>0 DEF Offer
        <3>3. \A j \in DOMAIN offers : offers'[j].units = offers[j].units
            BY <2>0, <3>1, <3>2
        <3> QED
            BY <2>1, <3>3
    <2>4. ~(offers' = offers)
        BY <2>1
    <2>5. PICK u \in Users, r \in Routes, t \in Takes : CanSwap(r) /\ CanTake(t) /\ MakeTrade(u, t, r)
        <3>1. Nil \in Coins /\ Pfands \subseteq Coins
            BY OfferAssumption DEF Nil, Coins
        <3> QED
            BY <1>1, <2>2, <2>3, <2>4, <3>1 DEF Next, ExportImport
    <2>6. ASSUME NEW m \in Makers(u), NEW d \in Denoms
          PROVE  bank'[m][d] = bank[m][d] + AskedBy(m, d) - GivenBy(m, d)
        <3>1. m \in Users
            BY DEF Makers
        <3>2. bank'[m][d] = bank[m][d] + AskedOf(t, d, OffersOf(t, {m})) - GivenOf(t, d, Liquid(t, {m}))
            BY <1>1, <2>0, <2>5, TradeMoves DEF Money
        <3>3. /\ AskedBy(m, d) = AskedOf(t, d, OffersOf(t, {m}))
              /\ GivenBy(m, d) = GivenOf(t, d, Liquid(t, {m}))
            BY <1>1, <2>5, <3>1, TakenSums DEF Money
        <3> QED
            BY <3>2, <3>3
    <2> QED
        BY <2>6
<1>2. Money /\ [Next]_vars => [Touched => Paid]_vars
    BY <1>1
<1> QED
    BY <1>2, MoneyInductive, PTL DEF Spec, OnlyByPrice

-----------------------------------------------------------------------------
(* Trades of one swap *)

(* Nothing is given, asked or set free by a trade that takes no offer. *)
LEMMA NothingTaken ==
    ASSUME NEW u \in Users, NEW d \in Denoms
    PROVE  /\ DOMAIN <<>> = {} /\ Done(<<>>) = {}
           /\ \A S : GivenOf(<<>>, d, Liquid(<<>>, S)) = 0 /\ AskedOf(<<>>, d, OffersOf(<<>>, S)) = 0
           /\ GivenOf(<<>>, d, Escrowed(<<>>)) = 0 /\ GivenOf(<<>>, d, DOMAIN <<>>) = 0
           /\ Freed(<<>>, d) = 0
<1>1. DOMAIN <<>> = {}
    OBVIOUS
<1>2. /\ Done(<<>>) = {} /\ Escrowed(<<>>) = {}
      /\ \A S : OffersOf(<<>>, S) = {} /\ Liquid(<<>>, S) = {}
    BY <1>1 DEF Done, Escrowed, OffersOf, Liquid
<1>3. ASSUME NEW f, DOMAIN f = {} PROVE SumFunction(f) = 0
    BY <1>3, SumOfNone DEF SumFunction
<1>4. GivenOf(<<>>, d, {}) = 0 /\ AskedOf(<<>>, d, {}) = 0
    <2> DEFINE f == [i \in {} |-> Given(offers[i], <<>>[i])[d]]
               g == [i \in {} |-> Asked(offers[i], <<>>[i])[d]]
    <2>1. DOMAIN f = {} /\ DOMAIN g = {}
        OBVIOUS
    <2>2. GivenOf(<<>>, d, {}) = SumFunction(f) /\ AskedOf(<<>>, d, {}) = SumFunction(g)
        BY DEF GivenOf, AskedOf
    <2> HIDE DEF f, g
    <2> QED
        BY <1>3, <2>1, <2>2
<1>5. Freed(<<>>, d) = 0
    <2> DEFINE f == [i \in Done(<<>>) |-> offers[i].pfand[d]]
    <2>1. DOMAIN f = {}
        BY <1>2
    <2>2. Freed(<<>>, d) = SumFunction(f)
        BY DEF Freed
    <2> HIDE DEF f
    <2> QED
        BY <1>3, <2>1, <2>2
<1> QED
    BY <1>1, <1>2, <1>4, <1>5

\* what n, which the swaps leave with the pool, makes of the rows of one denom
SwapRows(n) == [covered |-> TRUE,
                in  |-> Row(IF n > 0 THEN n ELSE 0, IF n < 0 THEN -n ELSE 0, 0),
                out |-> Row(IF n < 0 THEN -n ELSE 0, IF n > 0 THEN n ELSE 0, 0)]

(* Without takes there is nothing to net: the trader pays what the swaps leave, and gets what they pay. *)
LEMMA NothingNetted ==
    ASSUME NEW u \in Users, NEW d \in Denoms, NEW n \in Int, bank[u][d] \in Nat
    PROVE  Settlement(u, <<>>, n, d) = SwapRows(n)
<1> DEFINE p == IF n > 0 THEN n ELSE 0
           q == IF n < 0 THEN -n ELSE 0
           in == Row(p, q, 0)
           out == Row(q, p, 0)
           balance == bank[u][d]
<1>1. p \in Nat /\ q \in Nat /\ (p = 0 \/ q = 0) /\ balance \in Nat
    OBVIOUS
<1>2. Ins(u, <<>>, n, d) = in
    <2>1. Ins(u, <<>>, n, d) = Row(0 + p, 0 + 0 + q, 0)
        BY NothingTaken DEF Ins
    <2> HIDE DEF p, q
    <2> QED
        BY <1>1, <2>1 DEF in
<1>3. Outs(u, <<>>, n, d) = out
    <2>1. Outs(u, <<>>, n, d) = Row(0 + 0 + q, p, 0)
        BY NothingTaken DEF Outs
    <2> HIDE DEF p, q
    <2> QED
        BY <1>1, <2>1 DEF out
<1>4. Settlement(u, <<>>, n, d) = Settled(in, out, balance)
    BY <1>2, <1>3 DEF Settlement
<1>5. SwapRows(n) = [covered |-> TRUE, in |-> in, out |-> out]
    BY DEF SwapRows
<1> HIDE DEF p, q, balance
<1>6. Covered(in, out, balance) = in
    BY <1>1 DEF Covered, Netted, Lower, Row
<1>7. Reduced(in, out) = out
    BY <1>1 DEF Reduced, Netted, Lower, Row
<1>8. Lower(in.trader, out.trader) = 0
    BY <1>1 DEF Lower, Row
<1>9. SelfNet(in, 0) = in /\ SelfNet(out, 0) = out
    BY <1>1 DEF SelfNet, Row
<1>10. Sum3(out) <= Sum3(in)
    BY <1>1 DEF Sum3, Row
<1> HIDE DEF in, out
<1> QED
    BY <1>4, <1>5, <1>6, <1>7, <1>8, <1>9, <1>10 DEF Settled

\* the balances after u pays what is positive of delta and gets what is negative
SwapBank(u, delta) ==
    [a \in Accounts |-> [d \in Denoms |-> bank[a][d] +
        CASE a = u -> -delta[d] [] a = Module -> delta[d] [] OTHER -> 0]]

(* What MakeTrade does when it takes no offers. *)
LEMMA TradeWithoutTakes ==
    ASSUME IsFiniteSet(Users), bank \in [Accounts -> Coins], offers \in Seq(Sound), NEW u \in Users,
           NEW route, route # <<>>, Delta(route) \in Ints
    PROVE  MakeTrade(u, <<>>, route) <=>
             /\ trades < MaxTrades /\ trades' = trades + 1
             /\ \A d \in Denoms : /\ bank[u][d] >= Delta(route)[d]
                                  /\ bank[Module][d] >= -Delta(route)[d]
             /\ bank' = SwapBank(u, Delta(route))
             /\ UNCHANGED <<offers, byDenom, byStatus, byPrice>> /\ Asserted'
             /\ pool' = [pool EXCEPT !.coins = Swaps(route).coins, !.uses = @ + Len(route)]
             /\ UNCHANGED <<shares, supply, poolSeq>>
<1> DEFINE delta == Delta(route)
           s == [d \in Denoms |-> Settlement(u, <<>>, delta[d], d)]
           zero == [m \in Makers(u) |-> [d \in Denoms |-> 0]]
<1>1. /\ u \in Accounts /\ Module \in Accounts /\ u # Module
      /\ \A d \in Denoms : delta[d] \in Int /\ bank[u][d] \in Nat /\ bank[Module][d] \in Nat
    BY PoolAssumption DEF Accounts, Coins, Ints
<1>2. \A d \in Denoms : s[d] = SwapRows(delta[d])
    BY <1>1, NothingNetted
<1> HIDE DEF delta
<1>3. ASSUME NEW d \in Denoms
      PROVE  /\ s[d].covered = TRUE
             /\ s[d].in \in Rows /\ s[d].out \in Rows /\ s[d] \in [covered: {TRUE}, in: Rows, out: Rows]
             /\ s[d].in.makers = 0 /\ s[d].out.makers = 0
             /\ s[d].in.trader = IF delta[d] > 0 THEN delta[d] ELSE 0
             /\ s[d].out.trader = IF delta[d] < 0 THEN -delta[d] ELSE 0
             /\ s[d].in.module = IF delta[d] < 0 THEN -delta[d] ELSE 0
             /\ Sum3(s[d].in) = Sum3(s[d].out)
    <2> DEFINE n == delta[d]
               p == IF n > 0 THEN n ELSE 0
               q == IF n < 0 THEN -n ELSE 0
    <2>1. p \in Nat /\ q \in Nat
        BY <1>1
    <2>2. s[d] = [covered |-> TRUE, in |-> Row(p, q, 0), out |-> Row(q, p, 0)]
        BY <1>2 DEF SwapRows
    <2> HIDE DEF p, q, s
    <2>3. Row(p, q, 0) \in Rows /\ Row(q, p, 0) \in Rows /\ Sum3(Row(p, q, 0)) = Sum3(Row(q, p, 0))
        BY <2>1 DEF Row, Rows, Sum3
    <2>4. Row(p, q, 0).trader = p /\ Row(p, q, 0).module = q /\ Row(p, q, 0).makers = 0
          /\ Row(q, p, 0).trader = q /\ Row(q, p, 0).makers = 0
        BY DEF Row
    <2> QED
        BY <2>2, <2>3, <2>4 DEF p, q
<1>4. s = [d \in Denoms |-> s[d]]
    OBVIOUS
<1> HIDE DEF s
<1>5. s \in Settlements /\ Balanced(s)
    BY <1>3, <1>4 DEF Settlements, Balanced
<1>6. Funded(u, <<>>, s) <=> \A d \in Denoms : bank[u][d] >= delta[d] /\ bank[Module][d] >= -delta[d]
    <2>1. \A d \in Denoms, m \in Makers(u) : bank[m][d] >= GivenOf(<<>>, d, Liquid(<<>>, {m}))
        <3>1. \A d \in Denoms, m \in Makers(u) : bank[m][d] \in Nat
            BY DEF Makers, Accounts, Coins
        <3> QED
            BY <3>1, NothingTaken
    <2>2. ASSUME NEW d \in Denoms
          PROVE  (bank[u][d] >= s[d].in.trader /\ bank[Module][d] >= s[d].in.module)
                    <=> (bank[u][d] >= delta[d] /\ bank[Module][d] >= -delta[d])
        <3> DEFINE n == delta[d]
                   p == s[d].in.trader
                   q == s[d].in.module
                   x == bank[u][d]
                   y == bank[Module][d]
        <3>1. n \in Int /\ x \in Nat /\ y \in Nat
            BY <1>1
        <3>2. p = (IF n > 0 THEN n ELSE 0) /\ q = (IF n < 0 THEN -n ELSE 0)
            BY <1>3
        <3> HIDE DEF n, p, q, x, y
        <3>3. (x >= p /\ y >= q) <=> (x >= n /\ y >= -n)
            BY <3>1, <3>2
        <3> QED
            BY <3>3 DEF n, p, q, x, y
    <2> QED
        BY <2>1, <2>2 DEF Funded
<1>7. ASSUME NEW c, \A m \in Makers(u), d \in Denoms : c[m][d] = 0
      PROVE  Settle(u, <<>>, s, c) <=> bank' = SwapBank(u, delta)
    <2> DEFINE paid(a, d) ==
                   CASE a = u -> s[d].out.trader - s[d].in.trader
                     [] a = Module -> s[d].in.trader + s[d].in.makers - s[d].out.trader - s[d].out.makers
                     [] a \in Makers(u) -> AskedOf(<<>>, d, OffersOf(<<>>, {a})) - c[a][d] - GivenOf(<<>>, d, Liquid(<<>>, {a}))
                     [] OTHER -> 0
               due(a, d) ==
                   CASE a = u -> -delta[d] [] a = Module -> delta[d] [] OTHER -> 0
    <2>1. ASSUME NEW a \in Accounts, NEW d \in Denoms PROVE paid(a, d) = due(a, d)
        <3>0. /\ s[d].out.trader - s[d].in.trader = -delta[d]
              /\ s[d].in.trader + s[d].in.makers - s[d].out.trader - s[d].out.makers = delta[d]
            <4> DEFINE n == delta[d]
                       p == s[d].in.trader
                       q == s[d].out.trader
                       i == s[d].in.makers
                       o == s[d].out.makers
            <4>1. n \in Int
                BY <1>1
            <4>2. /\ p = (IF n > 0 THEN n ELSE 0) /\ q = (IF n < 0 THEN -n ELSE 0)
                  /\ i = 0 /\ o = 0
                BY <1>3
            <4> HIDE DEF n, p, q, i, o
            <4>3. q - p = -n /\ p + i - q - o = n
                BY <4>1, <4>2
            <4> QED
                BY <4>3 DEF n, p, q, i, o
        <3>5. u # Module /\ u \notin Makers(u) /\ Module \notin Makers(u)
            BY PoolAssumption DEF Makers
        <3>6. paid(u, d) = s[d].out.trader - s[d].in.trader /\ due(u, d) = -delta[d]
            BY <3>5
        <3>7. /\ paid(Module, d) = s[d].in.trader + s[d].in.makers - s[d].out.trader - s[d].out.makers
              /\ due(Module, d) = delta[d]
            BY <3>5
        <3>1. CASE a = u
            <4> HIDE DEF paid, due
            <4> QED
                BY <3>0, <3>1, <3>6
        <3>2. CASE a = Module
            <4> HIDE DEF paid, due
            <4> QED
                BY <3>0, <3>2, <3>7
        <3>3. CASE a # u /\ a # Module /\ a \in Makers(u)
            <4>1. AskedOf(<<>>, d, OffersOf(<<>>, {a})) - c[a][d] - GivenOf(<<>>, d, Liquid(<<>>, {a})) = 0
                BY <1>7, <3>3, NothingTaken
            <4> QED
                BY <3>3, <4>1
        <3>4. CASE a # u /\ a # Module /\ a \notin Makers(u)
            BY <3>4
        <3> QED
            BY <3>1, <3>2, <3>3, <3>4
    <2>2. Settle(u, <<>>, s, c) <=> bank' = [a \in Accounts |-> [d \in Denoms |-> bank[a][d] + paid(a, d)]]
        BY DEF Settle
    <2>3. SwapBank(u, delta) = [a \in Accounts |-> [d \in Denoms |-> bank[a][d] + due(a, d)]]
        BY DEF SwapBank
    <2> HIDE DEF paid, due
    <2>4. [a \in Accounts |-> [d \in Denoms |-> bank[a][d] + paid(a, d)]] = [a \in Accounts |-> [d \in Denoms |-> bank[a][d] + due(a, d)]]
        BY <2>1
    <2> QED
        BY <2>2, <2>3, <2>4
<1>8. zero \in Shrinks(u, <<>>, s)
    <2> DEFINE n(d) == AskedOf(<<>>, d, OffersOf(<<>>, Makers(u))) - s[d].out.makers
    <2>1. ASSUME NEW d \in Denoms PROVE n(d) = 0
        <3>1. AskedOf(<<>>, d, OffersOf(<<>>, Makers(u))) = 0 /\ s[d].out.makers = 0
            BY <1>3, NothingTaken
        <3> QED
            BY <3>1
    <2>2. zero \in [Makers(u) -> [Denoms -> UNION {0..n(d) : d \in Denoms}]]
        <3>1. 0 \in UNION {0..n(d) : d \in Denoms}
            <4>1. X \in Denoms /\ n(X) = 0
                BY <2>1 DEF Denoms
            <4> HIDE DEF n
            <4>2. 0 \in 0..n(X)
                BY <4>1
            <4> QED
                BY <4>1, <4>2
        <3> HIDE DEF n
        <3> QED
            BY <3>1
    <2>3. ASSUME NEW d \in Denoms
          PROVE  /\ SumFunction([m \in Makers(u) |-> zero[m][d]]) = n(d)
                 /\ \A m \in Makers(u) : zero[m][d] <= AskedOf(<<>>, d, OffersOf(<<>>, {m}))
        <3> DEFINE f == [m \in Makers(u) |-> zero[m][d]]
        <3>1. DOMAIN f = Makers(u) /\ \A m \in Makers(u) : f[m] = 0 /\ zero[m][d] = 0
            OBVIOUS
        <3>2. IsFiniteSet(Makers(u))
            BY FS_Subset DEF Makers
        <3> HIDE DEF f
        <3>3. SumFunction(f) = 0
            BY <3>1, <3>2, SumOfZeros DEF SumFunction
        <3>4. \A m \in Makers(u) : zero[m][d] <= AskedOf(<<>>, d, OffersOf(<<>>, {m}))
            BY <3>1, NothingTaken
        <3> QED
            BY <2>1, <3>3, <3>4 DEF f
    <2> HIDE DEF zero
    <2> QED
        BY <2>2, <2>3 DEF Shrinks
<1>9. \A c \in Shrinks(u, <<>>, s) : \A m \in Makers(u), d \in Denoms : c[m][d] = 0
    <2>1. ASSUME NEW d \in Denoms
          PROVE  /\ s[d].out.makers = AskedOf(<<>>, d, OffersOf(<<>>, Makers(u)))
                 /\ AskedOf(<<>>, d, OffersOf(<<>>, Makers(u))) \in Nat
        <3>1. AskedOf(<<>>, d, OffersOf(<<>>, Makers(u))) = 0 /\ s[d].out.makers = 0
            BY <1>3, NothingTaken
        <3> QED
            BY <3>1
    <2> QED
        BY <2>1, NothingShrinks
<1>10. (\E c \in Shrinks(u, <<>>, s) : Settle(u, <<>>, s, c)) <=> bank' = SwapBank(u, delta)
    BY <1>7, <1>8, <1>9
<1>11. [i \in DOMAIN offers |-> IF i \notin DOMAIN <<>> THEN offers[i]
                                ELSE [offers[i] EXCEPT !.units = @ - <<>>[i],
                                               !.status = IF i \in Done(<<>>) THEN "closed" ELSE "open"]]
           = offers
    <2>1. DOMAIN <<>> = {}
        OBVIOUS
    <2>2. offers = [i \in DOMAIN offers |-> offers[i]]
        OBVIOUS
    <2> QED
        BY <2>1, <2>2
<1>12. Reindex(Done(<<>>), "closed") <=> UNCHANGED <<byDenom, byStatus, byPrice>>
    <2>1. X \in Denoms
        BY DEF Denoms
    <2>2. Done(<<>>) = {}
        BY <2>1, NothingTaken
    <2>3. {<<CloseKey(offers[i]), i>> : i \in {}} = {}
        OBVIOUS
    <2> QED
        BY <2>2, <2>3 DEF Reindex
<1> QED
    BY <1>5, <1>6, <1>10, <1>11, <1>12 DEF MakeTrade, s, delta

\* what the trader pays and gets in a leg by itself
Pays(leg) == IF leg.kind = "swap_in" THEN leg.amount ELSE ExactOut(pool.coins, leg.denom, leg.amount)
Gets(leg) == IF leg.kind = "swap_in" THEN ExactIn(pool.coins, leg.denom, leg.amount) ELSE leg.amount
Works(leg) == leg.amount # 0 /\ Gets(leg) > 0 /\ Gets(leg) < pool.coins[Other(leg.denom)]

(* A route of one leg has one. *)
LEMMA NotEmpty == ASSUME NEW r, Len(r) = 1 PROVE r # <<>>
<1>1. Len(<<>>) = 0
    OBVIOUS
<1>2. SUFFICES ASSUME r = <<>> PROVE FALSE
    OBVIOUS
<1>3. Len(r) = 0
    BY <1>1, <1>2
<1> QED
    BY <1>3

(* A route of one leg is that leg, after nothing. *)
LEMMA OneLeg ==
    ASSUME PoolInv, pool # NoPool, NEW r \in Routes, Len(r) = 1
    PROVE  /\ r[1] \in Leg /\ r # <<>> /\ Swaps(r).ok = Works(r[1])
           /\ Works(r[1]) =>
                /\ Pays(r[1]) \in Nat /\ Gets(r[1]) \in Nat
                /\ Swaps(r).coins = Swapped(pool.coins, r[1].denom, Pays(r[1]), Gets(r[1]))
                /\ Delta(r) \in Ints
                /\ Delta(r)[r[1].denom] = Pays(r[1]) /\ Delta(r)[Other(r[1].denom)] = -Gets(r[1])
<1> DEFINE leg == r[1]
           d == leg.denom
           e == Other(d)
           s == CHOOSE h : IsRoute(r, Len(r), h)
<1>1. r \in Seq(Leg) /\ leg \in Leg /\ r # <<>>
    <2>1. r \in Seq(Leg)
        BY OfferAssumption
    <2>2. 1 \in 1..Len(r)
        OBVIOUS
    <2>3. r[1] \in Leg
        BY <2>1, <2>2
    <2>4. r # <<>>
        BY NotEmpty
    <2> QED
        BY <2>1, <2>3, <2>4
<1>2. Swaps(r) = After(Start, leg)
    <2>1. Swaps(r) = s[Len(r)]
        BY DEF Swaps, IsRoute, Start
    <2>2. IsRoute(r, Len(r), s)
        BY <1>1, RouteExists
    <2> HIDE DEF s
    <2>3. s[0] = Start /\ s[1] = After(s[0], r[1])
        BY <2>2 DEF IsRoute
    <2> QED
        BY <2>1, <2>3
<1>3. leg.amount \in Nat /\ d \in Denoms /\ leg.kind \in {"swap_in", "swap_out"}
    BY <1>1 DEF Leg
<1>4. e \in Denoms /\ e # d /\ \A x \in Denoms : x = d \/ x = e
    BY <1>3, OtherDenom DEF Other, Denoms
<1>5. pool.coins \in PosCoins /\ pool.coins[e] \in Nat
    BY <1>4 DEF PoolInv, Pool, PosCoins
<1>6. Start.ok = TRUE /\ Start.coins = pool.coins /\ Start.delta = Nil /\ Start.chained = Nil
    BY DEF Start
<1>7. Nil[d] = 0 /\ Nil[e] = 0 /\ Nil \in Ints
    BY <1>3, <1>4 DEF Nil, Ints
<1>8. Delta(r) = Swaps(r).delta
    BY <1>1 DEF Delta
<1> HIDE DEF leg
<1> DEFINE f == [Nil EXCEPT ![d] = @ + Pays(leg), ![e] = @ - Gets(leg)]
           h == [ok |-> TRUE, coins |-> Swapped(pool.coins, d, Pays(leg), Gets(leg)),
                 delta |-> f, chained |-> [Nil EXCEPT ![e] = Gets(leg)]]
<1>9. (leg.kind = "swap_in" /\ leg.amount = 0 => Start.chained[d] = leg.amount)
    BY <1>6, <1>7
<1>10. Gets(leg) \in Int
    BY <1>3, <1>5, SwapInBelow DEF Gets
<1>11. After(Start, leg) = IF Works(leg) THEN h ELSE [Start EXCEPT !.ok = FALSE]
    <2> DEFINE n == IF leg.kind = "swap_in" /\ leg.amount = 0 THEN Start.chained[d] ELSE leg.amount
               out == IF leg.kind = "swap_in" THEN ExactIn(Start.coins, d, n) ELSE n
               in == IF leg.kind = "swap_in" THEN n ELSE ExactOut(Start.coins, d, n)
    <2>1. n = leg.amount
        BY <1>9
    <2>2. After(Start, leg) =
            IF ~Start.ok \/ n = 0 \/ out <= 0 \/ out >= Start.coins[e] THEN [Start EXCEPT !.ok = FALSE]
            ELSE [ok |-> TRUE, coins |-> Swapped(Start.coins, d, in, out),
                  delta |-> [Start.delta EXCEPT ![d] = @ + in, ![e] = @ - out],
                  chained |-> [Start.chained EXCEPT ![e] = out]]
        BY DEF After
    <2> HIDE DEF n
    <2>3. out = Gets(leg) /\ in = Pays(leg)
        BY <1>6, <2>1 DEF Gets, Pays
    <2> HIDE DEF out, in, d, e
    <2>4. Works(leg) <=> ~(~Start.ok \/ n = 0 \/ out <= 0 \/ out >= Start.coins[e])
        BY <1>5, <1>6, <1>10, <2>1, <2>3 DEF Works, d, e
    <2> QED
        BY <1>6, <2>2, <2>3, <2>4
<1>12. Swaps(r).ok = Works(leg)
    <2>1. Start \in [ok: {TRUE}, coins: {pool.coins}, delta: {Nil}, chained: {Nil}]
        BY DEF Start
    <2>2. [Start EXCEPT !.ok = FALSE].ok = FALSE
        BY <2>1
    <2>3. h.ok = TRUE
        OBVIOUS
    <2>4. Works(leg) \in BOOLEAN
        BY DEF Works
    <2> HIDE DEF h
    <2> QED
        BY <1>2, <1>11, <2>2, <2>3, <2>4
<1>13. ASSUME Works(leg)
       PROVE  /\ Pays(leg) \in Nat /\ Gets(leg) \in Nat
              /\ Swaps(r).coins = Swapped(pool.coins, d, Pays(leg), Gets(leg))
              /\ Delta(r) \in Ints
              /\ Delta(r)[d] = Pays(leg) /\ Delta(r)[e] = -Gets(leg)
    <2>1. Gets(leg) \in Nat /\ Gets(leg) < pool.coins[e]
        BY <1>10, <1>13 DEF Works
    <2>2. Pays(leg) \in Nat
        BY <1>3, <1>5, <2>1, SwapOutNat DEF Pays, Gets
    <2>3. Swaps(r) = h
        BY <1>2, <1>11, <1>13
    <2>4. Swaps(r).coins = Swapped(pool.coins, d, Pays(leg), Gets(leg)) /\ Delta(r) = f
        BY <1>8, <2>3
    <2>5. f \in Ints /\ f[d] = Pays(leg) /\ f[e] = -Gets(leg)
        BY <1>3, <1>4, <1>7, <2>1, <2>2 DEF Ints
    <2> QED
        BY <2>1, <2>2, <2>4, <2>5
<1> QED
    BY <1>1, <1>12, <1>13 DEF leg

\* the message of one swap
SwapMessage(u, leg) == IF leg.kind = "swap_in" THEN SwapIn(u, leg.denom, leg.amount)
                                               ELSE SwapOut(u, leg.denom, leg.amount)

(* The message makes the trade of its leg, when it works. *)
LEMMA MessageOfLeg ==
    ASSUME PoolInv, pool # NoPool, NEW u, NEW leg \in Leg
    PROVE  /\ Works(leg) => (SwapMessage(u, leg) <=>
                                Usable /\ Trade(u, leg.denom, Pays(leg), Gets(leg)))
           /\ ~Works(leg) /\ SwapMessage(u, leg) =>
                  Pays(leg) = 0 /\ Gets(leg) = 0 /\ Trade(u, leg.denom, 0, 0)
<1> DEFINE d == leg.denom
           n == leg.amount
           c == pool.coins
           e == Other(d)
<1>1. n \in Nat /\ d \in Denoms /\ c \in PosCoins
    BY DEF Leg, PoolInv, Pool, PosCoins
<1>2. e \in Denoms /\ c[e] \in Nat \ {0} /\ c[d] \in Nat \ {0}
    BY <1>1, OtherDenom DEF PosCoins
<1>3. ExactIn(c, d, n) \in Int /\ ExactIn(c, d, n) < c[e]
    BY <1>1, SwapInBelow
<1>4. n = 0 => ExactIn(c, d, n) = 0 /\ ExactOut(c, d, n) = 0
    <2> SUFFICES ASSUME n = 0 PROVE ExactIn(c, d, 0) = 0 /\ ExactOut(c, d, 0) = 0
        OBVIOUS
    <2> DEFINE x == c[d] * DecOne
               y == c[e] * (DecOne - FeeRate)
    <2>1. x \in Nat \ {0} /\ y \in Nat \ {0}
        BY <1>2, MulPos, FeeLeaves
    <2>2. CeilDiv(c[d] * c[e] * DecOne, x + 0 * (DecOne - FeeRate)) = c[e]
        <3>1. c[d] * c[e] * DecOne = c[e] * x
            BY <1>2, FeeLeaves
        <3>2. x + 0 * (DecOne - FeeRate) = x
            BY <2>1, FeeLeaves
        <3> DEFINE k == c[e]
        <3>3. k \in Nat
            BY <1>2
        <3> HIDE DEF x, k
        <3>4. CeilDiv(k * x, x) = k
            BY <2>1, <3>3, CeilOfProduct
        <3> QED
            BY <3>1, <3>2, <3>4 DEF k
    <2>3. CeilDiv(c[d] * 0 * DecOne, (c[e] - 0) * (DecOne - FeeRate)) = 0
        <3>1. c[d] * 0 * DecOne = 0
            BY <1>2, FeeLeaves
        <3>2. (c[e] - 0) * (DecOne - FeeRate) = y
            BY <1>2
        <3> HIDE DEF y
        <3>3. CeilDiv(0 * y, y) = 0 /\ 0 * y = 0
            BY <2>1, CeilOfProduct
        <3> QED
            BY <3>1, <3>2, <3>3
    <2> QED
        BY <1>2, <2>2, <2>3 DEF ExactIn, ExactOut
<1>5. CASE leg.kind = "swap_in"
    <2>1. Gets(leg) = ExactIn(c, d, n) /\ Pays(leg) = n
        BY <1>5 DEF Gets, Pays
    <2>2. Works(leg) <=> ExactIn(c, d, n) > 0
        BY <1>1, <1>3, <1>4, <2>1 DEF Works
    <2>3. SwapMessage(u, leg) <=> Usable /\ ExactIn(c, d, n) > 0 /\ Trade(u, d, n, ExactIn(c, d, n))
        BY <1>5 DEF SwapMessage, SwapIn
    <2> QED
        BY <2>1, <2>2, <2>3
<1>6. CASE leg.kind # "swap_in"
    <2>1. Gets(leg) = n /\ Pays(leg) = ExactOut(c, d, n)
        BY <1>6 DEF Gets, Pays
    <2>2. Works(leg) <=> n # 0 /\ n < c[e]
        BY <1>1, <2>1 DEF Works
    <2>3. SwapMessage(u, leg) <=> Usable /\ n < c[e] /\ Trade(u, d, ExactOut(c, d, n), n)
        BY <1>6 DEF SwapMessage, SwapOut
    <2> QED
        BY <1>4, <2>1, <2>2, <2>3
<1> QED
    BY <1>5, <1>6

(* The swap of one leg as a message is the trade of that route, without takes. *)
LEMMA MessageIsTrade ==
    ASSUME IsFiniteSet(Users), Money, NEW u \in Users, NEW r \in Routes, Len(r) = 1,
           pool # NoPool, Works(r[1]),
           trades < MaxTrades, trades' = trades + 1, UNCHANGED index, Asserted'
    PROVE  SwapMessage(u, r[1]) /\ UNCHANGED offers <=> CanSwap(r) /\ MakeTrade(u, <<>>, r)
<1> DEFINE leg == r[1]
           d == leg.denom
           e == Other(d)
           in == Pays(leg)
           out == Gets(leg)
           delta == Delta(r)
<1>1. /\ offers \in Seq(Sound) /\ PoolInv /\ bank \in [Accounts -> Coins] /\ BooksBalance
      /\ pool \in Pool /\ pool.uses \in Nat /\ MaxUses \in Nat
    BY PoolAssumption DEF Money, BookInv, PoolInv, Pool
<1>2. /\ leg \in Leg /\ r # <<>> /\ Swaps(r).ok
      /\ in \in Nat /\ out \in Nat /\ Swaps(r).coins = Swapped(pool.coins, d, in, out)
      /\ delta \in Ints /\ delta[d] = in /\ delta[e] = -out
    BY <1>1, OneLeg
<1>3. d \in Denoms /\ e \in Denoms /\ e # d /\ \A x \in Denoms : x = d \/ x = e
    BY <1>2, OtherDenom DEF Leg, Other, Denoms
<1>4. out < pool.coins[e]
    BY DEF Works
<1>5. bank[Module][e] >= out /\ bank[Module][d] >= -in /\ bank[u][e] >= -out
    <2>1. bank[Module][e] = Tally(offers, e) + pool.coins[e]
        BY <1>1, <1>3, OwedIs DEF BooksBalance, Reserve
    <2>2. Tally(offers, e) \in Nat /\ pool.coins[e] \in Nat
        BY <1>1, <1>3, TallyOf DEF Pool
    <2>3. bank[Module][d] \in Nat /\ bank[u][e] \in Nat
        BY <1>1, <1>3 DEF Accounts, Coins
    <2>4. in \in Nat /\ out \in Nat
        BY <1>2
    <2> HIDE DEF out, in, d, e
    <2>5. bank[Module][e] >= out
        BY <1>4, <2>1, <2>2, <2>4
    <2>6. bank[Module][d] >= -in
        BY <2>3, <2>4
    <2>7. bank[u][e] >= -out
        BY <2>3, <2>4
    <2> QED
        BY <2>5, <2>6, <2>7
<1>6. SwapMessage(u, leg) <=> Usable /\ Trade(u, d, in, out)
    BY <1>1, <1>2, MessageOfLeg
<1>7. CanSwap(r) <=> Usable
    <2> DEFINE n == pool.uses
    <2>1. CanSwap(r) <=> n + 1 <= MaxUses
        BY <1>2 DEF CanSwap
    <2>2. Usable <=> n < MaxUses
        BY DEF Usable
    <2>3. n \in Nat
        BY <1>1
    <2> HIDE DEF n
    <2>4. n + 1 <= MaxUses <=> n < MaxUses
        BY <1>1, <2>3
    <2> QED
        BY <2>1, <2>2, <2>4
<1>8. SwapBank(u, delta) = Exchange(u, One(d, in), One(e, out))
    <2> DEFINE due(a, x) == CASE a = u -> -delta[x] [] a = Module -> delta[x] [] OTHER -> 0
               P == Plus(Minus(bank[u], One(d, in)), One(e, out))
               Q == Plus(Minus(bank[Module], One(e, out)), One(d, in))
               was(a) == [x \in Denoms |-> bank[a][x] + due(a, x)]
    <2>1. u # Module /\ u \in Accounts /\ Module \in Accounts
        BY PoolAssumption DEF Accounts
    <2>2. \A x \in Denoms : due(u, x) = -delta[x] /\ due(Module, x) = delta[x]
        BY <2>1
    <2>3. \A a \in Accounts, x \in Denoms : a # u /\ a # Module => due(a, x) = 0
        OBVIOUS
    <2>4. \A a \in Accounts : bank[a] \in Coins /\ \A x \in Denoms : bank[a][x] \in Nat
        BY <1>1 DEF Coins
    <2>5. SwapBank(u, delta) = [a \in Accounts |-> was(a)]
        BY DEF SwapBank
    <2>6. Exchange(u, One(d, in), One(e, out)) = [bank EXCEPT ![u] = P, ![Module] = Q]
        BY <2>1 DEF Exchange
    <2> HIDE DEF due, in, out, delta, d, e
    <2>7. was(u) = P
        <3>1. ASSUME NEW x \in Denoms PROVE bank[u][x] + due(u, x) = P[x]
            <4>1. P[x] = bank[u][x] - (IF x = d THEN in ELSE 0) + (IF x = e THEN out ELSE 0)
                BY DEF Plus, Minus, One
            <4> HIDE DEF P
            <4> QED
                BY <1>2, <1>3, <2>1, <2>2, <2>4, <4>1
        <3>2. P = [x \in Denoms |-> P[x]]
            BY DEF Plus
        <3> HIDE DEF P
        <3> QED
            BY <3>1, <3>2
    <2>8. was(Module) = Q
        <3>1. ASSUME NEW x \in Denoms PROVE bank[Module][x] + due(Module, x) = Q[x]
            <4>1. Q[x] = bank[Module][x] - (IF x = e THEN out ELSE 0) + (IF x = d THEN in ELSE 0)
                BY DEF Plus, Minus, One
            <4> HIDE DEF Q
            <4> QED
                BY <1>2, <1>3, <2>1, <2>2, <2>4, <4>1
        <3>2. Q = [x \in Denoms |-> Q[x]]
            BY DEF Plus
        <3> HIDE DEF Q
        <3> QED
            BY <3>1, <3>2
    <2>9. ASSUME NEW a \in Accounts, a # u, a # Module PROVE was(a) = bank[a]
        <3>1. \A x \in Denoms : bank[a][x] + due(a, x) = bank[a][x]
            BY <2>3, <2>4, <2>9
        <3>2. bank[a] = [x \in Denoms |-> bank[a][x]]
            BY <2>4 DEF Coins
        <3> QED
            BY <3>1, <3>2
    <2> HIDE DEF was, P, Q
    <2>10. [a \in Accounts |-> was(a)] = [bank EXCEPT ![u] = P, ![Module] = Q]
        <3>1. bank = [a \in Accounts |-> bank[a]]
            BY <1>1
        <3>2. \A a \in Accounts : was(a) = [bank EXCEPT ![u] = P, ![Module] = Q][a]
            BY <1>1, <2>1, <2>7, <2>8, <2>9
        <3>3. [bank EXCEPT ![u] = P, ![Module] = Q] \in [Accounts -> {[bank EXCEPT ![u] = P, ![Module] = Q][a] : a \in Accounts}]
            BY <3>1
        <3> QED
            BY <3>2, <3>3
    <2> QED
        BY <2>5, <2>6, <2>10
<1>9. [pool EXCEPT !.coins = Swapped(@, d, in, out), !.uses = @ + 1]
        = [pool EXCEPT !.coins = Swaps(r).coins, !.uses = @ + Len(r)]
    BY <1>2
<1>10. MakeTrade(u, <<>>, r) <=> Trade(u, d, in, out) /\ UNCHANGED offers
    <2>1. (\A x \in Denoms : bank[u][x] >= delta[x] /\ bank[Module][x] >= -delta[x]) <=> bank[u][d] >= in
        <3>1. -delta[d] = -in /\ -delta[e] = out
            BY <1>2
        <3> HIDE DEF delta, in, out, d, e
        <3> QED
            BY <1>2, <1>3, <1>5, <3>1
    <2>2. UNCHANGED <<byDenom, byStatus, byPrice>>
        BY DEF index
    <2> QED
        BY <1>1, <1>2, <1>8, <1>9, <2>1, <2>2, TradeWithoutTakes DEF Trade
<1> QED
    BY <1>2, <1>6, <1>7, <1>10

(* A trade that leaves all offers alone takes none of them. *)
LEMMA TakesChangeOffers ==
    ASSUME BookInv, NEW u \in Users, NEW t \in Takes, CanTake(t), NEW route \in Routes,
           MakeTrade(u, t, route), UNCHANGED offers
    PROVE  DOMAIN t = {} /\ Done(t) = {} /\ UNCHANGED index
<1>1. offers \in Seq(Sound)
    BY DEF BookInv
<1>2. \A i \in DOMAIN t : /\ t[i] \in Nat \ {0} /\ offers[i].units \in Nat /\ offers[i] \in Offer
    BY <1>1, TakeTypes, SoundOffers DEF Sound
<1>3. ASSUME NEW i \in DOMAIN t PROVE FALSE
    <2>1. offers'[i] = [offers[i] EXCEPT !.units = @ - t[i],
                                         !.status = IF i \in Done(t) THEN "closed" ELSE "open"]
        <3>1. offers'[i] = LeftOf(t, i)
            BY OffersAfter
        <3> QED
            BY <3>1 DEF LeftOf
    <2>2. offers'[i].units = offers[i].units - t[i]
        BY <1>2, <2>1 DEF Offer
    <2>3. offers'[i].units = offers[i].units
        OBVIOUS
    <2> QED
        BY <1>2, <2>2, <2>3
<1>4. DOMAIN t = {} /\ Done(t) = {}
    BY <1>3 DEF Done
<1>5. {<<CloseKey(offers[i]), i>> : i \in {}} = {}
    OBVIOUS
<1> QED
    BY <1>4, <1>5 DEF MakeTrade, Reindex, index

(* A trade of one swap and nothing else, which the general netting settles, does what the message  *)
(* of a swap does that the pool's module and the loans take for granted: the same checks, the same *)
(* rounding, the same balances and reserves.                                                       *)
THEOREM SwapsAreTrades == IsFiniteSet(Users) => (Spec => SwapsAgree)
<1> SUFFICES ASSUME IsFiniteSet(Users) PROVE Spec => SwapsAgree
    OBVIOUS
<1> DEFINE Agree == \A u \in Users, r \in {q \in Routes : Len(q) = 1} :
                        LET swap == IF r[1].kind = "swap_in" THEN SwapIn(u, r[1].denom, r[1].amount)
                                                             ELSE SwapOut(u, r[1].denom, r[1].amount)
                        IN swap /\ UNCHANGED offers <=> CanSwap(r) /\ MakeTrade(u, <<>>, r)
<1>1. ASSUME Money, Next, trades' # trades PROVE Agree
    <2>1. PICK v \in Users, q \in Routes, t \in Takes : CanSwap(q) /\ CanTake(t) /\ MakeTrade(v, t, q)
        <3>1. \A u \in Users, d \in Denoms, x \in Shapes : ~MakeOffer(u, d, x, FALSE, Nil)
            BY <1>1 DEF MakeOffer
        <3>2. \A u \in Users, d \in Denoms, x \in Shapes, p \in Pfands : ~MakeOffer(u, d, x, TRUE, p)
            BY <1>1 DEF MakeOffer
        <3>3. \A u \in Users, i \in DOMAIN offers : ~CancelOffer(u, i)
            BY <1>1 DEF CancelOffer
        <3>4. ~ExportImport /\ trades' # trades
            BY <1>1 DEF ExportImport
        <3> QED
            BY <1>1, <3>1, <3>2, <3>3, <3>4 DEF Next
    <2>2. trades < MaxTrades /\ trades' = trades + 1 /\ Asserted'
        BY <2>1 DEF MakeTrade
    <2>3. BookInv /\ PoolInv
        BY <1>1 DEF Money
    <2>4. ASSUME NEW u \in Users, NEW r \in Routes, Len(r) = 1
          PROVE  SwapMessage(u, r[1]) /\ UNCHANGED offers <=> CanSwap(r) /\ MakeTrade(u, <<>>, r)
        <3>1. CASE pool = NoPool
            <4>1. ~SwapMessage(u, r[1])
                BY <3>1 DEF SwapMessage, SwapIn, SwapOut, Usable
            <4>2. r # <<>>
                BY <2>4, NotEmpty
            <4>3. ~CanSwap(r)
                BY <3>1, <4>2 DEF CanSwap
            <4> QED
                BY <4>1, <4>3
        <3>2. CASE pool # NoPool /\ ~Works(r[1])
            <4>1. ~CanSwap(r)
                BY <2>3, <2>4, <3>2, OneLeg DEF CanSwap
            <4>2. ASSUME SwapMessage(u, r[1]), UNCHANGED offers PROVE FALSE
                <5>1. r[1] \in Leg /\ r[1].denom \in Denoms
                    BY <2>3, <2>4, <3>2, OneLeg DEF Leg
                <5>2. Trade(u, r[1].denom, 0, 0)
                    BY <2>3, <3>2, <4>2, <5>1, MessageOfLeg
                <5>3. pool \in Pool /\ pool.coins \in PosCoins /\ pool.uses \in Nat
                    BY <2>3, <3>2 DEF PoolInv, Pool, PosCoins
                <5>4. pool'.coins = Swapped(pool.coins, r[1].denom, 0, 0) /\ pool'.uses = pool.uses + 1
                    BY <5>2, <5>3 DEF Trade, Pool
                <5>5. \A x \in Denoms : pool'.coins[x] = pool.coins[x]
                    BY <5>1, <5>3, <5>4, OtherDenom DEF Swapped, PosCoins
                <5>6. DOMAIN t = {}
                    BY <2>1, <2>3, <4>2, TakesChangeOffers
                <5>7. q # <<>> /\ q \in Seq(Leg)
                    BY <2>1, <5>6, OfferAssumption DEF MakeTrade
                <5>8. pool'.coins = Swaps(q).coins /\ pool'.uses = pool.uses + Len(q)
                    BY <2>1, <5>3, <5>7 DEF MakeTrade, Pool
                <5>9. Len(q) = 1
                    <6> DEFINE n == Len(q)
                    <6>1. n \in Nat
                        BY <5>7
                    <6> HIDE DEF n
                    <6>2. pool.uses + n = pool.uses + 1
                        BY <5>4, <5>8 DEF n
                    <6>3. n = 1
                        BY <5>3, <6>1, <6>2
                    <6> QED
                        BY <6>3 DEF n
                <5>10. Works(q[1])
                    BY <2>1, <2>3, <3>2, <5>7, <5>9, OneLeg DEF CanSwap
                <5>11. /\ q[1] \in Leg /\ Pays(q[1]) \in Nat /\ Gets(q[1]) \in Nat
                       /\ Swaps(q).coins = Swapped(pool.coins, q[1].denom, Pays(q[1]), Gets(q[1]))
                    BY <2>3, <3>2, <5>9, <5>10, OneLeg
                <5> DEFINE z == Other(q[1].denom)
                <5>12. z \in Denoms /\ q[1].denom \in Denoms /\ z # q[1].denom
                    BY <5>11, OtherDenom DEF Leg
                <5>13. Swaps(q).coins[z] = pool.coins[z] - Gets(q[1])
                    BY <5>3, <5>11, <5>12 DEF Swapped, PosCoins
                <5>14. Gets(q[1]) > 0 /\ pool.coins[z] \in Nat
                    BY <5>3, <5>10, <5>12 DEF Works, PosCoins
                <5> HIDE DEF z
                <5> QED
                    BY <5>5, <5>8, <5>11, <5>12, <5>13, <5>14
            <4> QED
                BY <4>1, <4>2
        <3>3. CASE pool # NoPool /\ Works(r[1])
            <4>1. ASSUME UNCHANGED offers PROVE UNCHANGED index
                BY <2>1, <2>3, <4>1, TakesChangeOffers
            <4>2. CASE UNCHANGED offers
                BY <1>1, <2>2, <2>4, <3>3, <4>1, <4>2, MessageIsTrade
            <4>3. CASE ~UNCHANGED offers
                <5>1. ~MakeTrade(u, <<>>, r)
                    <6>1. Delta(r) \in Ints /\ r # <<>>
                        BY <2>3, <2>4, <3>3, OneLeg
                    <6> QED
                        BY <1>1, <2>3, <4>3, <6>1, TradeWithoutTakes DEF Money, BookInv
                <5> QED
                    BY <4>3, <5>1
            <4> QED
                BY <4>2, <4>3
        <3> QED
            BY <3>1, <3>2, <3>3
    <2> QED
        BY <2>4 DEF SwapMessage
<1>2. Money /\ [Next]_vars => [trades' # trades => Agree]_vars
    BY <1>1
<1> QED
    BY <1>2, MoneyInductive, PTL DEF Spec, SwapsAgree

=============================================================================
