---------------------------- MODULE MoneyProofs -----------------------------
(***************************************************************************)
(* What the arithmetic of paise promises for every amount, and what a sum  *)
(* over a finite set is: the money, food and stock of the models are       *)
(* counted with such sums.                                                 *)
(***************************************************************************)
EXTENDS Money, FiniteSetTheorems, TLAPS

\* A whole quotient and what it leaves.
LEMMA QuotientAndRest ==
    ASSUME NEW n \in Int, NEW d \in Nat \ {0}
    PROVE /\ n \div d \in Int /\ n % d \in 0 .. (d - 1)
          /\ n = d * (n \div d) + (n % d)
OBVIOUS

\* Products keep an order.
LEMMA Products ==
    ASSUME NEW a \in Int, NEW b \in Int, NEW d \in Nat
    PROVE /\ a <= b => d * a <= d * b
          /\ (d > 0 /\ d * a < d * b) => a < b
          /\ (d > 0 /\ d * a < d * b + d) => a <= b
<1>1. a <= b => d * a <= d * b
  BY Z3
<1>2. (d > 0 /\ d * a < d * b) => a < b
  BY Z3
<1>3. (d > 0 /\ d * a < d * b + d) => a <= b
  BY Z3
<1>. QED  BY <1>1, <1>2, <1>3

\* The two halves of a tax are the tax, and differ by a paisa at most
\* (`halve_exact`: CGST and SGST).
THEOREM HalvesAddUp ==
    ASSUME NEW a \in Int
    PROVE /\ FirstHalf(a) + SecondHalf(a) = a
          /\ FirstHalf(a) - SecondHalf(a) \in -1 .. 1
BY DEF FirstHalf, SecondHalf, MulRatio

\* A rounded total is whole rupees, less than a rupee away (`round_adjustment`).
THEOREM RoundsToRupees ==
    ASSUME NEW a \in Int, NEW mode \in Modes \ {"none"}
    PROVE /\ (a + RoundOff(a, mode)) % 100 = 0
          /\ RoundOff(a, mode) \in -99 .. 99
<1>1. CASE a % 100 = 0
  BY <1>1 DEF RoundOff, Modes
<1>2. CASE a % 100 # 0 /\ mode = "down"
  BY <1>2 DEF RoundOff, Modes
<1>3. CASE a % 100 # 0 /\ mode = "up"
  BY <1>3 DEF RoundOff, Modes
<1>4. CASE a % 100 # 0 /\ mode = "nearest"
  <2>1. RoundOff(a, mode) = IF a >= 0 THEN ToNearest(a) ELSE -ToNearest(-a)
    BY <1>4 DEF RoundOff
  <2>2. ASSUME NEW b \in Int
        PROVE (b + ToNearest(b)) % 100 = 0 /\ ToNearest(b) \in -99 .. 99
    BY DEF ToNearest
  <2>3. CASE a >= 0
    BY <2>1, <2>2, <2>3
  <2>4. CASE a < 0
    <3>1. (-a + ToNearest(-a)) % 100 = 0 /\ ToNearest(-a) \in -99 .. 99
      BY <2>2
    <3>2. RoundOff(a, mode) = -ToNearest(-a)
      BY <2>1, <2>4
    <3>3. ASSUME NEW b \in Int, b % 100 = 0
          PROVE (-b) % 100 = 0
      BY <3>3
    <3>4. -a + ToNearest(-a) \in Int /\ -(-a + ToNearest(-a)) = a + RoundOff(a, mode)
      BY <3>1, <3>2
    <3>. QED  BY <3>1, <3>2, <3>3, <3>4
  <2>. QED  BY <2>3, <2>4
<1>. QED  BY <1>1, <1>2, <1>3, <1>4 DEF Modes

\* A floored share of `total` is within nothing and its part, and leaves room
\* for one paisa more when flooring cost it something (`mul_ratio_floor`, `spread`).
LEMMA FloorWithin ==
    ASSUME NEW total \in Nat, NEW net \in Nat, NEW all \in Nat \ {0}, total <= all
    PROVE /\ MulRatioFloor(total, net, all) \in 0 .. net
          /\ (total * net) % all > 0 => MulRatioFloor(total, net, all) + 1 <= net
<1>. DEFINE q == (total * net) \div all
            r == (total * net) % all
<1>1. total * net \in Nat /\ total * net \in Int
  BY Z3
<1>2. q \in Int /\ r \in 0 .. (all - 1) /\ total * net = all * q + r
  BY <1>1, QuotientAndRest, Zenon
<1>3. net * total <= net * all
  BY Products
<1>4. total * net <= all * net
  BY <1>3, Z3
<1>. HIDE DEF q, r
<1>5. all * q <= all * net /\ (r > 0 => all * q < all * net)
  BY <1>1, <1>2, <1>4, Z3
<1>6. q <= net /\ (r > 0 => q < net)
  <2>1. all * net \in Int /\ all * q \in Int
    BY <1>2
  <2>2. all * q < all * net + all
    BY <1>5, <2>1
  <2>. QED  BY <1>2, <1>5, <2>2, Products
<1>7. q >= 0
  <2>1. all * 0 < all * q + all
    BY <1>1, <1>2, Z3
  <2>. QED  BY <2>1, <1>2, Products
<1>. QED  BY <1>2, <1>6, <1>7 DEF MulRatioFloor, q, r

\* A flat discount of a split line is given away once: what leaves and what
\* stays is all of it, neither below nothing (`take_lines`).
THEOREM SharesOfALine ==
    ASSUME NEW amount \in Nat, NEW of \in Nat \ {0}, NEW qty \in 0 .. of
    PROVE /\ LeavingShare(amount, qty, of) + StayingShare(amount, qty, of) = amount
          /\ LeavingShare(amount, qty, of) \in 0 .. amount
          /\ StayingShare(amount, qty, of) \in 0 .. amount
<1>1. MulRatioFloor(qty, amount, of) \in 0 .. amount
  BY FloorWithin
<1>2. qty * amount = amount * qty
  BY Z3
<1>3. MulRatioFloor(amount, qty, of) \in 0 .. amount
  BY <1>1, <1>2 DEF MulRatioFloor
<1>. QED  BY <1>3 DEF LeavingShare, StayingShare

\* To the nearest, a ratio of amounts is never below nothing.
LEMMA RatioIsNat ==
    ASSUME NEW a \in Nat, NEW n \in Nat, NEW d \in Nat \ {0}
    PROVE MulRatio(a, n, d) = (a * n + (d \div 2)) \div d /\ MulRatio(a, n, d) \in Nat
<1>1. a * n \in Nat
  BY Z3
<1>2. d \div 2 \in Nat
  OBVIOUS
<1>3. MulRatio(a, n, d) = (a * n + (d \div 2)) \div d
  BY <1>1 DEF MulRatio
<1>4. ASSUME NEW m \in Nat PROVE m \div d \in Nat
  <2>1. m \div d \in Int /\ m % d \in 0 .. (d - 1) /\ m = d * (m \div d) + (m % d)
    BY QuotientAndRest
  <2>2. d * 0 < d * (m \div d) + d
    BY <2>1, Z3
  <2>. QED  BY <2>1, <2>2, Products
<1>5. a * n + (d \div 2) \in Nat
  BY <1>1, <1>2
<1>. QED  BY <1>3, <1>4, <1>5

\* No discount takes more than there is (`compute_on`).
THEOREM DiscountTakesNoMore ==
    ASSUME NEW base \in Nat, NEW of \in Nat, NEW kind \in {"none", "amount", "percent"}
    PROVE Taken([kind |-> kind, of |-> of], base) \in 0 .. base
<1>1. Percent(base, of) \in Nat
  BY RatioIsNat DEF Percent
<1>. QED  BY <1>1 DEF Taken, Asked, Less

\* A price that holds its tax: what is taxed and the tax are the price, and
\* neither is below nothing (`compute_line`, inclusive).
THEOREM InclusiveTaxTies ==
    ASSUME NEW net \in Nat, NEW rate \in Nat
    PROVE /\ Taxable(net, rate, TRUE) + Tax(net, rate, TRUE) = net
          /\ Taxable(net, rate, TRUE) \in 0 .. net
          /\ Tax(net, rate, TRUE) \in 0 .. net
<1>. DEFINE d == 10000 + rate
            m == net * 10000 + (d \div 2)
            q == m \div d
<1>1. d \in Nat \ {0} /\ m \in Nat /\ m \in Int /\ d \div 2 \in 0 .. (d - 1)
  OBVIOUS
<1>2. Taxable(net, rate, TRUE) = q /\ q \in Nat
  BY <1>1, RatioIsNat DEF Taxable
<1>4. net * 10000 <= d * net /\ m = net * 10000 + (d \div 2)
  BY Z3
<1>. HIDE DEF d, m
<1>3. q \in Int /\ m % d \in 0 .. (d - 1) /\ m = d * q + (m % d)
  BY <1>1, QuotientAndRest, Zenon
<1>5. d * q < d * net + d
  <2>. HIDE DEF q
  <2>1. d * net \in Int /\ d * q \in Int
    BY <1>1, <1>3, Z3
  <2>. QED  BY <1>1, <1>3, <1>4, <2>1
<1>6. q <= net
  BY <1>1, <1>2, <1>5, Products
<1>. QED  BY <1>2, <1>6 DEF Tax, Taxable

\* Whatever the other lines are, a line's share of an amount is less than a
\* paisa below its exact proportion and at most a paisa above it (`spread`).
THEOREM SharesAreProportional ==
    ASSUME NEW total \in Nat \ {0}, NEW nets, NEW i \in DOMAIN nets,
           nets[i] \in Nat, NEW all \in Nat \ {0}, all = SumFunction(nets)
    PROVE /\ Spread(total, nets)[i] \in Int
          /\ all * Spread(total, nets)[i] <= total * nets[i] + all
          /\ total * nets[i] < all * Spread(total, nets)[i] + all
<1>. DEFINE exact == total * nets[i]
            floor == exact \div all
            rest == exact % all
            share == Spread(total, nets)[i]
<1>1. exact \in Nat /\ exact \in Int
  BY Z3
<1>. HIDE DEF exact
<1>2. floor \in Int /\ rest \in 0 .. (all - 1) /\ exact = all * floor + rest
  BY <1>1, QuotientAndRest, Zenon
<1>3. share = floor \/ share = floor + 1
  <2>1. Floors(total, nets)[i] = floor
    BY DEF Floors, MulRatioFloor, exact
  <2>2. \/ share = Floors(total, nets)[i] + 0
        \/ share = Floors(total, nets)[i] + 1
    BY DEF Spread
  <2>. QED  BY <1>2, <2>1, <2>2
<1>. HIDE DEF floor, rest, share
<1>4. all * floor \in Int /\ all * (floor + 1) = all * floor + all
  BY <1>2, Z3
<1>5. share \in Int /\ all * share <= exact + all /\ exact < all * share + all
  <2>1. CASE share = floor
    BY <1>2, <1>4, <2>1
  <2>2. CASE share = floor + 1
    BY <1>2, <1>4, <2>2
  <2>. QED  BY <1>3, <2>1, <2>2
<1>. QED  BY <1>5 DEF exact, share
-----------------------------------------------------------------------------
(* Sums.  A sum is a recursive function over the subsets of a finite set;  *)
(* that the strict subsets of it are well founded is the induction.        *)

\* Induction over the subsets of a finite set: what holds of a set whenever it
\* holds of that set without any one of its elements holds of all of them.
LEMMA SubsetInduction ==
    ASSUME NEW S, IsFiniteSet(S), NEW T,
           \A s \in SUBSET S : (\A x \in s : s \ {x} \in T) => s \in T
    PROVE  SUBSET S \subseteq T
<1>. DEFINE N == (SUBSET S) \ T
            R == StrictSubsetOrdering(S)
<1>1. SUFFICES ASSUME N # {} PROVE FALSE
  OBVIOUS
<1>2. FiniteSubsetsOf(S) = SUBSET S
  BY FS_FiniteSubsetsOfFinite
<1>3. IsWellFoundedOn(R, SUBSET S)
  BY <1>2, FS_StrictSubsetOrderingWellFounded
<1>4. N \subseteq SUBSET S
  OBVIOUS
<1>5. PICK s \in N : \A t \in N : ~ (<<t, s>> \in R)
  <2>. HIDE DEF N, R
  <2>. QED  BY <1>1, <1>3, <1>4, WFMin, Zenon
<1>6. ASSUME NEW x \in s PROVE s \ {x} \in T
  <2>1. <<s \ {x}, s>> \in R
    BY <1>2, <1>6 DEF StrictSubsetOrdering
  <2>2. s \ {x} \notin N
    BY <1>5, <2>1
  <2>. QED  BY <2>2
<1>. QED  BY <1>6

\* The fold behind a sum: one element, and the sum of the others.
AnyOne(s) == CHOOSE x \in s : TRUE
Summing(f, S, g) == g = [s \in SUBSET S |-> IF s = {} THEN 0 ELSE f[AnyOne(s)] + g[s \ {AnyOne(s)}]]

\* The community modules' sum is the fold that takes one element after another.
LEMMA SumIsFolded == ASSUME NEW f, NEW S PROVE SumFunctionOnSet(f,S) = (CHOOSE g : Summing(f,S,g))[S]
BY Zenon DEF SumFunctionOnSet, FoldFunctionOnSet, MapThenFoldSet, AnyOne, Summing

\* A set that has elements gives one of them.
LEMMA AnyOneIsIn == ASSUME NEW s, s # {} PROVE AnyOne(s) \in s
BY DEF AnyOne

\* The fold, unfolded once.
LEMMA OneStep ==
    ASSUME NEW f, NEW S, NEW g, Summing(f, S, g), NEW s \in SUBSET S
    PROVE  /\ s = {} => g[s] = 0
           /\ s # {} => g[s] = f[AnyOne(s)] + g[s \ {AnyOne(s)}]
BY DEF Summing

\* Adding up a set adds up its subsets.
LEMMA SummingBelow ==
    ASSUME NEW f, NEW S, NEW g, Summing(f, S, g), NEW T \in SUBSET S
    PROVE  Summing(f, T, [t \in SUBSET T |-> g[t]])
<1>. DEFINE h == [t \in SUBSET T |-> g[t]]
<1>1. ASSUME NEW t \in SUBSET T
      PROVE  h[t] = IF t = {} THEN 0 ELSE f[AnyOne(t)] + h[t \ {AnyOne(t)}]
  <2>1. t \in SUBSET S /\ t \ {AnyOne(t)} \in SUBSET T
    OBVIOUS
  <2>. QED  BY <2>1, OneStep
<1>2. h = [t \in SUBSET T |-> IF t = {} THEN 0 ELSE f[AnyOne(t)] + h[t \ {AnyOne(t)}]]
  <2>. DEFINE k == [t \in SUBSET T |-> IF t = {} THEN 0 ELSE f[AnyOne(t)] + h[t \ {AnyOne(t)}]]
  <2>1. \A t \in SUBSET T : h[t] = k[t]
    BY <1>1
  <2>. QED  BY <2>1
<1>. HIDE DEF h
<1>. QED  BY <1>2 DEF Summing

\* Two of them agree where both are defined.
LEMMA SummingAgrees ==
    ASSUME NEW f, NEW S, NEW T, IsFiniteSet(S), NEW g, NEW h, Summing(f, S, g), Summing(f, T, h),
           NEW s \in SUBSET (S \cap T)
    PROVE  g[s] = h[s]
<1>. DEFINE U == S \cap T
            A == {t \in SUBSET U : g[t] = h[t]}
<1>1. IsFiniteSet(U)
  BY FS_Subset
<1>2. ASSUME NEW t \in SUBSET U, \A x \in t : t \ {x} \in A
      PROVE  t \in A
  <2>1. CASE t = {}
    BY <2>1, OneStep
  <2>2. CASE t # {}
    <3>1. t \ {AnyOne(t)} \in A
      BY <1>2, <2>2, AnyOneIsIn
    <3>. QED  BY <2>2, <3>1, OneStep
  <2>. QED  BY <2>1, <2>2
<1>3. SUBSET U \subseteq A
  <2>. HIDE DEF A, U
  <2>. QED  BY <1>1, <1>2, SubsetInduction
<1>. QED  BY <1>3

\* Every finite set can be added up.
LEMMA SummingExists ==
    ASSUME NEW f, NEW S, IsFiniteSet(S)
    PROVE  \E g : Summing(f, S, g)
<1>. DEFINE A == {t \in SUBSET S : \E g : Summing(f, t, g)}
<1>1. ASSUME NEW s \in SUBSET S, \A x \in s : s \ {x} \in A
      PROVE  s \in A
  <2>. DEFINE C(t) == CHOOSE g : Summing(f, t, g)
              G == [t \in SUBSET s |-> IF t = {} THEN 0 ELSE f[AnyOne(t)] + C(t \ {AnyOne(t)})[t \ {AnyOne(t)}]]
  <2>1. ASSUME NEW t \in SUBSET s, t # s PROVE Summing(f, t, C(t))
    <3>1. PICK x \in s : x \notin t
      BY <2>1
    <3>2. PICK g : Summing(f, s \ {x}, g)
      BY <1>1
    <3>3. t \in SUBSET (s \ {x})
      BY <3>1
    <3>4. Summing(f, t, [u \in SUBSET t |-> g[u]])
      BY <3>2, <3>3, SummingBelow
    <3>. QED  BY <3>4, Zenon
  <2>2. ASSUME NEW t \in SUBSET s, t # s PROVE G[t] = C(t)[t]
    <3>1. Summing(f, t, C(t))
      BY <2>1, <2>2
    <3>. HIDE DEF C
    <3>2. CASE t = {}
      <4>1. G[t] = 0
        BY <3>2
      <4>2. t \in SUBSET t
        OBVIOUS
      <4>3. C(t)[t] = 0
        BY <3>1, <3>2, <4>2, OneStep
      <4>. HIDE DEF G
      <4>. QED  BY <4>1, <4>3
    <3>3. CASE t # {}
      <4>. DEFINE u == t \ {AnyOne(t)}
      <4>1. u \in SUBSET s /\ u # s /\ u \in SUBSET t /\ u \in SUBSET (t \cap u)
        BY <2>2
      <4>2. Summing(f, u, C(u))
        BY <2>1, <4>1
      <4>3. IsFiniteSet(t)
        BY FS_Subset
      <4>. HIDE DEF u
      <4>4. C(t)[u] = C(u)[u]
        BY <3>1, <4>1, <4>2, <4>3, SummingAgrees
      <4>5. C(t)[t] = f[AnyOne(t)] + C(t)[u]
        BY <3>1, <3>3, OneStep DEF u
      <4>6. G[t] = f[AnyOne(t)] + C(u)[u]
        BY <3>3 DEF u
      <4>. HIDE DEF G, C
      <4>. QED  BY <4>4, <4>5, <4>6, Zenon
    <3>. QED  BY <3>2, <3>3
  <2>3. ASSUME NEW t \in SUBSET s
        PROVE  G[t] = IF t = {} THEN 0 ELSE f[AnyOne(t)] + G[t \ {AnyOne(t)}]
    <3>1. CASE t = {}
      BY <3>1
    <3>2. CASE t # {}
      <4>1. t \ {AnyOne(t)} \in SUBSET s /\ t \ {AnyOne(t)} # s
        BY <3>2, AnyOneIsIn
      <4>2. G[t \ {AnyOne(t)}] = C(t \ {AnyOne(t)})[t \ {AnyOne(t)}]
        <5>. HIDE DEF C, G
        <5>. QED  BY <2>2, <4>1
      <4>. HIDE DEF C
      <4>. QED  BY <3>2, <4>2
    <3>. QED  BY <3>1, <3>2
  <2>4. G = [t \in SUBSET s |-> IF t = {} THEN 0 ELSE f[AnyOne(t)] + G[t \ {AnyOne(t)}]]
    <3>. DEFINE k == [t \in SUBSET s |-> IF t = {} THEN 0 ELSE f[AnyOne(t)] + G[t \ {AnyOne(t)}]]
    <3>. HIDE DEF C
    <3>1. \A t \in SUBSET s : G[t] = k[t]
      <4>. HIDE DEF G
      <4>. QED  BY <2>3
    <3>. QED  BY <3>1
  <2>5. Summing(f, s, G)
    <3>. HIDE DEF G
    <3>. QED  BY <2>4 DEF Summing
  <2>. QED  BY <2>5
<1>2. SUBSET S \subseteq A
  <2>. HIDE DEF A
  <2>. QED  BY <1>1, SubsetInduction
<1>. QED  BY <1>2

\* The sum of a finite set and those of its subsets are one fold.
LEMMA SumIsSumming ==
    ASSUME NEW f, NEW S, IsFiniteSet(S)
    PROVE  \E g : Summing(f, S, g) /\ \A s \in SUBSET S : SumFunctionOnSet(f, s) = g[s]
<1>. DEFINE C(t) == CHOOSE g : Summing(f, t, g)
<1>1. ASSUME NEW t \in SUBSET S PROVE Summing(f, t, C(t))
  <2>1. IsFiniteSet(t)
    BY FS_Subset
  <2>. QED  BY <2>1, SummingExists, Zenon
<1>2. ASSUME NEW t \in SUBSET S PROVE SumFunctionOnSet(f, t) = C(t)[t]
  BY SumIsFolded
<1>. HIDE DEF C
<1>3. ASSUME NEW t \in SUBSET S PROVE C(S)[t] = C(t)[t]
  <2>1. Summing(f, S, C(S)) /\ Summing(f, t, C(t)) /\ t \in SUBSET (S \cap t)
    BY <1>1
  <2>. QED  BY <2>1, SummingAgrees
<1>. QED  BY <1>1, <1>2, <1>3

\* Nothing adds up to nothing.
LEMMA SumOfNone ==
    ASSUME NEW f PROVE SumFunctionOnSet(f, {}) = 0
<1>1. IsFiniteSet({})
  BY FS_EmptySet
<1>2. PICK g : Summing(f, {}, g) /\ \A s \in SUBSET {} : SumFunctionOnSet(f, s) = g[s]
  BY <1>1, SumIsSumming, Zenon
<1>3. {} \in SUBSET {}
  OBVIOUS
<1>4. g[{}] = 0
  BY <1>2, <1>3, OneStep
<1>. QED  BY <1>2, <1>3, <1>4, Zenon

\* A sum is one of its parts and the sum of the others.
LEMMA SumByAny ==
    ASSUME NEW f, NEW S, IsFiniteSet(S), S # {}
    PROVE  SumFunctionOnSet(f, S) = f[AnyOne(S)] + SumFunctionOnSet(f, S \ {AnyOne(S)})
<1>1. PICK g : Summing(f, S, g) /\ \A s \in SUBSET S : SumFunctionOnSet(f, s) = g[s]
  BY SumIsSumming
<1>2. S \in SUBSET S /\ S \ {AnyOne(S)} \in SUBSET S
  OBVIOUS
<1>3. g[S] = f[AnyOne(S)] + g[S \ {AnyOne(S)}]
  BY <1>1, <1>2, OneStep
<1>4. SumFunctionOnSet(f, S) = g[S] /\ SumFunctionOnSet(f, S \ {AnyOne(S)}) = g[S \ {AnyOne(S)}]
  BY <1>1, <1>2, Zenon
<1>. QED  BY <1>3, <1>4, Zenon

\* A sum of integers is an integer.
LEMMA SumIsInt ==
    ASSUME NEW f, NEW S, IsFiniteSet(S), \A x \in S : f[x] \in Int
    PROVE  SumFunctionOnSet(f, S) \in Int
<1>. DEFINE A == {t \in SUBSET S : SumFunctionOnSet(f, t) \in Int}
<1>1. ASSUME NEW t \in SUBSET S, \A x \in t : t \ {x} \in A
      PROVE  t \in A
  <2>1. CASE t = {}
    BY <2>1, SumOfNone
  <2>2. CASE t # {}
    <3>1. AnyOne(t) \in t /\ IsFiniteSet(t)
      BY <2>2, AnyOneIsIn, FS_Subset
    <3>2. SumFunctionOnSet(f, t) = f[AnyOne(t)] + SumFunctionOnSet(f, t \ {AnyOne(t)})
      BY <2>2, <3>1, SumByAny
    <3>3. t \ {AnyOne(t)} \in A /\ f[AnyOne(t)] \in Int
      BY <1>1, <3>1
    <3>. QED  BY <3>2, <3>3
  <2>. QED  BY <2>1, <2>2
<1>2. SUBSET S \subseteq A
  <2>. HIDE DEF A
  <2>. QED  BY <1>1, SubsetInduction
<1>. QED  BY <1>2

\* Any part can be taken out of a sum, not only the one the fold takes first.
LEMMA SumRemove ==
    ASSUME NEW f, NEW S, IsFiniteSet(S), \A x \in S : f[x] \in Int, NEW y \in S
    PROVE  SumFunctionOnSet(f, S) = f[y] + SumFunctionOnSet(f, S \ {y})
<1>. DEFINE Sum(t) == SumFunctionOnSet(f, t)
            A == {t \in SUBSET S : \A x \in t : Sum(t) = f[x] + Sum(t \ {x})}
<1>1. ASSUME NEW t \in SUBSET S PROVE IsFiniteSet(t) /\ Sum(t) \in Int
  <2>1. IsFiniteSet(t)
    BY FS_Subset
  <2>. QED  BY <2>1, SumIsInt
<1>2. ASSUME NEW t \in SUBSET S, t # {} PROVE Sum(t) = f[AnyOne(t)] + Sum(t \ {AnyOne(t)})
  BY <1>1, <1>2, SumByAny
<1>. HIDE DEF Sum
<1>3. ASSUME NEW t \in SUBSET S, \A x \in t : t \ {x} \in A
      PROVE  t \in A
  <2>1. SUFFICES ASSUME NEW x \in t PROVE Sum(t) = f[x] + Sum(t \ {x})
    OBVIOUS
  <2>. DEFINE a == AnyOne(t)
  <2>2. a \in t /\ Sum(t) = f[a] + Sum(t \ {a})
    BY <1>2, AnyOneIsIn
  <2>. HIDE DEF a
  <2>3. CASE a = x
    BY <2>2, <2>3
  <2>4. CASE a # x
    <3>1. x \in t \ {a} /\ a \in t \ {x} /\ t \ {a} \in A /\ t \ {x} \in A
      BY <1>3, <2>2, <2>4
    <3>2. Sum(t \ {a}) = f[x] + Sum((t \ {a}) \ {x})
      BY <3>1
    <3>3. Sum(t \ {x}) = f[a] + Sum((t \ {x}) \ {a})
      BY <3>1
    <3>4. (t \ {a}) \ {x} = (t \ {x}) \ {a} /\ (t \ {x}) \ {a} \in SUBSET S
      OBVIOUS
    <3>5. f[a] \in Int /\ f[x] \in Int /\ Sum((t \ {x}) \ {a}) \in Int
      BY <1>1, <2>2, <3>4
    <3>6. Sum(t \ {x}) = f[a] + Sum((t \ {x}) \ {a}) /\ Sum(t) = f[a] + (f[x] + Sum((t \ {x}) \ {a}))
      BY <2>2, <3>2, <3>3, <3>4, Zenon
    <3>. QED  BY <3>5, <3>6
  <2>. QED  BY <2>3, <2>4
<1>4. SUBSET S \subseteq A
  <2>. HIDE DEF A
  <2>. QED  BY <1>3, SubsetInduction
<1>5. S \in A
  BY <1>4
<1>. QED  BY <1>5 DEF Sum

\* A part that joins is added.
LEMMA SumAdd ==
    ASSUME NEW f, NEW S, IsFiniteSet(S), \A x \in S : f[x] \in Int, NEW y, y \notin S, f[y] \in Int
    PROVE  SumFunctionOnSet(f, S \cup {y}) = f[y] + SumFunctionOnSet(f, S)
<1>1. IsFiniteSet(S \cup {y}) /\ \A x \in S \cup {y} : f[x] \in Int
  BY FS_AddElement
<1>2. (S \cup {y}) \ {y} = S /\ y \in S \cup {y}
  OBVIOUS
<1>3. SumFunctionOnSet(f, S \cup {y}) = f[y] + SumFunctionOnSet(f, (S \cup {y}) \ {y})
  BY <1>1, <1>2, SumRemove
<1>. QED  BY <1>2, <1>3

\* A sum sees nothing but its parts.
LEMMA SumOfSame ==
    ASSUME NEW f, NEW g, NEW S, IsFiniteSet(S), \A x \in S : f[x] = g[x]
    PROVE  SumFunctionOnSet(f, S) = SumFunctionOnSet(g, S)
<1>. DEFINE A == {t \in SUBSET S : SumFunctionOnSet(f, t) = SumFunctionOnSet(g, t)}
<1>1. ASSUME NEW t \in SUBSET S, \A x \in t : t \ {x} \in A
      PROVE  t \in A
  <2>1. CASE t = {}
    BY <2>1, SumOfNone
  <2>2. CASE t # {}
    <3>1. AnyOne(t) \in t /\ IsFiniteSet(t)
      BY <2>2, AnyOneIsIn, FS_Subset
    <3>2. /\ SumFunctionOnSet(f, t) = f[AnyOne(t)] + SumFunctionOnSet(f, t \ {AnyOne(t)})
          /\ SumFunctionOnSet(g, t) = g[AnyOne(t)] + SumFunctionOnSet(g, t \ {AnyOne(t)})
      BY <2>2, <3>1, SumByAny
    <3>3. t \ {AnyOne(t)} \in A /\ f[AnyOne(t)] = g[AnyOne(t)]
      BY <1>1, <3>1
    <3>. QED  BY <3>2, <3>3
  <2>. QED  BY <2>1, <2>2
<1>2. SUBSET S \subseteq A
  <2>. HIDE DEF A
  <2>. QED  BY <1>1, SubsetInduction
<1>. QED  BY <1>2

\* A sum changes by what its one part changes.
LEMMA SumChanges ==
    ASSUME NEW f, NEW g, NEW S, IsFiniteSet(S), NEW y \in S,
           \A x \in S : f[x] \in Int /\ g[x] \in Int,
           \A x \in S \ {y} : g[x] = f[x]
    PROVE  SumFunctionOnSet(g, S) = SumFunctionOnSet(f, S) + (g[y] - f[y])
<1>1. IsFiniteSet(S \ {y})
  BY FS_RemoveElement
<1>2. SumFunctionOnSet(g, S \ {y}) = SumFunctionOnSet(f, S \ {y})
  BY <1>1, SumOfSame
<1>3. SumFunctionOnSet(f, S) = f[y] + SumFunctionOnSet(f, S \ {y})
  BY SumRemove
<1>4. SumFunctionOnSet(g, S) = g[y] + SumFunctionOnSet(g, S \ {y})
  BY SumRemove
<1>5. SumFunctionOnSet(f, S \ {y}) \in Int
  BY <1>1, SumIsInt
<1>. QED  BY <1>2, <1>3, <1>4, <1>5

\* A sum of naturals is a natural.
LEMMA SumIsNat ==
    ASSUME NEW f, NEW S, IsFiniteSet(S), \A x \in S : f[x] \in Nat
    PROVE  SumFunctionOnSet(f, S) \in Nat
<1>. DEFINE A == {t \in SUBSET S : SumFunctionOnSet(f, t) \in Nat}
<1>1. ASSUME NEW t \in SUBSET S, \A x \in t : t \ {x} \in A
      PROVE  t \in A
  <2>1. CASE t = {}
    BY <2>1, SumOfNone
  <2>2. CASE t # {}
    <3>1. AnyOne(t) \in t /\ IsFiniteSet(t)
      BY <2>2, AnyOneIsIn, FS_Subset
    <3>2. SumFunctionOnSet(f, t) = f[AnyOne(t)] + SumFunctionOnSet(f, t \ {AnyOne(t)})
      BY <2>2, <3>1, SumByAny
    <3>3. t \ {AnyOne(t)} \in A /\ f[AnyOne(t)] \in Nat
      BY <1>1, <3>1
    <3>. QED  BY <3>2, <3>3
  <2>. QED  BY <2>1, <2>2
<1>2. SUBSET S \subseteq A
  <2>. HIDE DEF A
  <2>. QED  BY <1>1, SubsetInduction
<1>. QED  BY <1>2

\* A sum of nothings is nothing.
LEMMA SumOfZeros ==
    ASSUME NEW f, NEW S, IsFiniteSet(S), \A x \in S : f[x] = 0
    PROVE  SumFunctionOnSet(f, S) = 0
<1>. DEFINE A == {t \in SUBSET S : SumFunctionOnSet(f, t) = 0}
<1>1. ASSUME NEW t \in SUBSET S, \A x \in t : t \ {x} \in A
      PROVE  t \in A
  <2>1. CASE t = {}
    BY <2>1, SumOfNone
  <2>2. CASE t # {}
    <3>1. AnyOne(t) \in t /\ IsFiniteSet(t)
      BY <2>2, AnyOneIsIn, FS_Subset
    <3>2. SumFunctionOnSet(f, t) = f[AnyOne(t)] + SumFunctionOnSet(f, t \ {AnyOne(t)})
      BY <2>2, <3>1, SumByAny
    <3>3. t \ {AnyOne(t)} \in A /\ f[AnyOne(t)] = 0
      BY <1>1, <3>1
    <3>. QED  BY <3>2, <3>3
  <2>. QED  BY <2>1, <2>2
<1>2. SUBSET S \subseteq A
  <2>. HIDE DEF A
  <2>. QED  BY <1>1, SubsetInduction
<1>. QED  BY <1>2

\* Two sets that share nothing add up to both sums.
LEMMA SumOfBoth ==
    ASSUME NEW f, NEW S, NEW T, IsFiniteSet(S), IsFiniteSet(T), S \cap T = {},
           \A x \in S \cup T : f[x] \in Int
    PROVE  SumFunctionOnSet(f, S \cup T) = SumFunctionOnSet(f, S) + SumFunctionOnSet(f, T)
<1>. DEFINE Sum(t) == SumFunctionOnSet(f, t)
            A == {t \in SUBSET T : Sum(S \cup t) = Sum(S) + Sum(t)}
<1>1. ASSUME NEW t \in SUBSET T PROVE IsFiniteSet(t) /\ IsFiniteSet(S \cup t) /\ Sum(t) \in Int
  <2>1. IsFiniteSet(t) /\ IsFiniteSet(S \cup t)
    BY FS_Subset, FS_Union
  <2>. QED  BY <2>1, SumIsInt
<1>2. Sum(S) \in Int
  BY SumIsInt
<1>3. ASSUME NEW t \in SUBSET T, \A x \in t : t \ {x} \in A
      PROVE  t \in A
  <2>1. CASE t = {}
    <3>1. S \cup t = S
      BY <2>1
    <3>. QED  BY <1>2, <2>1, <3>1, SumOfNone
  <2>2. CASE t # {}
    <3>1. PICK x \in t : TRUE
      BY <2>2
    <3>2. Sum(t) = f[x] + Sum(t \ {x})
      <4>1. IsFiniteSet(t) /\ \A y \in t : f[y] \in Int
        BY <1>1
      <4>. QED  BY <4>1, SumRemove
    <3>3. Sum(S \cup t) = f[x] + Sum((S \cup t) \ {x})
      <4>1. x \in S \cup t /\ IsFiniteSet(S \cup t) /\ \A y \in S \cup t : f[y] \in Int
        BY <1>1
      <4>. QED  BY <4>1, SumRemove
    <3>4. (S \cup t) \ {x} = S \cup (t \ {x}) /\ t \ {x} \in A /\ t \ {x} \in SUBSET T
      BY <1>3
    <3>5. Sum(t \ {x}) \in Int /\ f[x] \in Int
      BY <1>1, <3>4
    <3>6. Sum(S \cup t) = f[x] + (Sum(S) + Sum(t \ {x}))
      BY <3>3, <3>4
    <3>. HIDE DEF Sum
    <3>7. Sum(S \cup t) = Sum(S) + Sum(t)
      BY <1>2, <3>2, <3>5, <3>6
    <3>. QED  BY <3>7
  <2>. QED  BY <2>1, <2>2
<1>4. SUBSET T \subseteq A
  <2>. HIDE DEF A
  <2>. QED  BY <1>3, SubsetInduction
<1>5. T \in A
  BY <1>4
<1>. QED  BY <1>5 DEF Sum

\* A sum of sums, term by term.
LEMMA SumOfPairs ==
    ASSUME NEW f, NEW g, NEW h, NEW S, IsFiniteSet(S),
           \A x \in S : f[x] \in Int /\ g[x] \in Int /\ h[x] = f[x] + g[x]
    PROVE  SumFunctionOnSet(h, S) = SumFunctionOnSet(f, S) + SumFunctionOnSet(g, S)
<1>. DEFINE A == {t \in SUBSET S : SumFunctionOnSet(h, t) = SumFunctionOnSet(f, t) + SumFunctionOnSet(g, t)}
<1>1. ASSUME NEW t \in SUBSET S, \A x \in t : t \ {x} \in A
      PROVE  t \in A
  <2>1. CASE t = {}
    BY <2>1, SumOfNone
  <2>2. CASE t # {}
    <3>1. PICK y \in t : TRUE
      BY <2>2
    <3>2. /\ IsFiniteSet(t) /\ IsFiniteSet(t \ {y})
          /\ \A x \in t : f[x] \in Int /\ g[x] \in Int /\ h[x] \in Int /\ h[x] = f[x] + g[x]
      BY FS_Subset
    <3>3. /\ SumFunctionOnSet(f, t) = f[y] + SumFunctionOnSet(f, t \ {y})
          /\ SumFunctionOnSet(g, t) = g[y] + SumFunctionOnSet(g, t \ {y})
          /\ SumFunctionOnSet(h, t) = h[y] + SumFunctionOnSet(h, t \ {y})
      BY <3>2, SumRemove
    <3>4. /\ SumFunctionOnSet(f, t \ {y}) \in Int /\ SumFunctionOnSet(g, t \ {y}) \in Int
          /\ SumFunctionOnSet(h, t \ {y}) = SumFunctionOnSet(f, t \ {y}) + SumFunctionOnSet(g, t \ {y})
      BY <1>1, <3>2, SumIsInt
    <3>. QED  BY <3>2, <3>3, <3>4
  <2>. QED  BY <2>1, <2>2
<1>2. SUBSET S \subseteq A
  <2>. HIDE DEF A
  <2>. QED  BY <1>1, SubsetInduction
<1>. QED  BY <1>2

\* A sum of multiples is the multiple of the sum.
LEMMA SumOfMultiples ==
    ASSUME NEW f, NEW h, NEW c \in Int, NEW S, IsFiniteSet(S),
           \A x \in S : f[x] \in Int /\ h[x] = c * f[x]
    PROVE  SumFunctionOnSet(h, S) = c * SumFunctionOnSet(f, S)
<1>. DEFINE A == {t \in SUBSET S : SumFunctionOnSet(h, t) = c * SumFunctionOnSet(f, t)}
<1>1. ASSUME NEW t \in SUBSET S, \A x \in t : t \ {x} \in A
      PROVE  t \in A
  <2>1. CASE t = {}
    <3>1. SumFunctionOnSet(h, t) = 0 /\ SumFunctionOnSet(f, t) = 0
      BY <2>1, SumOfNone
    <3>. QED  BY <3>1
  <2>2. CASE t # {}
    <3>1. PICK y \in t : TRUE
      BY <2>2
    <3>. DEFINE a == f[y]  b == SumFunctionOnSet(f, t \ {y})
    <3>2. IsFiniteSet(t) /\ IsFiniteSet(t \ {y}) /\ \A x \in t : f[x] \in Int /\ h[x] = c * f[x]
      BY FS_Subset
    <3>3. \A x \in t : h[x] \in Int
      <4>1. \A k \in Int : c * k \in Int
        BY Z3
      <4>. QED  BY <3>2, <4>1
    <3>4. SumFunctionOnSet(f, t) = a + b /\ SumFunctionOnSet(h, t) = h[y] + SumFunctionOnSet(h, t \ {y})
      BY <3>2, <3>3, SumRemove
    <3>5. a \in Int /\ b \in Int /\ h[y] = c * a /\ SumFunctionOnSet(h, t \ {y}) = c * b
      BY <1>1, <3>2, SumIsInt
    <3>. HIDE DEF a, b
    <3>6. c * (a + b) = c * a + c * b
      BY <3>5, Z3
    <3>. QED  BY <3>4, <3>5, <3>6
  <2>. QED  BY <2>1, <2>2
<1>2. SUBSET S \subseteq A
  <2>. HIDE DEF A
  <2>. QED  BY <1>1, SubsetInduction
<1>. QED  BY <1>2

\* As many ones as there are elements.
LEMMA SumOfOnes ==
    ASSUME NEW f, NEW S, IsFiniteSet(S), \A x \in S : f[x] = 1
    PROVE  SumFunctionOnSet(f, S) = Cardinality(S)
<1>. DEFINE A == {t \in SUBSET S : SumFunctionOnSet(f, t) = Cardinality(t)}
<1>1. ASSUME NEW t \in SUBSET S, \A x \in t : t \ {x} \in A
      PROVE  t \in A
  <2>1. CASE t = {}
    BY <2>1, SumOfNone, FS_EmptySet
  <2>2. CASE t # {}
    <3>1. PICK y \in t : TRUE
      BY <2>2
    <3>2. IsFiniteSet(t) /\ \A x \in t : f[x] \in Int /\ f[x] = 1
      BY FS_Subset
    <3>3. SumFunctionOnSet(f, t) = 1 + SumFunctionOnSet(f, t \ {y})
      BY <3>2, SumRemove
    <3>4. Cardinality(t \ {y}) = Cardinality(t) - 1 /\ Cardinality(t) \in Nat
      BY <3>2, FS_RemoveElement, FS_CardinalityType
    <3>. QED  BY <1>1, <3>3, <3>4
  <2>. QED  BY <2>1, <2>2
<1>2. SUBSET S \subseteq A
  <2>. HIDE DEF A
  <2>. QED  BY <1>1, SubsetInduction
<1>. QED  BY <1>2

\* Terms that are at most `b` come to at most `b` for each.
LEMMA SumWithin ==
    ASSUME NEW f, NEW b \in Int, NEW S, IsFiniteSet(S), \A x \in S : f[x] \in Int /\ f[x] <= b
    PROVE  SumFunctionOnSet(f, S) <= b * Cardinality(S)
<1>. DEFINE A == {t \in SUBSET S : SumFunctionOnSet(f, t) <= b * Cardinality(t)}
<1>1. ASSUME NEW t \in SUBSET S, \A x \in t : t \ {x} \in A
      PROVE  t \in A
  <2>1. CASE t = {}
    <3>1. SumFunctionOnSet(f, t) = 0 /\ Cardinality(t) = 0
      BY <2>1, SumOfNone, FS_EmptySet
    <3>. QED  BY <3>1
  <2>2. CASE t # {}
    <3>1. PICK y \in t : TRUE
      BY <2>2
    <3>. DEFINE n == Cardinality(t)  rest == SumFunctionOnSet(f, t \ {y})
    <3>2. IsFiniteSet(t) /\ IsFiniteSet(t \ {y}) /\ \A x \in t : f[x] \in Int /\ f[x] <= b
      BY FS_Subset
    <3>3. SumFunctionOnSet(f, t) = f[y] + rest /\ rest \in Int
      BY <3>2, SumRemove, SumIsInt
    <3>4. Cardinality(t \ {y}) = n - 1 /\ n \in Nat
      BY <3>2, FS_RemoveElement, FS_CardinalityType
    <3>5. rest <= b * (n - 1)
      BY <1>1, <3>4
    <3>. HIDE DEF n, rest
    <3>6. b * (n - 1) = b * n - b /\ b * n \in Int
      BY <3>4, Z3
    <3>7. SumFunctionOnSet(f, t) <= b * n
      BY <3>2, <3>3, <3>5, <3>6
    <3>. QED  BY <3>7 DEF n
  <2>. QED  BY <2>1, <2>2
<1>2. SUBSET S \subseteq A
  <2>. HIDE DEF A
  <2>. QED  BY <1>1, SubsetInduction
<1>. QED  BY <1>2

-----------------------------------------------------------------------------
(* The spread of an amount: the floors leave fewer paise over than lines   *)
(* lost something, and each of them finds its line.                        *)

\* However the lines are ranked, as many are among the first `r` as there are
\* places: the order of `spread` (most lost first, then the first line) is total.
LEMMA FirstOnes ==
    ASSUME NEW lost, IsFiniteSet(DOMAIN lost), DOMAIN lost \subseteq Int,
           \A i \in DOMAIN lost : lost[i] \in Int, NEW r \in 0 .. Cardinality(DOMAIN lost)
    PROVE  Cardinality({i \in DOMAIN lost : Cardinality(Ahead(lost, i)) < r}) = r
<1>. DEFINE D == DOMAIN lost
            n == Cardinality(D)
            rank == [i \in D |-> Cardinality(Ahead(lost, i))]
            E == {i \in D : Cardinality(Ahead(lost, i)) < r}
            place == [i \in E |-> rank[i]]
<1>1. n \in Nat
  BY FS_CardinalityType
<1>2. ASSUME NEW i \in D
      PROVE  /\ Ahead(lost, i) \subseteq D \ {i} /\ IsFiniteSet(Ahead(lost, i))
             /\ rank[i] \in 0 .. (n - 1)
  <2>1. Ahead(lost, i) \subseteq D \ {i}
    BY DEF Ahead
  <2>2. IsFiniteSet(D \ {i}) /\ Cardinality(D \ {i}) = n - 1
    BY FS_RemoveElement
  <2>3. /\ IsFiniteSet(Ahead(lost, i)) /\ Cardinality(Ahead(lost, i)) \in Nat
        /\ Cardinality(Ahead(lost, i)) <= n - 1
    BY <2>1, <2>2, FS_Subset, FS_CardinalityType
  <2>. QED  BY <1>1, <2>1, <2>3
<1>3. ASSUME NEW i \in D, NEW j \in Ahead(lost, i) PROVE rank[j] < rank[i]
  <2>1. j \in D /\ Ahead(lost, j) \subseteq Ahead(lost, i) /\ j \notin Ahead(lost, j)
    BY DEF Ahead
  <2>2. IsFiniteSet(Ahead(lost, i)) /\ IsFiniteSet(Ahead(lost, j))
    BY <1>2, <2>1
  <2>3. Ahead(lost, j) \subseteq Ahead(lost, i) \ {j}
    BY <2>1
  <2>4. /\ IsFiniteSet(Ahead(lost, i) \ {j})
        /\ Cardinality(Ahead(lost, i) \ {j}) = Cardinality(Ahead(lost, i)) - 1
    BY <2>2, FS_RemoveElement
  <2>5. Cardinality(Ahead(lost, j)) <= Cardinality(Ahead(lost, i)) - 1
    BY <2>3, <2>4, FS_Subset
  <2>6. rank[i] = Cardinality(Ahead(lost, i)) /\ rank[j] = Cardinality(Ahead(lost, j))
    BY <2>1
  <2>7. rank[i] \in Int /\ rank[j] \in Int
    BY <1>1, <1>2, <2>1
  <2>. QED  BY <2>5, <2>6, <2>7
<1>4. ASSUME NEW i \in D, NEW j \in D, i # j PROVE rank[i] # rank[j]
  <2>1. i \in Ahead(lost, j) \/ j \in Ahead(lost, i)
    BY <1>4 DEF Ahead
  <2>2. rank[i] \in Int /\ rank[j] \in Int
    BY <1>1, <1>2
  <2>3. rank[i] < rank[j] \/ rank[j] < rank[i]
    BY <1>3, <2>1
  <2>. HIDE DEF rank
  <2>. QED  BY <2>2, <2>3
<1>5. rank \in Injection(D, 0 .. (n - 1))
  BY <1>2, <1>4 DEF Injection, IsInjective
<1>6. rank \in Surjection(D, 0 .. (n - 1))
  <2>1. IsFiniteSet(0 .. (n - 1)) /\ Cardinality(0 .. (n - 1)) = n
    <3>1. 0 \in Int /\ n - 1 \in Int /\ (n - 1) - 0 + 1 = n /\ (0 > n - 1 => n = 0)
      BY <1>1
    <3>. HIDE DEF n
    <3>. QED  BY <3>1, FS_Interval
  <2>. QED  BY <1>5, <2>1, FS_Injection
<1>7. place \in Bijection(E, 0 .. (r - 1))
  <2>1. ASSUME NEW i \in E PROVE place[i] \in 0 .. (r - 1) /\ i \in D /\ place[i] = rank[i]
    <3>1. i \in D /\ place[i] = rank[i] /\ rank[i] < r /\ rank[i] \in 0 .. (n - 1)
      BY <1>2
    <3>. QED  BY <1>1, <3>1
  <2>2. ASSUME NEW k \in 0 .. (r - 1) PROVE \E i \in E : place[i] = k
    <3>1. k \in 0 .. (n - 1)
      BY <1>1
    <3>2. PICK i \in D : rank[i] = k
      BY <1>6, <3>1 DEF Surjection
    <3>3. i \in E
      BY <3>2
    <3>. QED  BY <3>2, <3>3
  <2>. HIDE DEF place, E, rank
  <2>3. place \in [E -> 0 .. (r - 1)]
    BY <2>1 DEF place
  <2>. QED  BY <1>4, <2>1, <2>2, <2>3 DEF Bijection, Injection, Surjection, IsInjective
<1>8. IsFiniteSet(E)
  BY FS_Subset
<1>9. Cardinality(0 .. (r - 1)) = r
  BY <1>1, FS_Interval
<1>10. Cardinality(0 .. (r - 1)) = Cardinality(E)
  <2>1. ExistsBijection(E, 0 .. (r - 1))
    BY <1>7 DEF ExistsBijection
  <2>. QED  BY <1>8, <2>1, FS_Bijection
<1>. QED  BY <1>9, <1>10

\* A spread can be added up: a floor and what was lost of each line are whole
\* numbers, and make up its exact share of the amount.
LEMMA FloorAndLost ==
    ASSUME NEW total \in Nat, NEW nets, NEW i \in DOMAIN nets, nets[i] \in Nat,
           NEW all \in Nat \ {0}, all = SumFunction(nets)
    PROVE  /\ Floors(total, nets)[i] \in Int /\ Lost(total, nets)[i] \in 0 .. (all - 1)
           /\ total * nets[i] = all * Floors(total, nets)[i] + Lost(total, nets)[i]
<1>. DEFINE exact == total * nets[i]
<1>1. exact \in Int
  BY Z3
<1>2. Floors(total, nets)[i] = exact \div all /\ Lost(total, nets)[i] = exact % all
  BY DEF Floors, Lost, MulRatioFloor
<1>. HIDE DEF exact
<1>3. /\ exact \div all \in Int /\ exact % all \in 0 .. (all - 1)
      /\ exact = all * (exact \div all) + (exact % all)
  BY <1>1, QuotientAndRest, Zenon
<1>. QED  BY <1>2, <1>3 DEF exact

\* The lines that lost something by the flooring.
Losing(total, nets) == {i \in DOMAIN nets : Lost(total, nets)[i] > 0}

\* What the floors leave over is less than a paisa for each line that lost some.
LEMMA LeftOver ==
    ASSUME NEW total \in Nat, NEW nets, IsFiniteSet(DOMAIN nets), \A i \in DOMAIN nets : nets[i] \in Nat,
           NEW all \in Nat \ {0}, all = SumFunction(nets)
    PROVE  /\ total - SumFunction(Floors(total, nets)) \in 0 .. Cardinality(Losing(total, nets))
           /\ Cardinality(Losing(total, nets)) <= Cardinality(DOMAIN nets)
           /\ SumFunction(Floors(total, nets)) \in Int
<1>. DEFINE D == DOMAIN nets
            P == Losing(total, nets)
            p == Cardinality(P)
            floors == Floors(total, nets)
            lost == Lost(total, nets)
            scaled == [i \in D |-> all * floors[i]]
            exact == [i \in D |-> total * nets[i]]
            left == total - SumFunctionOnSet(floors, D)
<1>1. \A i \in D : /\ floors[i] \in Int /\ lost[i] \in 0 .. (all - 1)
                   /\ total * nets[i] = all * floors[i] + lost[i]
  BY FloorAndLost
<1>2. DOMAIN floors = D /\ SumFunction(floors) = SumFunctionOnSet(floors, D) /\ all = SumFunctionOnSet(nets, D)
  BY DEF SumFunction, Floors
<1>3. /\ P \subseteq D /\ IsFiniteSet(P) /\ IsFiniteSet(D \ P) /\ p <= Cardinality(D) /\ p \in Nat
      /\ \A i \in D : i \in P <=> lost[i] > 0
  <2>1. P \subseteq D /\ D \ P \subseteq D /\ \A i \in D : i \in P <=> lost[i] > 0
    BY DEF Losing
  <2>. QED  BY <2>1, FS_Subset, FS_CardinalityType
<1>. HIDE DEF P, floors, lost
<1>4. \A i \in D : scaled[i] \in Int /\ exact[i] \in Int /\ lost[i] \in Int /\ exact[i] = scaled[i] + lost[i]
  <2>1. \A k \in Int : all * k \in Int
    BY Z3
  <2>2. \A k \in Int : total * k \in Int
    BY Z3
  <2>. QED  BY <1>1, <2>1, <2>2
<1>5. /\ SumFunctionOnSet(scaled, D) = all * SumFunctionOnSet(floors, D)
      /\ SumFunctionOnSet(exact, D) = total * all
      /\ SumFunctionOnSet(floors, D) \in Int
  <2>1. /\ \A i \in D : floors[i] \in Int /\ scaled[i] = all * floors[i]
        /\ \A i \in D : nets[i] \in Int /\ exact[i] = total * nets[i]
        /\ IsFiniteSet(D) /\ all \in Int /\ total \in Int
    BY <1>1
  <2>. HIDE DEF D, scaled, exact
  <2>. QED  BY <1>2, <2>1, SumOfMultiples, SumIsInt
<1>6. SumFunctionOnSet(exact, D) = SumFunctionOnSet(scaled, D) + SumFunctionOnSet(lost, D)
  <2>. HIDE DEF D, scaled, exact
  <2>1. IsFiniteSet(D)
    BY DEF D
  <2>. QED  BY <1>4, <2>1, SumOfPairs
<1>7. SumFunctionOnSet(lost, D) = SumFunctionOnSet(lost, P)
  <2>1. P \cup (D \ P) = D /\ P \cap (D \ P) = {}
    BY <1>3
  <2>2. \A i \in D \ P : lost[i] = 0
    BY <1>1, <1>3
  <2>3. \A i \in P \cup (D \ P) : lost[i] \in Int
    BY <1>4, <2>1
  <2>4. SumFunctionOnSet(lost, P \cup (D \ P)) = SumFunctionOnSet(lost, P) + SumFunctionOnSet(lost, D \ P)
    BY <1>3, <2>1, <2>3, SumOfBoth
  <2>5. SumFunctionOnSet(lost, D \ P) = 0
    BY <1>3, <2>2, SumOfZeros
  <2>6. SumFunctionOnSet(lost, P) \in Int
    BY <1>3, <2>3, SumIsInt
  <2>. QED  BY <2>1, <2>4, <2>5, <2>6
<1>8. SumFunctionOnSet(lost, P) \in Nat /\ SumFunctionOnSet(lost, P) <= (all - 1) * p
  <2>1. all - 1 \in Int /\ \A i \in P : lost[i] \in Nat /\ lost[i] \in Int /\ lost[i] <= all - 1
    BY <1>1, <1>3
  <2>. QED  BY <1>3, <2>1, SumIsNat, SumWithin
<1>9. left \in Int /\ all * left = SumFunctionOnSet(lost, P)
  <2>. DEFINE s == SumFunctionOnSet(floors, D)
  <2>1. s \in Int /\ total * all = all * s + SumFunctionOnSet(lost, P) /\ SumFunctionOnSet(lost, P) \in Int
    BY <1>5, <1>6, <1>7, <1>8
  <2>2. left = total - s
    OBVIOUS
  <2>. HIDE DEF s, left
  <2>3. all * (total - s) = total * all - all * s /\ all * s \in Int
    BY <2>1, Z3
  <2>. QED  BY <2>1, <2>2, <2>3
<1>. HIDE DEF left, p
<1>10. left >= 0
  <2>1. all * (-1) = -all
    BY Z3
  <2>2. all * (-1) < all * left
    BY <1>8, <1>9, <2>1
  <2>3. -1 < left
    BY <1>9, <2>2, Products
  <2>. QED  BY <1>9, <2>3
<1>11. left <= p
  <2>1. (all - 1) * p = all * p - p /\ all * p \in Int
    BY <1>3, Z3
  <2>2. all * left < all * p + all
    BY <1>3, <1>8, <1>9, <2>1
  <2>. QED  BY <1>3, <1>9, <2>2, Products
<1>. QED  BY <1>2, <1>3, <1>5, <1>9, <1>10, <1>11 DEF left, p, P, floors

\* The shares of an amount add up to it, to the paisa, for any number of lines
\* (`spread`: "the printed lines always sum to the printed total").
THEOREM SharesAddUp ==
    ASSUME NEW total \in Nat, NEW nets, IsFiniteSet(DOMAIN nets), DOMAIN nets \subseteq Int,
           \A i \in DOMAIN nets : nets[i] \in Nat, SumFunction(nets) # 0
    PROVE  SumFunction(Spread(total, nets)) = total
<1>. DEFINE D == DOMAIN nets
            all == SumFunction(nets)
            floors == Floors(total, nets)
            lost == Lost(total, nets)
            left == total - SumFunction(floors)
            first == {i \in D : Cardinality(Ahead(lost, i)) < left}
            more == [i \in D |-> IF i \in first THEN 1 ELSE 0]
<1>1. all \in Nat \ {0}
  BY SumIsNat DEF SumFunction
<1>2. left \in 0 .. Cardinality(D) /\ SumFunction(floors) \in Int
  <2>1. left \in 0 .. Cardinality(Losing(total, nets)) /\ Cardinality(Losing(total, nets)) <= Cardinality(D)
        /\ SumFunction(floors) \in Int
    BY <1>1, LeftOver
  <2>2. Cardinality(Losing(total, nets)) \in Nat /\ Cardinality(D) \in Nat
    <3>1. Losing(total, nets) \subseteq D
      BY DEF Losing
    <3>. QED  BY <3>1, FS_Subset, FS_CardinalityType
  <2>. QED  BY <2>1, <2>2
<1>3. \A i \in D : floors[i] \in Int /\ lost[i] \in Int
  BY <1>1, FloorAndLost
<1>4. DOMAIN floors = D /\ DOMAIN lost = D
  BY DEF Floors, Lost
<1>5. CASE total = 0
  <2>1. \A i \in D : Spread(total, nets)[i] = 0
    BY <1>5 DEF Spread
  <2>2. DOMAIN Spread(total, nets) = D
    BY <1>5 DEF Spread
  <2>. QED  BY <1>5, <2>1, <2>2, SumOfZeros DEF SumFunction
<1>6. CASE total # 0
  <2>1. /\ DOMAIN Spread(total, nets) = D
        /\ \A i \in D : Spread(total, nets)[i] = floors[i] + more[i]
    BY <1>6 DEF Spread
  <2>2. Cardinality(first) = left
    <3>. HIDE DEF left, lost
    <3>. QED  BY <1>2, <1>3, <1>4, FirstOnes
  <2>3. SumFunctionOnSet(more, D) = left
    <3>1. first \subseteq D /\ first \cup (D \ first) = D /\ first \cap (D \ first) = {}
      OBVIOUS
    <3>2. IsFiniteSet(first) /\ IsFiniteSet(D \ first)
      BY <3>1, FS_Subset
    <3>3. (\A i \in first : more[i] = 1) /\ (\A i \in D \ first : more[i] = 0)
          /\ \A i \in first \cup (D \ first) : more[i] \in Int
      OBVIOUS
    <3>. HIDE DEF first, more, left
    <3>4. SumFunctionOnSet(more, first) = left /\ SumFunctionOnSet(more, D \ first) = 0
      BY <2>2, <3>2, <3>3, SumOfOnes, SumOfZeros
    <3>5. SumFunctionOnSet(more, first \cup (D \ first))
            = SumFunctionOnSet(more, first) + SumFunctionOnSet(more, D \ first)
      BY <3>1, <3>2, <3>3, SumOfBoth
    <3>. QED  BY <1>2, <3>1, <3>4, <3>5
  <2>4. SumFunctionOnSet(Spread(total, nets), D)
          = SumFunctionOnSet(floors, D) + SumFunctionOnSet(more, D)
    <3>1. \A i \in D : more[i] \in Int
      OBVIOUS
    <3>. HIDE DEF floors, more
    <3>. QED  BY <1>3, <2>1, <3>1, SumOfPairs
  <2>5. SumFunction(floors) = SumFunctionOnSet(floors, D)
        /\ SumFunction(Spread(total, nets)) = SumFunctionOnSet(Spread(total, nets), D)
    BY <1>4, <2>1 DEF SumFunction
  <2>. HIDE DEF floors, more
  <2>. QED  BY <1>2, <2>3, <2>4, <2>5
<1>. QED  BY <1>5, <1>6

\* No line carries more of an amount than it is worth, nor less than nothing, as
\* long as the amount is not more than the lines are (`spread` of a discount).
THEOREM SharesAreWithinLines ==
    ASSUME NEW nets, IsFiniteSet(DOMAIN nets), \A i \in DOMAIN nets : nets[i] \in Nat,
           NEW total \in 0 .. SumFunction(nets), NEW i \in DOMAIN nets
    PROVE  Spread(total, nets)[i] \in 0 .. nets[i]
<1>. DEFINE all == SumFunction(nets)
            floors == Floors(total, nets)
            lost == Lost(total, nets)
            left == total - SumFunction(floors)
<1>1. all \in Nat /\ total \in Nat /\ total <= all
  BY SumIsNat DEF SumFunction
<1>2. CASE total = 0 \/ all = 0
  BY <1>2 DEF Spread
<1>3. CASE total # 0 /\ all # 0
  <2>1. Spread(total, nets)[i] = floors[i] + IF Cardinality(Ahead(lost, i)) < left THEN 1 ELSE 0
    BY <1>3 DEF Spread
  <2>2. floors[i] \in 0 .. nets[i] /\ (lost[i] > 0 => floors[i] + 1 <= nets[i]) /\ lost[i] \in 0 .. (all - 1)
    <3>1. floors[i] = MulRatioFloor(total, nets[i], all) /\ lost[i] = (total * nets[i]) % all
      BY DEF Floors, Lost
    <3>. HIDE DEF floors, lost
    <3>2. floors[i] \in 0 .. nets[i] /\ (lost[i] > 0 => floors[i] + 1 <= nets[i])
      BY <1>1, <1>3, <3>1, FloorWithin
    <3>3. lost[i] \in 0 .. (all - 1)
      BY <1>1, <1>3, FloorAndLost DEF lost
    <3>. QED  BY <3>2, <3>3
  <2>3. ASSUME lost[i] = 0 PROVE ~(Cardinality(Ahead(lost, i)) < left)
    <3>1. Losing(total, nets) \subseteq Ahead(lost, i) /\ Ahead(lost, i) \subseteq DOMAIN nets
      BY <2>3 DEF Losing, Ahead, Lost
    <3>2. /\ IsFiniteSet(Ahead(lost, i)) /\ Cardinality(Ahead(lost, i)) \in Nat
          /\ Cardinality(Losing(total, nets)) <= Cardinality(Ahead(lost, i))
          /\ Cardinality(Losing(total, nets)) \in Nat
      BY <3>1, FS_Subset, FS_CardinalityType
    <3>3. left \in 0 .. Cardinality(Losing(total, nets))
      BY <1>1, <1>3, LeftOver
    <3>. HIDE DEF left, lost
    <3>. QED  BY <3>2, <3>3
  <2>. HIDE DEF floors, lost, left
  <2>. QED  BY <2>1, <2>2, <2>3
<1>. QED  BY <1>2, <1>3
===============================================================================
