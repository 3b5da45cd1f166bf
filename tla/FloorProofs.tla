----------------------------- MODULE FloorProofs ------------------------------
(***************************************************************************)
(* Proofs about Floor for every number of tables, phones, letters and      *)
(* orders, whatever the phones ask and whatever room they find: the types, *)
(* that a portion is on one bill, that combined bills tie, that an intent  *)
(* lands on its own party, and that two parties are apart.                 *)
(***************************************************************************)
EXTENDS Floor, MoneyProofs

----------------------------------------------------------------------------
(* The least and the greatest of some numbers. *)

\* Some numbers, if they are not without end, have a least one.
LEMMA LeastIs ==
    ASSUME NEW S \in SUBSET Int, IsFiniteSet(S), S # {}
    PROVE  Min(S) \in S
<1>. DEFINE A == {t \in SUBSET S : t # {} => \E x \in t : \A y \in t : x <= y}
<1>1. ASSUME NEW t \in SUBSET S, \A x \in t : t \ {x} \in A
      PROVE  t \in A
  <2>1. SUFFICES ASSUME t # {} PROVE \E x \in t : \A y \in t : x <= y
    OBVIOUS
  <2>2. PICK z \in t : TRUE
    BY <2>1
  <2>3. CASE t \ {z} = {}
    <3>1. \A y \in t : z <= y
      BY <2>2, <2>3
    <3>. QED  BY <3>1, <2>2
  <2>4. CASE t \ {z} # {}
    <3>1. PICK x \in t \ {z} : \A y \in t \ {z} : x <= y
      BY <1>1, <2>2, <2>4
    <3>2. x \in Int /\ z \in Int /\ \A y \in t : y \in Int
      BY <2>2, <3>1
    <3>3. CASE x <= z
      <4>1. \A y \in t : x <= y
        BY <3>1, <3>3
      <4>. QED  BY <4>1, <3>1
    <3>4. CASE z <= x
      <4>1. \A y \in t : z <= y
        BY <3>1, <3>2, <3>4
      <4>. QED  BY <4>1, <2>2
    <3>. QED  BY <3>2, <3>3, <3>4
  <2>. QED  BY <2>3, <2>4
<1>. HIDE DEF A
<1>2. SUBSET S \subseteq A
  BY <1>1, SubsetInduction
<1>3. \E x \in S : \A y \in S : x <= y
  <2>1. S \in A
    BY <1>2
  <2>. QED  BY <2>1 DEF A
<1>. QED  BY <1>3 DEF Min

\* And a greatest one.
LEMMA GreatestIs ==
    ASSUME NEW S \in SUBSET Int, IsFiniteSet(S), S # {}
    PROVE  Max(S) \in S /\ \A y \in S : y <= Max(S)
<1>. DEFINE A == {t \in SUBSET S : t # {} => \E x \in t : \A y \in t : y <= x}
<1>1. ASSUME NEW t \in SUBSET S, \A x \in t : t \ {x} \in A
      PROVE  t \in A
  <2>1. SUFFICES ASSUME t # {} PROVE \E x \in t : \A y \in t : y <= x
    OBVIOUS
  <2>2. PICK z \in t : TRUE
    BY <2>1
  <2>3. CASE t \ {z} = {}
    <3>1. \A y \in t : y <= z
      BY <2>2, <2>3
    <3>. QED  BY <3>1, <2>2
  <2>4. CASE t \ {z} # {}
    <3>1. PICK x \in t \ {z} : \A y \in t \ {z} : y <= x
      BY <1>1, <2>2, <2>4
    <3>2. x \in Int /\ z \in Int /\ \A y \in t : y \in Int
      BY <2>2, <3>1
    <3>3. CASE z <= x
      <4>1. \A y \in t : y <= x
        BY <3>1, <3>3
      <4>. QED  BY <4>1, <3>1
    <3>4. CASE x <= z
      <4>1. \A y \in t : y <= z
        BY <3>1, <3>2, <3>4
      <4>. QED  BY <4>1, <2>2
    <3>. QED  BY <3>2, <3>3, <3>4
  <2>. QED  BY <2>3, <2>4
<1>. HIDE DEF A
<1>2. SUBSET S \subseteq A
  BY <1>1, SubsetInduction
<1>3. \E x \in S : \A y \in S : y <= x
  <2>1. S \in A
    BY <1>2
  <2>. QED  BY <2>1 DEF A
<1>. QED  BY <1>3 DEF Max

\* The orders and the letters have an end.
LEMMA FewOrders ==
    /\ IsFiniteSet(Orders) /\ Orders \in SUBSET Int /\ NoOrder \notin Orders
    /\ IsFiniteSet(Seats) /\ Seats \in SUBSET Int
<1>1. IsFiniteSet(Orders) /\ IsFiniteSet(Seats)
  BY FS_Interval, FloorAssumption DEF Orders, Seats
<1>. QED  BY <1>1, FloorAssumption DEF Orders, Seats, NoOrder

----------------------------------------------------------------------------
(* What the bills come to. *)

\* The bills of an order table, and what an order is charged and was told of.
Paying(os) == {o \in Orders : os[o].state # "none" /\ os[o].into = NoOrder}
Food(os, o) == IF o \in Paying(os) THEN os[o].food ELSE 0
Told(os, o) == IF o \in Paying(os) THEN os[o].told ELSE 0
AllFood(os) == SumFunctionOnSet([o \in Orders |-> Food(os, o)], Orders)
AllTold(os) == SumFunctionOnSet([o \in Orders |-> Told(os, o)], Orders)

\* A sum over some is a sum over all in which the others count for nothing.
LEMMA SumOfPart ==
    ASSUME NEW S, IsFiniteSet(S), NEW T \in SUBSET S, NEW f, \A x \in T : f[x] \in Int,
           NEW g, \A x \in S : g[x] = IF x \in T THEN f[x] ELSE 0
    PROVE  SumFunctionOnSet(f, T) = SumFunctionOnSet(g, S)
<1>1. IsFiniteSet(T) /\ IsFiniteSet(S \ T)
  BY FS_Subset
<1>2. \A x \in T : f[x] = g[x]
  OBVIOUS
<1>3. \A x \in S \ T : g[x] = 0
  OBVIOUS
<1>4. \A x \in T \cup (S \ T) : g[x] \in Int
  OBVIOUS
<1>5. SumFunctionOnSet(g, T \cup (S \ T)) = SumFunctionOnSet(g, T) + SumFunctionOnSet(g, S \ T)
  <2>1. T \cap (S \ T) = {}
    OBVIOUS
  <2>. QED  BY <1>1, <1>4, <2>1, SumOfBoth
<1>6. SumFunctionOnSet(f, T) = SumFunctionOnSet(g, T)
  BY <1>1, <1>2, SumOfSame
<1>7. SumFunctionOnSet(g, S \ T) = 0
  BY <1>1, <1>3, SumOfZeros
<1>8. SumFunctionOnSet(g, T) \in Int
  BY <1>1, <1>4, SumIsInt
<1>9. T \cup (S \ T) = S
  OBVIOUS
<1>10. SumFunctionOnSet(g, S) = SumFunctionOnSet(g, T) + SumFunctionOnSet(g, S \ T)
  BY <1>5, <1>9, Zenon
<1>. QED  BY <1>6, <1>7, <1>8, <1>10

\* The portions on the bills, order by order.
LEMMA PortionsAre ==
    ASSUME NEW os \in [Orders -> Order]
    PROVE  /\ SumFunctionOnSet([o \in Orders |-> os[o].food], Paying(os)) = AllFood(os)
           /\ SumFunctionOnSet([o \in Orders |-> os[o].told], Paying(os)) = AllTold(os)
           /\ AllFood(os) \in Nat /\ AllTold(os) \in Nat
           /\ \A o \in Orders : Food(os, o) \in Nat /\ Told(os, o) \in Nat
<1>. DEFINE meals == [o \in Orders |-> os[o].food]
            portions == [o \in Orders |-> os[o].told]
            foods == [o \in Orders |-> Food(os, o)]
            tolds == [o \in Orders |-> Told(os, o)]
<1>1. \A o \in Orders : os[o].food \in Nat /\ os[o].told \in Nat
  BY DEF Order
<1>2. \A o \in Orders : Food(os, o) \in Nat /\ Told(os, o) \in Nat
  BY <1>1 DEF Food, Told
<1>3. Paying(os) \in SUBSET Orders /\ IsFiniteSet(Orders)
  BY FewOrders DEF Paying
<1>4. /\ \A o \in Paying(os) : meals[o] \in Int /\ portions[o] \in Int
      /\ \A o \in Orders : foods[o] = (IF o \in Paying(os) THEN meals[o] ELSE 0)
      /\ \A o \in Orders : tolds[o] = (IF o \in Paying(os) THEN portions[o] ELSE 0)
      /\ \A o \in Orders : foods[o] \in Nat /\ tolds[o] \in Nat
  BY <1>1, <1>2, <1>3 DEF Food, Told
<1>5. AllFood(os) = SumFunctionOnSet(foods, Orders) /\ AllTold(os) = SumFunctionOnSet(tolds, Orders)
  BY DEF AllFood, AllTold
<1>. HIDE DEF meals, portions, foods, tolds
<1>6. SumFunctionOnSet(meals, Paying(os)) = SumFunctionOnSet(foods, Orders)
  BY <1>3, <1>4, SumOfPart
<1>7. SumFunctionOnSet(portions, Paying(os)) = SumFunctionOnSet(tolds, Orders)
  BY <1>3, <1>4, SumOfPart
<1>8. SumFunctionOnSet(foods, Orders) \in Nat /\ SumFunctionOnSet(tolds, Orders) \in Nat
  BY <1>3, <1>4, SumIsNat
<1>. QED  BY <1>2, <1>5, <1>6, <1>7, <1>8 DEF meals, portions

\* Orders that stay as they were, but for one.
OnlyAt(os, ns, o) == \A x \in Orders \ {o} : ns[x] = os[x]

\* The bills change by what that one changes by.
LEMMA OneBill ==
    ASSUME NEW os \in [Orders -> Order], NEW ns \in [Orders -> Order], NEW o \in Orders, OnlyAt(os, ns, o)
    PROVE  /\ AllFood(ns) = AllFood(os) + (Food(ns, o) - Food(os, o))
           /\ AllTold(ns) = AllTold(os) + (Told(ns, o) - Told(os, o))
<1>. DEFINE f(m) == [x \in Orders |-> Food(m, x)]
            t(m) == [x \in Orders |-> Told(m, x)]
<1>1. \A x \in Orders \ {o} : Food(ns, x) = Food(os, x) /\ Told(ns, x) = Told(os, x)
  BY DEF OnlyAt, Food, Told, Paying
<1>2. \A x \in Orders : /\ f(os)[x] \in Int /\ f(ns)[x] \in Int
                        /\ t(os)[x] \in Int /\ t(ns)[x] \in Int
  <2>1. \A x \in Orders : Food(os, x) \in Nat /\ Told(os, x) \in Nat
    BY PortionsAre
  <2>2. \A x \in Orders : Food(ns, x) \in Nat /\ Told(ns, x) \in Nat
    BY PortionsAre
  <2>. QED  BY <2>1, <2>2
<1>3. \A x \in Orders \ {o} : f(ns)[x] = f(os)[x] /\ t(ns)[x] = t(os)[x]
  BY <1>1
<1>4. /\ f(os)[o] = Food(os, o) /\ f(ns)[o] = Food(ns, o)
      /\ t(os)[o] = Told(os, o) /\ t(ns)[o] = Told(ns, o)
  OBVIOUS
<1>5. /\ AllFood(os) = SumFunctionOnSet(f(os), Orders) /\ AllFood(ns) = SumFunctionOnSet(f(ns), Orders)
      /\ AllTold(os) = SumFunctionOnSet(t(os), Orders) /\ AllTold(ns) = SumFunctionOnSet(t(ns), Orders)
  BY DEF AllFood, AllTold
<1>. HIDE DEF f, t
<1>6. IsFiniteSet(Orders)
  BY FewOrders
<1>7. SumFunctionOnSet(f(ns), Orders) = SumFunctionOnSet(f(os), Orders) + (f(ns)[o] - f(os)[o])
  BY <1>2, <1>3, <1>6, SumChanges
<1>8. SumFunctionOnSet(t(ns), Orders) = SumFunctionOnSet(t(os), Orders) + (t(ns)[o] - t(os)[o])
  BY <1>2, <1>3, <1>6, SumChanges
<1>. QED  BY <1>4, <1>5, <1>7, <1>8

----------------------------------------------------------------------------
(* Combined bills. *)

Unopened(os) == \A o \in Orders : os[o].state = "none" => os[o] = Blank
Sound(os) == os \in [Orders -> Order] /\ Unopened(os) /\ Ties(os) /\ Linked(os)

\* What a change of one order may do to the bills: nothing to who is on which,
\* a combined bill charges what it charges more for its own table, and what it
\* serves at its own table stays once another bill charges for it.
Steady(x, y) ==
    /\ y.into = x.into /\ y.sources = x.sources
    /\ x.sources # {} => y.food = y.service + (x.food - x.service)
    /\ x.into # NoOrder => Own(y) = Own(x)

\* And when it may be over: paid with its own bill, or gone when nobody else pays
\* for it or somebody has.
MayEnd(os, o, state) ==
    \/ state = "open"
    \/ state = "settled" /\ os[o].into = NoOrder
    \/ state = "cancelled" /\ os[o].into = NoOrder /\ os[o].sources = {}
    \/ state = "cancelled" /\ os[o].into # NoOrder /\ os[os[o].into].state = "settled"

\* A change of one open order keeps the bills tied.
LEMMA OneOrder ==
    ASSUME NEW os, Sound(os), NEW ns \in [Orders -> Order], NEW o \in Orders, OnlyAt(os, ns, o),
           os[o].state = "open", Steady(os[o], ns[o]), MayEnd(os, o, ns[o].state)
    PROVE  Sound(ns)
<1>1. /\ os \in [Orders -> Order] /\ Ties(os) /\ Linked(os) /\ Unopened(os)
      /\ \A x \in Orders : os[x] \in Order /\ ns[x] \in Order
  BY DEF Sound
<1>2. \A x \in Orders : ns[x].into = os[x].into /\ ns[x].sources = os[x].sources
  BY DEF OnlyAt, Steady
<1>3. /\ \A x \in Orders : x # o => ns[x] = os[x]
      /\ ns[o].state \in {"open", "settled", "cancelled"}
  BY DEF OnlyAt, MayEnd
<1>4. Unopened(ns)
  BY <1>1, <1>3 DEF Unopened
<1>5. Linked(ns)
  <2>1. SUFFICES ASSUME NEW x \in Orders, ns[x].into # NoOrder, ns[ns[x].into].state = "open"
                 PROVE  x \in ns[ns[x].into].sources
    BY DEF Linked
  <2>2. os[x].into \in Orders /\ os[os[x].into].state = "open"
    BY <1>1, <1>2, <1>3, <2>1 DEF Order
  <2>. QED  BY <1>1, <1>2, <2>1, <2>2 DEF Linked
<1>6. ASSUME NEW r \in Orders, ns[r].sources # {}, ns[r].into = NoOrder
      PROVE  Charges(ns, r)
  <2>. DEFINE f == [x \in Orders |-> Own(os[x])]
              g == [x \in Orders |-> Own(ns[x])]
              S == os[r].sources
  <2>1. Charges(os, r) /\ S = ns[r].sources /\ S \in SUBSET Orders /\ os[r].into = NoOrder
    BY <1>1, <1>2, <1>6 DEF Ties, Order
  <2>2. \A x \in S : os[x].into = r /\ (os[x].state = "open" \/ os[r].state = "settled")
    BY <2>1 DEF Charges
  <2>3. o = r \/ ns[r] = os[r]
    BY <1>3
  <2>4. r \notin S /\ r # NoOrder
    BY <2>1, <2>2, FewOrders
  <2>5. \A x \in S : Own(ns[x]) = Own(os[x])
    BY <1>3, <2>1, <2>2, <2>4 DEF Steady
  <2>6. SumFunctionOnSet(f, S) = SumFunctionOnSet(g, S)
    <3>1. IsFiniteSet(S)
      BY <2>1, FewOrders, FS_Subset
    <3>2. \A x \in S : f[x] = g[x]
      BY <2>1, <2>5
    <3>. HIDE DEF f, g
    <3>. QED  BY <3>1, <3>2, SumOfSame
  <2>7. os[r].food = os[r].service + SumFunctionOnSet(f, S)
    BY <2>1 DEF Charges
  <2>8. SumFunctionOnSet(f, S) \in Int
    <3>1. IsFiniteSet(S)
      BY <2>1, FewOrders, FS_Subset
    <3>2. \A x \in S : f[x] \in Int
      BY <1>1, <2>1 DEF Own, Order
    <3>. HIDE DEF f
    <3>. QED  BY <3>1, <3>2, SumIsInt
  <2>9. ns[r].food = ns[r].service + SumFunctionOnSet(g, S)
    <3>. HIDE DEF f, g
    <3>1. CASE ns[r] = os[r]
      BY <2>6, <2>7, <3>1
    <3>2. CASE o = r
      <4>1. ns[r].food = ns[r].service + (os[r].food - os[r].service)
        BY <1>6, <1>2, <3>2 DEF Steady
      <4>2. os[r].food \in Int /\ os[r].service \in Int /\ ns[r].service \in Int
        BY <1>1 DEF Order
      <4>. QED  BY <2>6, <2>7, <2>8, <4>1, <4>2
    <3>. QED  BY <2>3, <3>1, <3>2
  <2>10. ASSUME NEW x \in S
         PROVE  ns[x].into = r /\ (ns[x].state = "open" \/ ns[r].state = "settled")
    <3>1. ns[x].into = r /\ os[x].into = r /\ x \in Orders
      BY <1>2, <2>1, <2>2
    <3>2. CASE x = o
      BY <1>3, <2>2, <2>4, <3>1, <3>2 DEF MayEnd
    <3>3. CASE r = o
      BY <1>3, <1>6, <1>2, <2>2, <2>4, <2>1, <3>1, <3>3 DEF MayEnd
    <3>4. CASE x # o /\ r # o
      BY <1>3, <2>2, <3>1, <3>4
    <3>. QED  BY <3>1, <3>2, <3>3, <3>4
  <2>. QED  BY <2>1, <2>9, <2>10 DEF Charges
<1>7. ASSUME NEW r \in Orders, ns[r].into # NoOrder
      PROVE  ns[ns[r].into].state \in {"open", "settled"} /\ ns[ns[r].into].into = NoOrder
  <2>1. /\ os[r].into \in Orders /\ ns[r].into = os[r].into
        /\ os[os[r].into].state \in {"open", "settled"} /\ os[os[r].into].into = NoOrder
    BY <1>1, <1>2, <1>7 DEF Ties, Order
  <2>2. ns[os[r].into].into = NoOrder
    BY <1>2, <2>1
  <2>3. CASE os[r].into # o
    BY <1>3, <2>1, <2>2, <2>3
  <2>4. CASE os[r].into = o
    <3>1. r \in os[o].sources
      BY <1>1, <1>7, <2>1, <2>4 DEF Linked
    <3>. QED  BY <2>1, <2>2, <2>4, <3>1 DEF MayEnd
  <2>. QED  BY <2>3, <2>4
<1>8. Ties(ns)
  BY <1>6, <1>7 DEF Ties
<1>. QED  BY <1>4, <1>5, <1>8 DEF Sound

\* An order that has just been opened is on no bill but its own, or on one that
\* is paid.
LEMMA NewOrder ==
    ASSUME NEW os, Sound(os), NEW ns \in [Orders -> Order], NEW n \in Orders, OnlyAt(os, ns, n),
           os[n].state = "none", ns[n].state = "open", ns[n].sources = {},
           \/ ns[n].into = NoOrder
           \/ ns[n].into \in Orders /\ os[ns[n].into].state = "settled" /\ os[ns[n].into].into = NoOrder
    PROVE  Sound(ns)
<1>1. /\ os \in [Orders -> Order] /\ Ties(os) /\ Linked(os) /\ Unopened(os)
      /\ \A x \in Orders : os[x] \in Order /\ ns[x] \in Order
      /\ os[n] = Blank
  BY DEF Sound, Unopened
<1>2. os[n].into = NoOrder /\ os[n].sources = {} /\ os[n].food = 0 /\ os[n].service = 0
  BY <1>1 DEF Blank
<1>3. \A x \in Orders : x # n => ns[x] = os[x]
  BY DEF OnlyAt
<1>4. Unopened(ns)
  BY <1>1, <1>3 DEF Unopened
<1>5. ASSUME NEW x \in Orders, x # n, os[x].into # NoOrder
      PROVE  os[x].into \in Orders \ {n}
  <2>1. os[x].into \in Orders /\ os[os[x].into].state \in {"open", "settled"}
    BY <1>1, <1>5 DEF Ties, Order
  <2>. QED  BY <2>1
<1>6. Linked(ns)
  <2>1. SUFFICES ASSUME NEW x \in Orders, ns[x].into # NoOrder, ns[ns[x].into].state = "open"
                 PROVE  x \in ns[ns[x].into].sources
    BY DEF Linked
  <2>2. CASE x = n
    <3>1. ns[n].into # n
      BY <2>1, <2>2
    <3>2. ns[ns[n].into].state = "settled"
      BY <1>3, <2>1, <2>2, <3>1
    <3>. QED  BY <2>1, <2>2, <3>2
  <2>3. CASE x # n
    <3>1. ns[x] = os[x] /\ os[x].into \in Orders \ {n}
      BY <1>3, <1>5, <2>1, <2>3
    <3>2. ns[os[x].into] = os[os[x].into]
      BY <1>3, <3>1
    <3>. QED  BY <1>1, <2>1, <3>1, <3>2 DEF Linked
  <2>. QED  BY <2>2, <2>3
<1>7. ASSUME NEW r \in Orders, ns[r].sources # {}, ns[r].into = NoOrder
      PROVE  Charges(ns, r)
  <2>. DEFINE f == [x \in Orders |-> Own(os[x])]
              g == [x \in Orders |-> Own(ns[x])]
              S == os[r].sources
  <2>1. r # n /\ ns[r] = os[r]
    BY <1>3, <1>7
  <2>2. Charges(os, r) /\ S \in SUBSET Orders
    BY <1>1, <1>7, <2>1 DEF Ties, Order
  <2>3. \A x \in S : os[x].into = r /\ (os[x].state = "open" \/ os[r].state = "settled")
    BY <2>2 DEF Charges
  <2>4. n \notin S
    BY <1>2, <2>3, FewOrders
  <2>5. \A x \in S : x \in Orders /\ ns[x] = os[x]
    BY <1>3, <2>2, <2>4
  <2>6. SumFunctionOnSet(f, S) = SumFunctionOnSet(g, S)
    <3>1. IsFiniteSet(S)
      BY <2>2, FewOrders, FS_Subset
    <3>2. \A x \in S : f[x] = g[x]
      BY <2>5
    <3>. HIDE DEF f, g
    <3>. QED  BY <3>1, <3>2, SumOfSame
  <2>7. os[r].food = os[r].service + SumFunctionOnSet(f, S)
    BY <2>2 DEF Charges
  <2>8. ns[r].food = ns[r].service + SumFunctionOnSet(g, ns[r].sources)
    <3>. HIDE DEF f, g
    <3>. QED  BY <2>1, <2>6, <2>7
  <2>9. \A x \in ns[r].sources : ns[x].into = r /\ (ns[x].state = "open" \/ ns[r].state = "settled")
    BY <2>1, <2>3, <2>5
  <2>. QED  BY <2>8, <2>9 DEF Charges
<1>8. ASSUME NEW r \in Orders, ns[r].into # NoOrder
      PROVE  ns[ns[r].into].state \in {"open", "settled"} /\ ns[ns[r].into].into = NoOrder
  <2>1. CASE r = n
    <3>1. ns[n].into \in Orders \ {n} /\ os[ns[n].into].state = "settled" /\ os[ns[n].into].into = NoOrder
      BY <1>8, <2>1
    <3>. QED  BY <1>3, <2>1, <3>1
  <2>2. CASE r # n
    <3>1. ns[r] = os[r] /\ os[r].into \in Orders \ {n}
      BY <1>3, <1>5, <1>8, <2>2
    <3>2. ns[os[r].into] = os[os[r].into]
      BY <1>3, <3>1
    <3>. QED  BY <1>1, <1>8, <3>1, <3>2 DEF Ties
  <2>. QED  BY <2>1, <2>2
<1>9. Ties(ns)
  BY <1>7, <1>8 DEF Ties
<1>. QED  BY <1>4, <1>6, <1>9 DEF Sound

\* An order whose bill another bill takes over.
Moved(x, y, into) ==
    y.into = into /\ y.sources = x.sources /\ y.state = x.state /\ y.food = x.food
        /\ y.told = x.told /\ y.service = x.service /\ y.table = x.table /\ y.seat = x.seat

\* The bill of one open order is taken over by another, with the bills it had
\* taken over before.
TakenOver(os, ns, a, s) ==
    /\ ns[s].food = os[s].food + os[a].food /\ ns[s].service = Own(os[s])
    /\ ns[s].sources = (os[s].sources \cup {a}) \cup os[a].sources
    /\ ns[s].into = NoOrder /\ ns[s].state = "open"
    /\ \A x \in {a} \cup os[a].sources : Moved(os[x], ns[x], s)
    /\ \A x \in Orders : x # s /\ x # a /\ x \notin os[a].sources => ns[x] = os[x]

\* What a bill that charges for itself charges is what it and its sources serve.
LEMMA WhatItCharges ==
    ASSUME NEW os, Sound(os), NEW r \in Orders, os[r].into = NoOrder
    PROVE  /\ os[r].sources \in SUBSET Orders
           /\ os[r].food = Own(os[r]) + SumFunctionOnSet([x \in Orders |-> Own(os[x])], os[r].sources)
           /\ \A x \in os[r].sources : os[x].into = r /\ (os[x].state = "open" \/ os[r].state = "settled")
<1>1. os[r] \in Order /\ os[r].sources \in SUBSET Orders /\ os[r].food \in Nat
  BY DEF Sound, Order
<1>2. CASE os[r].sources = {}
  BY <1>1, <1>2, SumOfNone DEF Own
<1>3. CASE os[r].sources # {}
  <2>1. Charges(os, r)
    BY <1>3 DEF Sound, Ties
  <2>. QED  BY <1>1, <1>3, <2>1 DEF Charges, Own
<1>. QED  BY <1>2, <1>3

\* Taking a bill over keeps the bills tied.
LEMMA TakeOver ==
    ASSUME NEW os, Sound(os), NEW ns \in [Orders -> Order], NEW a \in Orders, NEW s \in Orders, a # s,
           os[a].state = "open", os[a].into = NoOrder, os[s].state = "open", os[s].into = NoOrder,
           TakenOver(os, ns, a, s)
    PROVE  Sound(ns)
<1>. DEFINE A == os[a].sources
            S == os[s].sources
            f == [x \in Orders |-> Own(os[x])]
            g == [x \in Orders |-> Own(ns[x])]
<1>1. /\ os \in [Orders -> Order] /\ Ties(os) /\ Linked(os) /\ Unopened(os)
      /\ \A x \in Orders : os[x] \in Order /\ ns[x] \in Order
  BY DEF Sound
<1>2. /\ A \in SUBSET Orders /\ \A x \in A : os[x].into = a /\ os[x].state = "open"
      /\ os[a].food = Own(os[a]) + SumFunctionOnSet(f, A)
  <2>1. os[a].state # "settled"
    OBVIOUS
  <2>. QED  BY <2>1, WhatItCharges
<1>3. /\ S \in SUBSET Orders /\ \A x \in S : os[x].into = s /\ os[x].state = "open"
      /\ os[s].food = Own(os[s]) + SumFunctionOnSet(f, S)
  <2>1. os[s].state # "settled"
    OBVIOUS
  <2>. QED  BY <2>1, WhatItCharges
<1>4. /\ a # NoOrder /\ s # NoOrder /\ s \notin A /\ a \notin A /\ a \notin S /\ s \notin S
      /\ A \cap S = {}
  BY <1>2, <1>3, FewOrders
<1>5. /\ ns[s].food = os[s].food + os[a].food /\ ns[s].service = Own(os[s])
      /\ ns[s].sources = (S \cup {a}) \cup A
      /\ ns[s].into = NoOrder /\ ns[s].state = "open"
      /\ Moved(os[a], ns[a], s) /\ \A x \in A : Moved(os[x], ns[x], s)
      /\ \A x \in Orders : x # s /\ x # a /\ x \notin A => ns[x] = os[x]
  BY DEF TakenOver
<1>6. \A x \in Orders : x # s => /\ Own(ns[x]) = Own(os[x]) /\ ns[x].state = os[x].state
                                 /\ ns[x].sources = os[x].sources /\ ns[x].food = os[x].food
                                 /\ ns[x].service = os[x].service
                                 /\ ns[x].into = (IF x \in {a} \cup A THEN s ELSE os[x].into)
  <2>1. SUFFICES ASSUME NEW x \in Orders, x # s
                 PROVE  /\ Own(ns[x]) = Own(os[x]) /\ ns[x].state = os[x].state
                        /\ ns[x].sources = os[x].sources /\ ns[x].food = os[x].food
                        /\ ns[x].service = os[x].service
                        /\ ns[x].into = (IF x \in {a} \cup A THEN s ELSE os[x].into)
    OBVIOUS
  <2>2. CASE x \in {a} \cup A
    <3>1. Moved(os[x], ns[x], s)
      BY <1>5, <2>2
    <3>. QED  BY <2>2, <3>1 DEF Moved, Own
  <2>3. CASE x \notin {a} \cup A
    <3>1. ns[x] = os[x]
      BY <1>5, <2>1, <2>3
    <3>. QED  BY <2>3, <3>1
  <2>. QED  BY <2>2, <2>3
<1>. HIDE DEF A, S, f, g
<1>7. Unopened(ns)
  <2>1. SUFFICES ASSUME NEW x \in Orders, ns[x].state = "none" PROVE ns[x] = Blank
    BY DEF Unopened
  <2>2. x # s /\ x # a /\ x \notin A
    BY <1>2, <1>5, <1>6, <2>1
  <2>3. ns[x] = os[x]
    BY <1>5, <2>2
  <2>. QED  BY <1>1, <2>1, <2>3 DEF Unopened
<1>8. \A x \in Orders : os[x].into = a => x \in A
  BY <1>1, <1>4 DEF Linked, A
<1>9. Linked(ns)
  <2>1. SUFFICES ASSUME NEW x \in Orders, ns[x].into # NoOrder, ns[ns[x].into].state = "open"
                 PROVE  x \in ns[ns[x].into].sources
    BY DEF Linked
  <2>2. CASE x \in {a} \cup A
    BY <1>4, <1>5, <1>6, <2>2
  <2>3. CASE x \notin {a} \cup A
    <3>1. x # s /\ ns[x].into = os[x].into /\ os[x].into \in Orders
      BY <1>1, <1>5, <1>6, <2>1, <2>3 DEF Order
    <3>2. CASE os[x].into = s
      <4>1. x \in S
        BY <1>1, <1>4, <3>2 DEF Linked, S
      <4>. QED  BY <1>5, <3>1, <3>2, <4>1
    <3>3. CASE os[x].into # s
      <4>1. os[os[x].into].state = "open" /\ ns[os[x].into].sources = os[os[x].into].sources
        BY <1>6, <2>1, <3>1, <3>3
      <4>. QED  BY <1>1, <2>1, <3>1, <4>1 DEF Linked
    <3>. QED  BY <3>2, <3>3
  <2>. QED  BY <2>2, <2>3
<1>10. /\ IsFiniteSet(A) /\ IsFiniteSet(S) /\ IsFiniteSet(S \cup {a}) /\ IsFiniteSet((S \cup {a}) \cup A)
       /\ \A x \in Orders : f[x] \in Int
  <2>1. \A x \in Orders : f[x] \in Int
    BY <1>1 DEF f, Own, Order
  <2>2. IsFiniteSet(A) /\ IsFiniteSet(S) /\ IsFiniteSet(S \cup {a}) /\ IsFiniteSet((S \cup {a}) \cup A)
    <3>1. S \cup {a} \in SUBSET Orders /\ (S \cup {a}) \cup A \in SUBSET Orders
      BY <1>2, <1>3
    <3>. QED  BY <1>2, <1>3, <3>1, FewOrders, FS_Subset
  <2>. QED  BY <2>1, <2>2
<1>11. Charges(ns, s)
  <2>1. SumFunctionOnSet(f, S \cup {a}) = f[a] + SumFunctionOnSet(f, S)
    <3>1. \A x \in S : f[x] \in Int
      BY <1>3, <1>10
    <3>. QED  BY <1>4, <1>10, <3>1, SumAdd
  <2>2. SumFunctionOnSet(f, (S \cup {a}) \cup A) = SumFunctionOnSet(f, S \cup {a}) + SumFunctionOnSet(f, A)
    <3>1. \A x \in (S \cup {a}) \cup A : f[x] \in Int
      BY <1>2, <1>3, <1>10
    <3>2. (S \cup {a}) \cap A = {}
      BY <1>4
    <3>. QED  BY <1>10, <3>1, <3>2, SumOfBoth
  <2>3. SumFunctionOnSet(f, (S \cup {a}) \cup A) = SumFunctionOnSet(g, (S \cup {a}) \cup A)
    <3>1. \A x \in (S \cup {a}) \cup A : f[x] = g[x]
      <4>1. \A x \in (S \cup {a}) \cup A : x \in Orders /\ x # s
        BY <1>2, <1>3, <1>4
      <4>. QED  BY <1>6, <4>1 DEF f, g
    <3>. QED  BY <1>10, <3>1, SumOfSame
  <2>4. f[a] = Own(os[a]) /\ f[a] \in Int
    BY <1>10 DEF f
  <2>5. /\ SumFunctionOnSet(f, S) \in Int /\ SumFunctionOnSet(f, A) \in Int
    <3>1. (\A x \in S : f[x] \in Int) /\ (\A x \in A : f[x] \in Int)
      BY <1>2, <1>3, <1>10
    <3>. QED  BY <1>10, <3>1, SumIsInt
  <2>6. Own(os[s]) \in Int
    BY <1>1 DEF Own, Order
  <2>7. ns[s].food = ns[s].service + SumFunctionOnSet(g, (S \cup {a}) \cup A)
    BY <1>2, <1>3, <1>5, <2>1, <2>2, <2>3, <2>4, <2>5, <2>6
  <2>8. ns[s].food = ns[s].service + SumFunctionOnSet([x \in Orders |-> Own(ns[x])], ns[s].sources)
    BY <1>5, <2>7, Zenon DEF g
  <2>9. \A x \in ns[s].sources : ns[x].into = s /\ ns[x].state = "open"
    <3>1. SUFFICES ASSUME NEW x \in (S \cup {a}) \cup A PROVE ns[x].into = s /\ ns[x].state = "open"
      BY <1>5
    <3>2. x \in Orders /\ x # s /\ os[x].state = "open" /\ (x \in S => os[x].into = s)
      BY <1>2, <1>3, <1>4, <3>1
    <3>. QED  BY <1>6, <3>1, <3>2
  <2>. QED  BY <2>8, <2>9 DEF Charges
<1>12. ASSUME NEW r \in Orders, r # s, ns[r].sources # {}, ns[r].into = NoOrder
       PROVE  Charges(ns, r)
  <2>. DEFINE R == os[r].sources
  <2>1. r \notin {a} \cup A /\ ns[r] = os[r]
    BY <1>4, <1>5, <1>6, <1>12
  <2>2. /\ R \in SUBSET Orders /\ Charges(os, r)
        /\ \A x \in R : os[x].into = r /\ (os[x].state = "open" \/ os[r].state = "settled")
    <3>1. Charges(os, r) /\ os[r] \in Order
      BY <1>1, <1>12, <2>1 DEF Ties
    <3>. QED  BY <3>1 DEF Charges, Order
  <2>3. \A x \in R : x # s /\ x \notin {a} \cup A
    BY <1>2, <1>12, <2>1, <2>2, FewOrders
  <2>. HIDE DEF R
  <2>4. \A x \in R : x \in Orders /\ ns[x] = os[x]
    BY <1>5, <2>2, <2>3
  <2>5. SumFunctionOnSet(f, R) = SumFunctionOnSet(g, R)
    <3>1. IsFiniteSet(R)
      BY <2>2, FewOrders, FS_Subset
    <3>2. \A x \in R : f[x] = g[x]
      BY <2>4 DEF f, g
    <3>. QED  BY <3>1, <3>2, SumOfSame
  <2>6. os[r].food = os[r].service + SumFunctionOnSet(f, R)
    BY <2>2, Zenon DEF Charges, f, R
  <2>7. ns[r].food = ns[r].service + SumFunctionOnSet(g, R)
    BY <2>1, <2>5, <2>6
  <2>8. ns[r].food = ns[r].service + SumFunctionOnSet([x \in Orders |-> Own(ns[x])], ns[r].sources)
    BY <2>1, <2>7, Zenon DEF g, R
  <2>9. \A x \in ns[r].sources : ns[x].into = r /\ (ns[x].state = "open" \/ ns[r].state = "settled")
    BY <2>1, <2>2, <2>4 DEF R
  <2>. QED  BY <2>8, <2>9 DEF Charges
<1>13. ASSUME NEW r \in Orders, ns[r].into # NoOrder
       PROVE  ns[ns[r].into].state \in {"open", "settled"} /\ ns[ns[r].into].into = NoOrder
  <2>1. CASE r \in {a} \cup A
    BY <1>4, <1>5, <1>6, <2>1
  <2>2. CASE r \notin {a} \cup A
    <3>1. r # s /\ ns[r].into = os[r].into /\ os[r].into \in Orders
      BY <1>1, <1>5, <1>6, <1>13, <2>2 DEF Order
    <3>2. os[os[r].into].state \in {"open", "settled"} /\ os[os[r].into].into = NoOrder
      BY <1>1, <1>13, <3>1 DEF Ties
    <3>3. os[r].into # a
      BY <1>8, <2>2
    <3>4. os[r].into \notin A
      BY <1>2, <1>4, <3>2
    <3>. QED  BY <1>5, <1>6, <3>1, <3>2, <3>3, <3>4
  <2>. QED  BY <2>1, <2>2
<1>14. Ties(ns)
  <2>1. \A r \in Orders : ns[r].sources # {} /\ ns[r].into = NoOrder => Charges(ns, r)
    BY <1>11, <1>12
  <2>. QED  BY <1>13, <2>1 DEF Ties
<1>. QED  BY <1>7, <1>9, <1>14 DEF Sound

----------------------------------------------------------------------------
(* Who sits where. *)

SameSeat(x, y) == x.state = "open" /\ y.state = "open" /\ x.table = y.table /\ x.seat = y.seat
Apart(os, lt) == \A o, x \in Orders : o # x /\ SameSeat(os[o], os[x]) => o \in lt \/ x \in lt

\* An order that stays where it is, or leaves.
Stays(x, y) == y.state = "open" => x.state = "open" /\ y.table = x.table /\ y.seat = x.seat

\* Who leaves is in nobody's way.
LEMMA NobodySits ==
    ASSUME NEW os, NEW ns, NEW lt, Apart(os, lt), \A x \in Orders : Stays(os[x], ns[x])
    PROVE  Apart(ns, lt)
BY DEF Apart, Stays, SameSeat

\* Who sits down where somebody sits is late.
LEMMA OneSits ==
    ASSUME NEW os, NEW ns, NEW lt, NEW after, NEW o \in Orders, Apart(os, lt),
           \A x \in Orders \ {o} : Stays(os[x], ns[x]),
           after \ {o} = lt \ {o},
           o \in after \/ \A x \in Orders \ {o} : ~SameSeat(ns[x], ns[o])
    PROVE  Apart(ns, after)
<1>1. SUFFICES ASSUME NEW x \in Orders, NEW y \in Orders, x # y, SameSeat(ns[x], ns[y])
               PROVE  x \in after \/ y \in after
  BY DEF Apart
<1>2. CASE x # o /\ y # o
  <2>1. SameSeat(os[x], os[y])
    BY <1>1, <1>2 DEF Stays, SameSeat
  <2>2. x \in lt \/ y \in lt
    BY <1>1, <2>1 DEF Apart
  <2>. QED  BY <1>2, <2>2
<1>3. CASE x = o
  BY <1>1, <1>3 DEF SameSeat
<1>4. CASE y = o
  BY <1>1, <1>4
<1>. QED  BY <1>2, <1>3, <1>4

----------------------------------------------------------------------------
(* The order table and what is counted of it. *)

Books(os, lt, food, tld) ==
    /\ Sound(os) /\ Apart(os, lt) /\ lt \subseteq Orders
    /\ food = AllFood(os) /\ tld = AllTold(os)

\* What the bills come to more when an order changes so.
More(os, o, change) == IF os[o].into = NoOrder THEN change ELSE 0

\* An open order changes where it is.
LEMMA Changes ==
    ASSUME NEW os, NEW lt, NEW food, NEW tld, Books(os, lt, food, tld),
           NEW o \in Orders, os[o].state = "open", NEW y \in Order,
           Steady(os[o], y), MayEnd(os, o, y.state), Stays(os[o], y)
    PROVE  Books([os EXCEPT ![o] = y], lt,
                 food + More(os, o, y.food - os[o].food), tld + More(os, o, y.told - os[o].told))
<1>. DEFINE ns == [os EXCEPT ![o] = y]
<1>1. os \in [Orders -> Order] /\ ns \in [Orders -> Order] /\ OnlyAt(os, ns, o) /\ ns[o] = y
  BY DEF Books, Sound, OnlyAt
<1>. HIDE DEF ns
<1>2. Sound(ns)
  BY <1>1, OneOrder DEF Books
<1>3. Apart(ns, lt)
  <2>1. \A x \in Orders : Stays(os[x], ns[x])
    BY <1>1 DEF OnlyAt, Stays
  <2>. QED  BY <2>1, NobodySits DEF Books
<1>4. /\ AllFood(ns) = AllFood(os) + (Food(ns, o) - Food(os, o))
      /\ AllTold(ns) = AllTold(os) + (Told(ns, o) - Told(os, o))
  BY <1>1, OneBill
<1>5. os[o] \in Order /\ y.state # "none" /\ y.into = os[o].into
  BY <1>1 DEF MayEnd, Steady
<1>6. /\ Food(ns, o) - Food(os, o) = More(os, o, y.food - os[o].food)
      /\ Told(ns, o) - Told(os, o) = More(os, o, y.told - os[o].told)
  BY <1>1, <1>5 DEF Food, Told, Paying, More, Order
<1>7. food + More(os, o, y.food - os[o].food) = AllFood(ns) /\ tld + More(os, o, y.told - os[o].told) = AllTold(ns)
  BY <1>4, <1>6 DEF Books
<1>8. Books(ns, lt, food + More(os, o, y.food - os[o].food), tld + More(os, o, y.told - os[o].told))
  BY <1>2, <1>3, <1>7 DEF Books
<1>. QED  BY <1>8 DEF ns

\* Who sits at a table of those that stay.
SitsIn(os, x, y) == os[x].state = "open" /\ os[x].table = y.table /\ os[x].seat = y.seat

\* How a history of who came late follows one that sits down.
NowLate(os, lt, after, o, y) ==
    /\ after \subseteq Orders /\ after \ {o} = lt \ {o}
    /\ o \in after \/ \A x \in Orders \ {o} : ~SitsIn(os, x, y)

\* An open order moves.
LEMMA Reseats ==
    ASSUME NEW os, NEW lt, NEW food, NEW tld, Books(os, lt, food, tld),
           NEW o \in Orders, os[o].state = "open", NEW y \in Order,
           y.state = "open", Steady(os[o], y), y.food = os[o].food, y.told = os[o].told,
           NEW after, NowLate(os, lt, after, o, y)
    PROVE  Books([os EXCEPT ![o] = y], after, food, tld)
<1>. DEFINE ns == [os EXCEPT ![o] = y]
<1>1. os \in [Orders -> Order] /\ ns \in [Orders -> Order] /\ OnlyAt(os, ns, o) /\ ns[o] = y
  BY DEF Books, Sound, OnlyAt
<1>. HIDE DEF ns
<1>2. Sound(ns)
  BY <1>1, OneOrder DEF Books, MayEnd
<1>3. Apart(ns, after)
  <2>1. \A x \in Orders \ {o} : ns[x] = os[x]
    BY <1>1 DEF OnlyAt
  <2>2. \A x \in Orders \ {o} : Stays(os[x], ns[x])
    BY <2>1 DEF Stays
  <2>3. o \in after \/ \A x \in Orders \ {o} : ~SameSeat(ns[x], ns[o])
    BY <1>1, <2>1 DEF NowLate, SitsIn, SameSeat
  <2>4. Apart(os, lt) /\ after \ {o} = lt \ {o}
    BY DEF Books, NowLate
  <2>. QED  BY <2>2, <2>3, <2>4, OneSits
<1>4. /\ AllFood(ns) = AllFood(os) + (Food(ns, o) - Food(os, o))
      /\ AllTold(ns) = AllTold(os) + (Told(ns, o) - Told(os, o))
  BY <1>1, OneBill
<1>5. Food(ns, o) = Food(os, o) /\ Told(ns, o) = Told(os, o)
  BY <1>1 DEF Food, Told, Paying, Steady
<1>6. AllFood(os) \in Nat /\ AllTold(os) \in Nat /\ Food(os, o) \in Nat /\ Told(os, o) \in Nat
  BY <1>1, PortionsAre
<1>7. food = AllFood(ns) /\ tld = AllTold(ns)
  BY <1>4, <1>5, <1>6 DEF Books
<1>8. Books(ns, after, food, tld)
  BY <1>2, <1>3, <1>7 DEF Books, NowLate
<1>. QED  BY <1>8 DEF ns

\* An order is opened, on its own bill or on one that is paid.
LEMMA Begins ==
    ASSUME NEW os, NEW lt, NEW food, NEW tld, Books(os, lt, food, tld),
           NEW n \in Orders, os[n].state = "none", NEW y \in Order,
           y.state = "open", y.sources = {},
           \/ y.into = NoOrder
           \/ y.into \in Orders /\ os[y.into].state = "settled" /\ os[y.into].into = NoOrder,
           NEW after, NowLate(os, lt, after, n, y)
    PROVE  Books([os EXCEPT ![n] = y], after,
                 food + (IF y.into = NoOrder THEN y.food ELSE 0), tld + (IF y.into = NoOrder THEN y.told ELSE 0))
<1>. DEFINE ns == [os EXCEPT ![n] = y]
<1>1. os \in [Orders -> Order] /\ ns \in [Orders -> Order] /\ OnlyAt(os, ns, n) /\ ns[n] = y
  BY DEF Books, Sound, OnlyAt
<1>. HIDE DEF ns
<1>2. Sound(ns)
  BY <1>1, NewOrder DEF Books
<1>3. Apart(ns, after)
  <2>1. \A x \in Orders \ {n} : ns[x] = os[x]
    BY <1>1 DEF OnlyAt
  <2>2. \A x \in Orders \ {n} : Stays(os[x], ns[x])
    BY <2>1 DEF Stays
  <2>3. n \in after \/ \A x \in Orders \ {n} : ~SameSeat(ns[x], ns[n])
    BY <1>1, <2>1 DEF NowLate, SitsIn, SameSeat
  <2>4. Apart(os, lt) /\ after \ {n} = lt \ {n}
    BY DEF Books, NowLate
  <2>. QED  BY <2>2, <2>3, <2>4, OneSits
<1>4. /\ AllFood(ns) = AllFood(os) + (Food(ns, n) - Food(os, n))
      /\ AllTold(ns) = AllTold(os) + (Told(ns, n) - Told(os, n))
  BY <1>1, OneBill
<1>5. /\ Food(os, n) = 0 /\ Food(ns, n) = (IF y.into = NoOrder THEN y.food ELSE 0)
      /\ Told(os, n) = 0 /\ Told(ns, n) = (IF y.into = NoOrder THEN y.told ELSE 0)
  BY <1>1 DEF Food, Told, Paying
<1>6. AllFood(os) \in Nat /\ AllTold(os) \in Nat /\ Food(ns, n) \in Nat /\ Told(ns, n) \in Nat
  BY <1>1, PortionsAre
<1>7. /\ food + (IF y.into = NoOrder THEN y.food ELSE 0) = AllFood(ns)
      /\ tld + (IF y.into = NoOrder THEN y.told ELSE 0) = AllTold(ns)
  BY <1>4, <1>5, <1>6 DEF Books
<1>8. Books(ns, after, food + (IF y.into = NoOrder THEN y.food ELSE 0),
            tld + (IF y.into = NoOrder THEN y.told ELSE 0))
  BY <1>2, <1>3, <1>7 DEF Books, NowLate
<1>. QED  BY <1>8 DEF ns

\* A bill takes another one over: what they come to stays.
LEMMA Joins ==
    ASSUME NEW os, NEW lt, NEW food, NEW tld, Books(os, lt, food, tld),
           NEW ns \in [Orders -> Order], NEW a \in Orders, NEW s \in Orders, a # s,
           os[a].state = "open", os[a].into = NoOrder, os[s].state = "open", os[s].into = NoOrder,
           TakenOver(os, ns, a, s), ns[s].told = os[s].told + os[a].told, Stays(os[s], ns[s])
    PROVE  Books(ns, lt, food, tld)
<1>1. /\ os \in [Orders -> Order] /\ Sound(os) /\ Apart(os, lt)
      /\ \A x \in Orders : os[x] \in Order /\ ns[x] \in Order
      /\ lt \subseteq Orders /\ food = AllFood(os) /\ tld = AllTold(os)
  BY DEF Books, Sound
<1>2. /\ os[a].sources \in SUBSET Orders /\ \A x \in os[a].sources : os[x].into = a
  BY <1>1, WhatItCharges
<1>3. Sound(ns)
  BY <1>1, TakeOver
<1>4. a # NoOrder /\ s # NoOrder /\ s \notin os[a].sources
  BY <1>2, FewOrders
<1>5. /\ \A x \in {a} \cup os[a].sources : Moved(os[x], ns[x], s)
      /\ \A x \in Orders : x # s /\ x # a /\ x \notin os[a].sources => ns[x] = os[x]
  BY DEF TakenOver
<1>6. Apart(ns, lt)
  <2>1. \A x \in Orders : Stays(os[x], ns[x])
    <3>1. SUFFICES ASSUME NEW x \in Orders PROVE Stays(os[x], ns[x])
      OBVIOUS
    <3>2. CASE x \in {a} \cup os[a].sources
      <4>1. Moved(os[x], ns[x], s)
        BY <1>5, <3>2
      <4>. QED  BY <4>1 DEF Moved, Stays
    <3>3. CASE x \notin {a} \cup os[a].sources /\ x # s
      <4>1. ns[x] = os[x]
        BY <1>5, <3>3
      <4>. QED  BY <4>1 DEF Stays
    <3>. QED  BY <3>2, <3>3
  <2>. QED  BY <1>1, <2>1, NobodySits
<1>. DEFINE ms == [os EXCEPT ![a] = ns[a]]
<1>7. /\ ms \in [Orders -> Order] /\ OnlyAt(os, ms, a) /\ ms[a] = ns[a]
      /\ \A x \in Orders \ {a} : ms[x] = os[x]
  BY <1>1 DEF OnlyAt
<1>. HIDE DEF ms
<1>8. /\ AllFood(ms) = AllFood(os) + (Food(ms, a) - Food(os, a))
      /\ AllTold(ms) = AllTold(os) + (Told(ms, a) - Told(os, a))
  BY <1>1, <1>7, OneBill
<1>. DEFINE ks == [ms EXCEPT ![s] = ns[s]]
<1>9. /\ ks \in [Orders -> Order] /\ OnlyAt(ms, ks, s) /\ ks[s] = ns[s] /\ ks[a] = ns[a]
      /\ \A x \in Orders \ {a, s} : ks[x] = os[x]
  BY <1>1, <1>7 DEF OnlyAt
<1>. HIDE DEF ks
<1>10. /\ AllFood(ks) = AllFood(ms) + (Food(ks, s) - Food(ms, s))
       /\ AllTold(ks) = AllTold(ms) + (Told(ks, s) - Told(ms, s))
  BY <1>7, <1>9, OneBill
<1>11. \A x \in Orders : Food(ks, x) = Food(ns, x) /\ Told(ks, x) = Told(ns, x)
  <2>1. SUFFICES ASSUME NEW x \in Orders PROVE Food(ks, x) = Food(ns, x) /\ Told(ks, x) = Told(ns, x)
    OBVIOUS
  <2>2. CASE x \in {a, s}
    BY <1>9, <2>2 DEF Food, Told, Paying
  <2>3. CASE x \notin {a, s} /\ x \notin os[a].sources
    <3>1. ks[x] = ns[x]
      BY <1>5, <1>9, <2>3
    <3>. QED  BY <3>1 DEF Food, Told, Paying
  <2>4. CASE x \notin {a, s} /\ x \in os[a].sources
    <3>1. ks[x].into = a /\ ns[x].into = s
      BY <1>2, <1>5, <1>9, <2>4 DEF Moved
    <3>. QED  BY <1>4, <3>1 DEF Food, Told, Paying
  <2>. QED  BY <2>2, <2>3, <2>4
<1>12. AllFood(ns) = AllFood(ks) /\ AllTold(ns) = AllTold(ks)
  <2>1. /\ [x \in Orders |-> Food(ks, x)] = [x \in Orders |-> Food(ns, x)]
        /\ [x \in Orders |-> Told(ks, x)] = [x \in Orders |-> Told(ns, x)]
    BY <1>11
  <2>. QED  BY <2>1, Zenon DEF AllFood, AllTold
<1>13. /\ Food(os, a) = os[a].food /\ Food(ms, a) = 0 /\ Told(os, a) = os[a].told /\ Told(ms, a) = 0
  <2>1. ms[a].into = s
    BY <1>5, <1>7 DEF Moved
  <2>. QED  BY <1>4, <2>1 DEF Food, Told, Paying
<1>14. /\ Food(ms, s) = os[s].food /\ Food(ks, s) = os[s].food + os[a].food
       /\ Told(ms, s) = os[s].told /\ Told(ks, s) = os[s].told + os[a].told
  BY <1>7, <1>9 DEF Food, Told, Paying, TakenOver
<1>15. /\ os[a].food \in Int /\ os[a].told \in Int /\ os[s].food \in Int /\ os[s].told \in Int
       /\ AllFood(os) \in Nat /\ AllTold(os) \in Nat
  <2>1. AllFood(os) \in Nat /\ AllTold(os) \in Nat
    BY <1>1, PortionsAre
  <2>. QED  BY <1>1, <2>1 DEF Order
<1>16. AllFood(ns) = AllFood(os) /\ AllTold(ns) = AllTold(os)
  BY <1>8, <1>10, <1>12, <1>13, <1>14, <1>15
<1>. QED  BY <1>1, <1>3, <1>6, <1>16 DEF Books

----------------------------------------------------------------------------
(* The phones: what is asked, what was answered, what a batch borrows. *)

\* Where a batch stands, and that the order it borrows is the one its last
\* opener was answered with.
InItsBatch(p) ==
    /\ call[p].at \in 0 .. Len(script[p])
    /\ call[p].opened # NoOrder =>
         call[p].at > 1 /\ ledger[<<p, OpenerIn(script[p], call[p].at - 1)>>] = call[p].opened

AnswersTyped ==
    /\ script \in Scripts
    /\ ledger \in [Intents -> Orders \cup {Unasked, Refused}]
    /\ call \in [Phones -> [at : Nat, opened : Orders \cup {NoOrder}]]

PhonesInv == AnswersTyped /\ OnItsOwnParty /\ \A p \in Phones : InItsBatch(p)

\* A script, and whose opener an intent is about.
LEMMA Scripted ==
    ASSUME NEW sc \in Scripts, NEW p \in Phones
    PROVE  /\ sc[p] \in Seq(Intent) /\ Len(sc[p]) \in 0 .. MaxQueue
           /\ \A k \in 1 .. Len(sc[p]) :
                 /\ <<p, k>> \in Intents /\ sc[p][k] \in Intent
                 /\ OpenerIn(sc[p], k) \in 1 .. k
                 /\ sc[p][k].kind \in Opening => OpenerIn(sc[p], k) = k
                 /\ sc[p][k].kind \notin Opening => k > 1 /\ OpenerIn(sc[p], k) = OpenerIn(sc[p], k - 1)
                 /\ sc[p][OpenerIn(sc[p], k)].kind \in Opening
<1>1. sc[p] \in Seq(Intent) /\ Len(sc[p]) \in Nat /\ Len(sc[p]) <= MaxQueue /\ MaxQueue \in Nat
  BY FloorAssumption DEF IsScript
<1>2. SUFFICES ASSUME NEW k \in 1 .. Len(sc[p])
               PROVE  /\ <<p, k>> \in Intents /\ sc[p][k] \in Intent
                      /\ OpenerIn(sc[p], k) \in 1 .. k
                      /\ sc[p][k].kind \in Opening => OpenerIn(sc[p], k) = k
                      /\ sc[p][k].kind \notin Opening => k > 1 /\ OpenerIn(sc[p], k) = OpenerIn(sc[p], k - 1)
                      /\ sc[p][OpenerIn(sc[p], k)].kind \in Opening
  BY <1>1
<1>3. sc[p][1].kind \in Opening
  <2>1. sc[p] # <<>>
    BY <1>1, <1>2
  <2>. QED  BY <2>1, FloorAssumption DEF IsScript
<1>4. <<p, k>> \in Intents /\ sc[p][k] \in Intent
  BY <1>1, <1>2 DEF Intents
<1>. DEFINE J(m) == {j \in 1 .. m : sc[p][j].kind \in Opening}
<1>5. J(k) \in SUBSET Int /\ IsFiniteSet(J(k)) /\ J(k) # {}
  <2>1. IsFiniteSet(1 .. k)
    BY FS_Interval
  <2>2. J(k) \subseteq 1 .. k /\ 1 \in J(k)
    BY <1>2, <1>3
  <2>3. J(k) \in SUBSET Int
    BY <2>2
  <2>. QED  BY <2>1, <2>2, <2>3, FS_Subset
<1>6. OpenerIn(sc[p], k) = Max(J(k))
  BY DEF OpenerIn
<1>7. Max(J(k)) \in J(k) /\ \A j \in J(k) : j <= Max(J(k))
  <2>. HIDE DEF J
  <2>. QED  BY <1>5, GreatestIs
<1>8. sc[p][k].kind \in Opening => OpenerIn(sc[p], k) = k
  BY <1>2, <1>6, <1>7
<1>9. ASSUME sc[p][k].kind \notin Opening
      PROVE  k > 1 /\ OpenerIn(sc[p], k) = OpenerIn(sc[p], k - 1)
  <2>1. k # 1 /\ k > 1
    BY <1>2, <1>3, <1>9
  <2>2. J(k) = J(k - 1)
    BY <1>2, <1>9, <2>1
  <2>. QED  BY <1>6, <2>1, <2>2, Zenon DEF OpenerIn
<1>. QED  BY <1>4, <1>6, <1>7, <1>8, <1>9

\* Going on in a batch, with an answer that stays in the ledger.
LEMMA GoesOn ==
    ASSUME PhonesInv, NEW p \in Phones, call[p].at # 0, NEW answer \in Orders \cup {Refused},
           Advance(p, answer), script' = script,
           ledger' \in [Intents -> Orders \cup {Unasked, Refused}],
           ledger'[<<p, call[p].at>>] = answer,
           \A i \in Intents : ledger[i] # Unasked => ledger'[i] = ledger[i]
    PROVE  /\ call' \in [Phones -> [at : Nat, opened : Orders \cup {NoOrder}]]
           /\ \A q \in Phones : InItsBatch(q)'
<1>. DEFINE k == call[p].at
<1>1. /\ script \in Scripts /\ ledger \in [Intents -> Orders \cup {Unasked, Refused}]
      /\ call \in [Phones -> [at : Nat, opened : Orders \cup {NoOrder}]]
      /\ \A q \in Phones : InItsBatch(q)
  BY DEF PhonesInv, AnswersTyped
<1>2. k \in 1 .. Len(script[p]) /\ Len(script[p]) \in Nat /\ call[p].opened \in Orders \cup {NoOrder}
  <2>1. Len(script[p]) \in 0 .. MaxQueue /\ call[p].at \in 0 .. Len(script[p])
    BY <1>1, Scripted DEF InItsBatch
  <2>. QED  BY <1>1, <2>1, FloorAssumption
<1>3. Borrows(p, answer) \in Orders \cup {NoOrder}
  BY <1>2 DEF Borrows, Refused, NoOrder
<1>4. /\ call' = [call EXCEPT ![p] = call'[p]]
      /\ k = Len(script[p]) => call'[p] = NoCall
      /\ k # Len(script[p]) => call'[p] = [at |-> k + 1, opened |-> Borrows(p, answer)]
  BY <1>1 DEF Advance
<1>5. call'[p] \in [at : Nat, opened : Orders \cup {NoOrder}]
  BY <1>2, <1>3, <1>4 DEF NoCall
<1>6. call' \in [Phones -> [at : Nat, opened : Orders \cup {NoOrder}]]
  BY <1>1, <1>4, <1>5
<1>7. ASSUME NEW q \in Phones, NEW m \in 1 .. Len(script[q])
      PROVE  /\ OpenerIn(script[q], m) \in 1 .. m /\ <<q, m>> \in Intents
             /\ <<q, OpenerIn(script[q], m)>> \in Intents
  <2>1. OpenerIn(script[q], m) \in 1 .. m /\ Len(script[q]) \in 0 .. MaxQueue
    BY <1>1, Scripted
  <2>2. OpenerIn(script[q], m) \in 1 .. Len(script[q])
    BY <2>1
  <2>3. \A j \in 1 .. Len(script[q]) : <<q, j>> \in Intents
    BY <1>1, Scripted
  <2>. QED  BY <2>1, <2>2, <2>3
<1>8. ASSUME NEW q \in Phones, q # p PROVE InItsBatch(q)'
  <2>1. call'[q] = call[q] /\ InItsBatch(q)
    BY <1>1, <1>4, <1>8
  <2>2. ASSUME call[q].opened # NoOrder
        PROVE  ledger'[<<q, OpenerIn(script[q], call[q].at - 1)>>] = call[q].opened
    <3>1. /\ call[q].at > 1 /\ call[q].at \in 0 .. Len(script[q]) /\ Len(script[q]) \in 0 .. MaxQueue
          /\ ledger[<<q, OpenerIn(script[q], call[q].at - 1)>>] = call[q].opened
      BY <1>1, <2>1, <2>2, Scripted DEF InItsBatch
    <3>2. call[q].at - 1 \in 1 .. Len(script[q])
      BY <3>1
    <3>3. <<q, OpenerIn(script[q], call[q].at - 1)>> \in Intents
      BY <1>7, <3>2
    <3>4. call[q].opened # Unasked
      <4>1. call[q].opened \in Orders
        BY <1>1, <2>2
      <4>. QED  BY <4>1 DEF Orders, Unasked
    <3>. QED  BY <3>1, <3>3, <3>4
  <2>. QED  BY <2>1, <2>2 DEF InItsBatch
<1>9. InItsBatch(p)'
  <2>1. CASE k = Len(script[p])
    BY <1>2, <1>4, <2>1 DEF InItsBatch, NoCall
  <2>2. CASE k # Len(script[p])
    <3>1. call'[p].at = k + 1 /\ call'[p].opened = Borrows(p, answer) /\ k + 1 \in 0 .. Len(script[p]) /\ k + 1 > 1
      BY <1>2, <1>4, <2>2
    <3>2. ASSUME Borrows(p, answer) # NoOrder
          PROVE  ledger'[<<p, OpenerIn(script[p], k)>>] = Borrows(p, answer)
      <4>1. CASE script[p][k].kind \in Opening
        <5>1. OpenerIn(script[p], k) = k
          BY <1>1, <1>2, <4>1, Scripted
        <5>. QED  BY <4>1, <5>1 DEF Borrows, Opens, At
      <4>2. CASE script[p][k].kind \notin Opening
        <5>1. OpenerIn(script[p], k) = OpenerIn(script[p], k - 1)
          BY <1>1, <1>2, <4>2, Scripted
        <5>2. Borrows(p, answer) = call[p].opened
          BY <4>2 DEF Borrows, Opens, At
        <5>3. k > 1 /\ ledger[<<p, OpenerIn(script[p], k - 1)>>] = call[p].opened
          BY <1>1, <3>2, <5>2 DEF InItsBatch
        <5>4. <<p, OpenerIn(script[p], k)>> \in Intents
          BY <1>2, <1>7
        <5>5. call[p].opened # Unasked
          <6>1. call[p].opened \in Orders
            BY <1>2, <3>2, <5>2
          <6>. QED  BY <6>1 DEF Orders, Unasked
        <5>. QED  BY <5>1, <5>2, <5>3, <5>4, <5>5
      <4>. QED  BY <4>1, <4>2
    <3>3. (k + 1) - 1 = k
      BY <1>2
    <3>. QED  BY <3>1, <3>2, <3>3 DEF InItsBatch
  <2>. QED  BY <2>1, <2>2
<1>. QED  BY <1>6, <1>8, <1>9

\* An answer is the order of its opener, so an intent lands on its own party.
LEMMA AnswerKeeps ==
    ASSUME PhonesInv, NEW p \in Phones, call[p].at # 0, NEW answer \in Orders \cup {Refused},
           Answer(p, answer), ~Opens(p) => answer \in Targets(p) \cup {Refused}
    PROVE  PhonesInv'
<1>. DEFINE k == call[p].at
<1>1. /\ script \in Scripts /\ ledger \in [Intents -> Orders \cup {Unasked, Refused}]
      /\ call \in [Phones -> [at : Nat, opened : Orders \cup {NoOrder}]]
      /\ InItsBatch(p) /\ OnItsOwnParty /\ script' = script
  BY DEF PhonesInv, AnswersTyped, Answer
<1>2. k \in 1 .. Len(script[p]) /\ <<p, k>> \in Intents /\ Len(script[p]) \in 0 .. MaxQueue
  <2>1. Len(script[p]) \in 0 .. MaxQueue /\ call[p].at \in 0 .. Len(script[p])
    BY <1>1, Scripted DEF InItsBatch
  <2>2. k \in 1 .. Len(script[p])
    BY <1>1, <2>1, FloorAssumption
  <2>. QED  BY <1>1, <2>1, <2>2, Scripted
<1>3. /\ ledger[<<p, k>>] = Unasked /\ ledger' = [ledger EXCEPT ![<<p, k>>] = answer] /\ Advance(p, answer)
  BY DEF Answer, IsNew
<1>4. /\ ledger' \in [Intents -> Orders \cup {Unasked, Refused}] /\ ledger'[<<p, k>>] = answer
      /\ \A i \in Intents : i # <<p, k>> => ledger'[i] = ledger[i]
  BY <1>1, <1>2, <1>3
<1>5. \A i \in Intents : ledger[i] # Unasked => ledger'[i] = ledger[i]
  BY <1>3, <1>4
<1>6. /\ call' \in [Phones -> [at : Nat, opened : Orders \cup {NoOrder}]]
      /\ \A q \in Phones : InItsBatch(q)'
  BY <1>1, <1>3, <1>4, <1>5, GoesOn
<1>7. ASSUME NEW q \in Phones, NEW m \in 1 .. Len(script[q]), ledger'[<<q, m>>] > 0
      PROVE  ledger'[<<q, OpenerIn(script[q], m)>>] = ledger'[<<q, m>>]
  <2>. DEFINE w == OpenerIn(script[q], m)
  <2>1. /\ <<q, m>> \in Intents /\ w \in 1 .. m
        /\ script[q][m].kind \in Opening => w = m
        /\ script[q][w].kind \in Opening
    BY <1>1, Scripted
  <2>2. <<q, w>> \in Intents
    <3>1. Len(script[q]) \in 0 .. MaxQueue
      BY <1>1, Scripted
    <3>2. w \in 1 .. Len(script[q])
      BY <2>1, <3>1
    <3>. QED  BY <1>1, <3>2, Scripted
  <2>. HIDE DEF w
  <2>3. CASE <<q, m>> = <<p, k>>
    <3>1. CASE w = m
      BY <3>1 DEF w
    <3>2. CASE w # m
      <4>1. q = p /\ m = k /\ script[p][k].kind \notin Opening /\ answer \in Targets(p)
        <5>1. q = p /\ m = k
          BY <2>3
        <5>2. script[p][k].kind \notin Opening
          BY <2>1, <3>2, <5>1
        <5>3. answer \in Targets(p) \cup {Refused} /\ answer > 0
          BY <1>4, <1>7, <5>1, <5>2 DEF Opens, At
        <5>. QED  BY <5>1, <5>2, <5>3 DEF Refused
      <4>2. Opener(p, k) = <<p, w>>
        BY <4>1, Zenon DEF Opener, w
      <4>3. ledger[<<p, w>>] = answer
        <5>1. CASE answer = ledger[Opener(p, k)]
          BY <4>2, <5>1
        <5>2. CASE answer = call[p].opened /\ answer # NoOrder
          <6>1. ledger[<<p, OpenerIn(script[p], k - 1)>>] = answer
            BY <1>1, <5>2 DEF InItsBatch
          <6>2. OpenerIn(script[p], k) = OpenerIn(script[p], k - 1)
            BY <1>1, <1>2, <4>1, Scripted
          <6>. QED  BY <4>1, <6>1, <6>2, Zenon DEF w
        <5>3. answer = ledger[Opener(p, k)] \/ (answer = call[p].opened /\ answer # NoOrder)
          BY <4>1 DEF Targets
        <5>. QED  BY <5>1, <5>2, <5>3
      <4>4. <<p, w>> # <<p, k>>
        BY <3>2, <4>1
      <4>5. ledger'[<<q, w>>] = ledger[<<p, w>>]
        BY <1>4, <2>2, <4>1, <4>4
      <4>. QED  BY <1>4, <4>1, <4>3, <4>5 DEF w
    <3>. QED  BY <3>1, <3>2
  <2>4. CASE <<q, m>> # <<p, k>>
    <3>1. ledger'[<<q, m>>] = ledger[<<q, m>>] /\ ledger[<<q, m>>] > 0
      BY <1>4, <1>7, <2>1, <2>4
    <3>2. ledger[<<q, w>>] = ledger[<<q, m>>]
      <4>1. DOMAIN script[q] = 1 .. Len(script[q])
        BY <1>1, Scripted
      <4>2. Opener(q, m) = <<q, w>>
        BY Zenon DEF Opener, w
      <4>3. m \in DOMAIN script[q]
        BY <4>1
      <4>4. ledger[Opener(q, m)] = ledger[<<q, m>>]
        BY <1>1, <3>1, <4>3 DEF OnItsOwnParty
      <4>. QED  BY <4>2, <4>4
    <3>3. ledger[<<q, w>>] # Unasked
      BY <3>1, <3>2 DEF Unasked
    <3>. QED  BY <1>5, <2>2, <3>1, <3>2, <3>3 DEF w
  <2>. QED  BY <2>3, <2>4
<1>8. OnItsOwnParty'
  <2>1. SUFFICES ASSUME NEW q \in Phones, NEW m \in DOMAIN script[q], ledger'[<<q, m>>] > 0
                 PROVE  ledger'[Opener(q, m)'] = ledger'[<<q, m>>]
    BY <1>1 DEF OnItsOwnParty
  <2>2. m \in 1 .. Len(script[q])
    BY <1>1, Scripted
  <2>3. Opener(q, m)' = <<q, OpenerIn(script[q], m)>>
    BY <1>1 DEF Opener
  <2>. QED  BY <1>7, <2>1, <2>2, <2>3
<1>. QED  BY <1>1, <1>4, <1>6, <1>8 DEF PhonesInv, AnswersTyped

\* A batch that is sent, breaks or repeats what was answered changes no answer.
LEMMA QuietKeeps ==
    ASSUME PhonesInv, NEW p \in Phones,
           \/ SendBatch(p) \/ BatchBreaks(p)
           \/ call[p].at # 0 /\ Recall(p)
    PROVE  PhonesInv'
<1>1. /\ script \in Scripts /\ ledger \in [Intents -> Orders \cup {Unasked, Refused}]
      /\ call \in [Phones -> [at : Nat, opened : Orders \cup {NoOrder}]]
      /\ InItsBatch(p) /\ OnItsOwnParty /\ script' = script /\ ledger' = ledger
      /\ \A q \in Phones : InItsBatch(q)
  BY DEF PhonesInv, AnswersTyped, SendBatch, BatchBreaks, Recall
<1>2. OnItsOwnParty'
  BY <1>1 DEF OnItsOwnParty, Opener
<1>3. CASE SendBatch(p) \/ BatchBreaks(p)
  <2>1. /\ Len(script[p]) \in 0 .. MaxQueue /\ DOMAIN script[p] = 1 .. Len(script[p]) /\ MaxQueue \in Nat
    BY <1>1, Scripted, FloorAssumption
  <2>2. PICK k \in 0 .. Len(script[p]) : call' = [call EXCEPT ![p] = [at |-> k, opened |-> NoOrder]]
    <3>1. CASE SendBatch(p)
      <4>1. call[p] = [at |-> 0, opened |-> NoOrder]
        BY <3>1 DEF SendBatch, NoCall
      <4>2. PICK k \in DOMAIN script[p] : call' = [call EXCEPT ![p].at = k]
        BY <3>1 DEF SendBatch
      <4>3. [call[p] EXCEPT !.at = k] = [at |-> k, opened |-> NoOrder]
        BY <4>1
      <4>4. k \in 0 .. Len(script[p])
        BY <2>1
      <4>. QED  BY <4>2, <4>3, <4>4
    <3>2. CASE BatchBreaks(p)
      <4>1. call' = [call EXCEPT ![p] = [at |-> 0, opened |-> NoOrder]]
        BY <3>2 DEF BatchBreaks, NoCall
      <4>2. 0 \in 0 .. Len(script[p])
        BY <2>1
      <4>. QED  BY <4>1, <4>2
    <3>. QED  BY <1>3, <3>1, <3>2
  <2>3. call'[p] = [at |-> k, opened |-> NoOrder] /\ \A q \in Phones \ {p} : call'[q] = call[q]
    BY <1>1, <2>2
  <2>4. [at |-> k, opened |-> NoOrder] \in [at : Nat, opened : Orders \cup {NoOrder}]
    BY <2>1, <2>2
  <2>5. call' \in [Phones -> [at : Nat, opened : Orders \cup {NoOrder}]]
    BY <1>1, <2>2, <2>4
  <2>6. \A q \in Phones : InItsBatch(q)'
    <3>1. SUFFICES ASSUME NEW q \in Phones PROVE InItsBatch(q)'
      OBVIOUS
    <3>2. CASE q = p
      BY <1>1, <2>2, <2>3, <3>2 DEF InItsBatch
    <3>3. CASE q # p
      BY <1>1, <2>3, <3>3 DEF InItsBatch
    <3>. QED  BY <3>2, <3>3
  <2>. QED  BY <1>1, <1>2, <2>5, <2>6 DEF PhonesInv, AnswersTyped
<1>4. CASE call[p].at # 0 /\ Recall(p)
  <2>. DEFINE answer == ledger[<<p, call[p].at>>]
  <2>1. Advance(p, answer) /\ answer # Unasked
    BY <1>4 DEF Recall, IsNew
  <2>2. <<p, call[p].at>> \in Intents
    <3>1. call[p].at \in 0 .. Len(script[p]) /\ Len(script[p]) \in 0 .. MaxQueue /\ MaxQueue \in Nat
      BY <1>1, Scripted, FloorAssumption DEF InItsBatch
    <3>2. call[p].at \in 1 .. Len(script[p])
      BY <1>4, <3>1
    <3>. QED  BY <1>1, <3>2, Scripted
  <2>3. answer \in Orders \cup {Refused} /\ ledger'[<<p, call[p].at>>] = answer
    BY <1>1, <2>1, <2>2
  <2>4. /\ call' \in [Phones -> [at : Nat, opened : Orders \cup {NoOrder}]]
        /\ \A q \in Phones : InItsBatch(q)'
    <3>1. \A i \in Intents : ledger[i] # Unasked => ledger'[i] = ledger[i]
      BY <1>1
    <3>2. ledger' \in [Intents -> Orders \cup {Unasked, Refused}]
      BY <1>1
    <3>. HIDE DEF answer
    <3>. QED  BY <1>1, <1>4, <2>1, <2>3, <3>1, <3>2, GoesOn
  <2>. QED  BY <1>1, <1>2, <2>4 DEF PhonesInv, AnswersTyped
<1>. QED  BY <1>3, <1>4

----------------------------------------------------------------------------
(* The steps. *)

CounterTyped == cart \in [table : Tables \cup {"none"}, seat : Seats] /\ deeds \in Nat
Counts == Books(orders, late, ordered, told)
Inv == PhonesInv /\ CounterTyped /\ Counts

\* What is counted is a number.
LEMMA CountsTyped ==
    ASSUME Counts
    PROVE  /\ orders \in [Orders -> Order] /\ late \subseteq Orders
           /\ \A o \in Orders : orders[o] \in Order
           /\ ordered \in Nat /\ told \in Nat
           /\ Apart(orders, late)
<1>1. orders \in [Orders -> Order] /\ ordered = AllFood(orders) /\ told = AllTold(orders)
  BY DEF Counts, Books, Sound
<1>2. AllFood(orders) \in Nat /\ AllTold(orders) \in Nat
  BY <1>1, PortionsAre
<1>. QED  BY <1>1, <1>2 DEF Counts, Books

\* The next id is nobody's, the next letter is free, and no party is none at all.
LEMMA NextIsFree ==
    ASSUME Counts
    PROVE  /\ \A n \in Orders : IsNextId(n) => orders[n].state = "none"
           /\ \A t : FreeSeats(t) # {} => Min(FreeSeats(t)) \in Seats /\ ~Occupied(t, Min(FreeSeats(t)))
           /\ \A t : PartyAt(t) \in Orders \cup {NoOrder}
           /\ \A t : PartyAt(t) = NoOrder => ~Occupied(t, 0)
<1>1. ASSUME NEW n \in Orders, IsNextId(n) PROVE orders[n].state = "none"
  <2>1. Unused \in SUBSET Int /\ IsFiniteSet(Unused) /\ Unused # {}
    <3>1. Unused \subseteq Orders
      BY DEF Unused
    <3>. QED  BY <1>1, <3>1, FewOrders, FS_Subset DEF IsNextId
  <2>2. Min(Unused) \in Unused
    BY <2>1, LeastIs
  <2>. QED  BY <1>1, <2>2 DEF IsNextId, Unused
<1>2. ASSUME NEW t, FreeSeats(t) # {}
      PROVE  Min(FreeSeats(t)) \in Seats /\ ~Occupied(t, Min(FreeSeats(t)))
  <2>1. FreeSeats(t) \in SUBSET Int /\ IsFiniteSet(FreeSeats(t))
    <3>1. FreeSeats(t) \subseteq Seats
      BY DEF FreeSeats
    <3>. QED  BY <3>1, FewOrders, FS_Subset
  <2>2. Min(FreeSeats(t)) \in FreeSeats(t)
    BY <1>2, <2>1, LeastIs
  <2>. QED  BY <2>2 DEF FreeSeats
<1>3. ASSUME NEW t PROVE PartyAt(t) \in Orders \cup {NoOrder} /\ (PartyAt(t) = NoOrder => ~Occupied(t, 0))
  <2>. DEFINE P == {o \in Orders : SitsAt(o, t, 0)}
  <2>1. CASE Occupied(t, 0)
    <3>1. P \in SUBSET Int /\ IsFiniteSet(P) /\ P # {} /\ P \subseteq Orders
      <4>1. P \subseteq Orders /\ P # {}
        BY <2>1 DEF Occupied
      <4>. QED  BY <4>1, FewOrders, FS_Subset
    <3>. HIDE DEF P
    <3>2. Min(P) \in Orders
      BY <3>1, LeastIs
    <3>3. PartyAt(t) = Min(P)
      BY <2>1 DEF PartyAt, P
    <3>. QED  BY <3>2, <3>3, FewOrders
  <2>2. CASE ~Occupied(t, 0)
    BY <2>2 DEF PartyAt
  <2>. QED  BY <2>1, <2>2
<1>. QED  BY <1>1, <1>2, <1>3

\* Where nobody sits, nobody comes late; where somebody does, it is noted.
LEMMA Arrives ==
    ASSUME Counts, NEW o \in Orders, NEW y \in Order, NEW after,
           \/ after = late /\ \A x \in Orders \ {o} : ~SitsIn(orders, x, y)
           \/ after = late \ {o} /\ \A x \in Orders \ {o} : ~SitsIn(orders, x, y)
           \/ after = late \cup {o}
    PROVE  NowLate(orders, late, after, o, y)
BY CountsTyped DEF NowLate

\* An order opened by a phone or at the counter, for what was asked for.
LEMMA OpenKeeps ==
    ASSUME Counts, NEW n \in Orders, IsNextId(n), NEW t \in Tables \cup {"none"}, NEW s \in Seats,
           NEW food \in Nat, orders' = [orders EXCEPT ![n] = New(t, s, food, 0)],
           NowLate(orders, late, late', n, New(t, s, food, 0)),
           ordered' = ordered + food, told' = told
    PROVE  Counts'
<1>. DEFINE y == New(t, s, food, 0)
<1>1. /\ y \in Order /\ y.state = "open" /\ y.sources = {} /\ y.into = NoOrder /\ y.food = food /\ y.told = 0
  BY DEF New, Blank, Order
<1>2. orders[n].state = "none" /\ told \in Nat
  BY NextIsFree, CountsTyped
<1>. HIDE DEF y
<1>3. Books([orders EXCEPT ![n] = y], late',
            ordered + (IF y.into = NoOrder THEN y.food ELSE 0), told + (IF y.into = NoOrder THEN y.told ELSE 0))
  BY <1>1, <1>2, Begins DEF Counts, y
<1>4. ordered + (IF y.into = NoOrder THEN y.food ELSE 0) = ordered' /\ told + (IF y.into = NoOrder THEN y.told ELSE 0) = told'
  BY <1>1, <1>2
<1>5. orders' = [orders EXCEPT ![n] = y]
  BY DEF y
<1>. QED  BY <1>3, <1>4, <1>5, Zenon DEF Counts

\* An order that changes where it is, and what is counted of it.
LEMMA ChangeKeeps ==
    ASSUME Counts, NEW o \in Orders, orders[o].state = "open", NEW y \in Order,
           Steady(orders[o], y), MayEnd(orders, o, y.state), Stays(orders[o], y),
           orders' = [orders EXCEPT ![o] = y], late' = late,
           ordered' = ordered + More(orders, o, y.food - orders[o].food),
           told' = told + More(orders, o, y.told - orders[o].told)
    PROVE  Counts'
<1>1. Books([orders EXCEPT ![o] = y], late, ordered + More(orders, o, y.food - orders[o].food),
            told + More(orders, o, y.told - orders[o].told))
  BY Changes DEF Counts
<1>. QED  BY <1>1, Zenon DEF Counts

\* An order whose place changes.
LEMMA MoveKeeps ==
    ASSUME Counts, NEW o \in Orders, orders[o].state = "open", NEW t \in Tables,
           orders' = [orders EXCEPT ![o].table = t, ![o].seat = 0],
           \/ late' = late \ {o} /\ \A x \in Orders \ {o} : ~SitsAt(x, t, 0)
           \/ late' = late \cup {o},
           ordered' = ordered, told' = told
    PROVE  Counts'
<1>. DEFINE y == [orders[o] EXCEPT !.table = t, !.seat = 0]
<1>1. orders[o] \in Order /\ orders \in [Orders -> Order]
  BY CountsTyped
<1>2. 0 \in Seats
  BY FloorAssumption DEF Seats
<1>3. y \in Order
  BY <1>1, <1>2 DEF Order
<1>4. /\ y.state = "open" /\ y.food = orders[o].food /\ y.told = orders[o].told
      /\ y.into = orders[o].into /\ y.sources = orders[o].sources /\ y.service = orders[o].service
      /\ y.table = t /\ y.seat = 0
  BY <1>1 DEF Order
<1>5. orders' = [orders EXCEPT ![o] = y]
  BY <1>1
<1>. HIDE DEF y
<1>6. Steady(orders[o], y)
  <2>1. orders[o].food \in Int /\ orders[o].service \in Int
    BY <1>1 DEF Order
  <2>. QED  BY <1>4, <2>1 DEF Steady, Own
<1>7. NowLate(orders, late, late', o, y)
  <2>1. (\A x \in Orders \ {o} : ~SitsAt(x, t, 0)) => \A x \in Orders \ {o} : ~SitsIn(orders, x, y)
    BY <1>4 DEF SitsAt, IsOpen, SitsIn
  <2>. QED  BY <1>3, <2>1, Arrives
<1>8. Books([orders EXCEPT ![o] = y], late', ordered, told)
  BY <1>3, <1>4, <1>6, <1>7, Reseats DEF Counts
<1>. QED  BY <1>5, <1>8, Zenon DEF Counts

\* An order the phones may change is on its own bill alone.
LEMMA EditKeeps ==
    ASSUME Counts, NEW o \in Orders, Editable(o), NEW y \in Order,
           y.into = orders[o].into, y.sources = orders[o].sources,
           y.table = orders[o].table, y.seat = orders[o].seat, y.state \in {"open", "cancelled"},
           orders' = [orders EXCEPT ![o] = y], late' = late,
           ordered' = ordered + (y.food - orders[o].food), told' = told + (y.told - orders[o].told)
    PROVE  Counts'
<1>1. orders[o].state = "open" /\ orders[o].into = NoOrder /\ orders[o].sources = {}
  BY DEF Editable, IsOpen, Combined
<1>2. Steady(orders[o], y) /\ MayEnd(orders, o, y.state) /\ Stays(orders[o], y)
  BY <1>1 DEF Steady, MayEnd, Stays
<1>3. /\ More(orders, o, y.food - orders[o].food) = y.food - orders[o].food
      /\ More(orders, o, y.told - orders[o].told) = y.told - orders[o].told
  BY <1>1 DEF More
<1>. QED  BY <1>1, <1>2, <1>3, ChangeKeeps

\* A phone's answer, whatever it was, keeps the batches and the books.
LEMMA ApplyKeeps ==
    ASSUME Inv, NEW p \in Phones, Apply(p)
    PROVE  PhonesInv' /\ Counts' /\ cart' = cart /\ deeds' = deeds
<1>1. PhonesInv /\ Counts /\ call[p].at # 0
  BY DEF Inv, Apply
<1>2. At(p) \in Intent
  <2>1. call[p].at \in 0 .. Len(script[p]) /\ Len(script[p]) \in 0 .. MaxQueue /\ script \in Scripts /\ MaxQueue \in Nat
    BY <1>1, Scripted, FloorAssumption DEF PhonesInv, AnswersTyped, InItsBatch
  <2>2. call[p].at \in 1 .. Len(script[p])
    BY <1>1, <2>1
  <2>. QED  BY <2>1, <2>2, Scripted DEF At
<1>3. /\ orders \in [Orders -> Order] /\ \A o \in Orders : orders[o] \in Order
      /\ ordered \in Nat /\ told \in Nat /\ At(p).table \in Tables /\ 0 \in Seats
  BY <1>1, <1>2, CountsTyped, FloorAssumption DEF Intent, Seats
<1>4. ASSUME UNCHANGED <<orders, history>> PROVE Counts'
  <2>1. orders' = orders /\ late' = late /\ ordered' = ordered /\ told' = told
    BY <1>4 DEF history
  <2>. QED  BY <1>1, <2>1, Zenon DEF Counts
<1>5. ASSUME NEW a \in Orders \cup {Refused}, Answer(p, a), ~Opens(p) => a \in Targets(p) \cup {Refused}
      PROVE  PhonesInv' /\ cart' = cart /\ deeds' = deeds
  <2>1. PhonesInv'
    BY <1>1, <1>5, AnswerKeeps
  <2>. QED  BY <1>5, <2>1 DEF Answer, counter
<1>6. CASE Recall(p)
  BY <1>1, <1>4, <1>6, QuietKeeps DEF Recall, counter
<1>7. CASE PhoneJoins(p)
  <2>1. PartyAt(At(p).table) \in Orders /\ Answer(p, PartyAt(At(p).table)) /\ Opens(p)
    BY <1>1, <1>7, NextIsFree DEF PhoneJoins, Opens, Opening
  <2>. QED  BY <1>4, <1>5, <1>7, <2>1 DEF PhoneJoins
<1>8. CASE PhoneOpens(p)
  <2>1. Opens(p) /\ ~Occupied(At(p).table, 0) /\ late' = late /\ ordered' = ordered /\ told' = told
    BY <1>1, <1>8, NextIsFree DEF PhoneOpens, Opens, Opening, history
  <2>2. PICK n \in Orders : IsNextId(n) /\ Answer(p, n)
                              /\ orders' = [orders EXCEPT ![n] = New(At(p).table, 0, 0, 0)]
    BY <1>8 DEF PhoneOpens
  <2>3. NowLate(orders, late, late', n, New(At(p).table, 0, 0, 0))
    <3>1. New(At(p).table, 0, 0, 0) \in Order
      BY <1>3 DEF New, Blank, Order, NoOrder
    <3>2. \A x \in Orders \ {n} : ~SitsIn(orders, x, New(At(p).table, 0, 0, 0))
      BY <2>1 DEF Occupied, SitsAt, IsOpen, SitsIn, New, Blank
    <3>. QED  BY <1>1, <2>1, <3>1, <3>2, Arrives
  <2>4. Counts'
    <3>1. ordered' = ordered + 0
      BY <1>3, <2>1
    <3>. QED  BY <1>1, <1>3, <2>1, <2>2, <2>3, <3>1, OpenKeeps
  <2>. QED  BY <1>5, <2>1, <2>2, <2>4
<1>9. CASE PhoneSeatsParty(p)
  <2>. DEFINE s == Min(FreeSeats(At(p).table))
  <2>1. Opens(p) /\ s \in Seats /\ ~Occupied(At(p).table, s) /\ late' = late /\ ordered' = ordered /\ told' = told
    BY <1>1, <1>9, NextIsFree DEF PhoneSeatsParty, Opens, Opening, history
  <2>2. PICK n \in Orders : IsNextId(n) /\ Answer(p, n)
                              /\ orders' = [orders EXCEPT ![n] = New(At(p).table, s, 0, 0)]
    BY <1>9 DEF PhoneSeatsParty
  <2>. HIDE DEF s
  <2>3. NowLate(orders, late, late', n, New(At(p).table, s, 0, 0))
    <3>1. New(At(p).table, s, 0, 0) \in Order
      BY <1>3, <2>1 DEF New, Blank, Order, NoOrder
    <3>2. \A x \in Orders \ {n} : ~SitsIn(orders, x, New(At(p).table, s, 0, 0))
      BY <2>1 DEF Occupied, SitsAt, IsOpen, SitsIn, New, Blank
    <3>. QED  BY <1>1, <2>1, <3>1, <3>2, Arrives
  <2>4. Counts'
    <3>1. ordered' = ordered + 0
      BY <1>3, <2>1
    <3>. QED  BY <1>1, <1>3, <2>1, <2>2, <2>3, <3>1, OpenKeeps
  <2>. QED  BY <1>5, <2>1, <2>2, <2>4
<1>10. CASE PhoneRefused(p)
  BY <1>4, <1>5, <1>10 DEF PhoneRefused
<1>11. ASSUME NEW o \in Orders, NEW kind \in Kinds \ Opening, PhoneChanges(p, kind, o)
       PROVE  /\ PhonesInv' /\ cart' = cart /\ deeds' = deeds
              /\ Editable(o) /\ orders[o].state = "open" /\ \A n : Once(p, n) = n
  <2>1. Answer(p, o) /\ o \in Targets(p) /\ Editable(o) /\ ~Opens(p)
    BY <1>11 DEF PhoneChanges, Opens
  <2>2. \A n : Once(p, n) = n
    BY <2>1 DEF Answer, IsNew, Once
  <2>. QED  BY <1>5, <2>1, <2>2 DEF Editable, IsOpen
<1>12. {"add", "set", "send", "move", "cancel"} \subseteq Kinds \ Opening
  BY DEF Kinds, Opening
<1>13. ASSUME NEW o \in Orders, PhoneAdds(p, o)
       PROVE  PhonesInv' /\ Counts' /\ cart' = cart /\ deeds' = deeds
  <2>. DEFINE y == [orders[o] EXCEPT !.food = @ + 1]
  <2>1. PhoneChanges(p, "add", o)
    BY <1>13 DEF PhoneAdds
  <2>2. /\ PhonesInv' /\ cart' = cart /\ deeds' = deeds /\ Editable(o) /\ orders[o].state = "open" /\ Once(p, 1) = 1
    BY <1>11, <1>12, <2>1
  <2>3. orders[o] \in Order /\ orders[o].food \in Nat /\ orders[o].told \in Nat
    BY <1>3 DEF Order
  <2>4. /\ y \in Order /\ y.food = orders[o].food + 1 /\ y.told = orders[o].told /\ y.state = "open"
        /\ y.into = orders[o].into /\ y.sources = orders[o].sources
        /\ y.table = orders[o].table /\ y.seat = orders[o].seat
    BY <2>2, <2>3 DEF Order
  <2>5. /\ orders' = [orders EXCEPT ![o] = y] /\ late' = late
        /\ ordered' = ordered + 1 /\ told' = told
    BY <1>13, <2>2 DEF PhoneAdds
  <2>. HIDE DEF y
  <2>6. ordered' = ordered + (y.food - orders[o].food) /\ told' = told + (y.told - orders[o].told)
    BY <1>3, <2>3, <2>4, <2>5
  <2>. QED  BY <1>1, <2>2, <2>4, <2>5, <2>6, EditKeeps
<1>14. ASSUME NEW o \in Orders, PhoneSets(p, o)
       PROVE  PhonesInv' /\ Counts' /\ cart' = cart /\ deeds' = deeds
  <2>. DEFINE y == [orders[o] EXCEPT !.food = 1]
  <2>1. PhoneChanges(p, "set", o)
    BY <1>14 DEF PhoneSets
  <2>2. /\ PhonesInv' /\ cart' = cart /\ deeds' = deeds /\ Editable(o) /\ orders[o].state = "open"
        /\ Once(p, orders[o].food - 1) = orders[o].food - 1
    BY <1>11, <1>12, <2>1
  <2>3. orders[o] \in Order /\ orders[o].food \in Nat /\ orders[o].told \in Nat
    BY <1>3 DEF Order
  <2>4. /\ y \in Order /\ y.food = 1 /\ y.told = orders[o].told /\ y.state = "open"
        /\ y.into = orders[o].into /\ y.sources = orders[o].sources
        /\ y.table = orders[o].table /\ y.seat = orders[o].seat
    BY <2>2, <2>3 DEF Order
  <2>5. /\ orders' = [orders EXCEPT ![o] = y] /\ late' = late
        /\ ordered' = ordered - (orders[o].food - 1) /\ told' = told
    BY <1>14, <2>2 DEF PhoneSets
  <2>. HIDE DEF y
  <2>6. ordered' = ordered + (y.food - orders[o].food) /\ told' = told + (y.told - orders[o].told)
    BY <1>3, <2>3, <2>4, <2>5
  <2>. QED  BY <1>1, <2>2, <2>4, <2>5, <2>6, EditKeeps
<1>15. ASSUME NEW o \in Orders, PhoneSends(p, o)
       PROVE  PhonesInv' /\ Counts' /\ cart' = cart /\ deeds' = deeds
  <2>. DEFINE most == Greater(orders[o].told, orders[o].food)
              y == [orders[o] EXCEPT !.told = most]
  <2>1. PhoneChanges(p, "send", o)
    BY <1>15 DEF PhoneSends
  <2>2. /\ PhonesInv' /\ cart' = cart /\ deeds' = deeds /\ Editable(o) /\ orders[o].state = "open"
    BY <1>11, <1>12, <2>1
  <2>3. orders[o] \in Order /\ orders[o].food \in Nat /\ orders[o].told \in Nat /\ most \in Nat
    BY <1>3 DEF Order, Greater
  <2>4. /\ y \in Order /\ y.food = orders[o].food /\ y.told = most /\ y.state = "open"
        /\ y.into = orders[o].into /\ y.sources = orders[o].sources
        /\ y.table = orders[o].table /\ y.seat = orders[o].seat
    <3>. HIDE DEF most
    <3>. QED  BY <2>2, <2>3 DEF Order
  <2>5. /\ orders' = [orders EXCEPT ![o] = y] /\ late' = late
        /\ ordered' = ordered /\ told' = told + (most - orders[o].told)
    BY <1>15, <2>2 DEF PhoneSends
  <2>. HIDE DEF y, most
  <2>6. ordered' = ordered + (y.food - orders[o].food) /\ told' = told + (y.told - orders[o].told)
    BY <1>3, <2>3, <2>4, <2>5
  <2>. QED  BY <1>1, <2>2, <2>4, <2>5, <2>6, EditKeeps
<1>16. ASSUME NEW o \in Orders, PhoneCancels(p, o)
       PROVE  PhonesInv' /\ Counts' /\ cart' = cart /\ deeds' = deeds
  <2>. DEFINE y == [orders[o] EXCEPT !.state = "cancelled"]
  <2>1. PhoneChanges(p, "cancel", o)
    BY <1>16 DEF PhoneCancels
  <2>2. /\ PhonesInv' /\ cart' = cart /\ deeds' = deeds /\ Editable(o)
    BY <1>11, <1>12, <2>1
  <2>3. orders[o] \in Order /\ orders[o].food \in Nat /\ orders[o].told \in Nat
    BY <1>3 DEF Order
  <2>4. /\ y \in Order /\ y.food = orders[o].food /\ y.told = orders[o].told /\ y.state = "cancelled"
        /\ y.into = orders[o].into /\ y.sources = orders[o].sources
        /\ y.table = orders[o].table /\ y.seat = orders[o].seat
    BY <2>3 DEF Order
  <2>5. /\ orders' = [orders EXCEPT ![o] = y] /\ late' = late /\ ordered' = ordered /\ told' = told
    BY <1>16 DEF PhoneCancels, history
  <2>. HIDE DEF y
  <2>6. ordered' = ordered + (y.food - orders[o].food) /\ told' = told + (y.told - orders[o].told)
    BY <1>3, <2>3, <2>4, <2>5
  <2>. QED  BY <1>1, <2>2, <2>4, <2>5, <2>6, EditKeeps
<1>17. ASSUME NEW o \in Orders, PhoneMoves(p, o)
       PROVE  PhonesInv' /\ Counts' /\ cart' = cart /\ deeds' = deeds
  <2>. DEFINE t == At(p).table
  <2>1. PhoneChanges(p, "move", o)
    BY <1>17 DEF PhoneMoves
  <2>2. /\ PhonesInv' /\ cart' = cart /\ deeds' = deeds /\ orders[o].state = "open"
    BY <1>11, <1>12, <2>1
  <2>3. /\ orders' = [orders EXCEPT ![o].table = t, ![o].seat = 0] /\ ordered' = ordered /\ told' = told
        /\ \/ late' = late \ {o} /\ \A x \in Orders \ {o} : ~SitsAt(x, t, 0)
           \/ late' = late \cup {o}
    BY <1>17 DEF PhoneMoves, Sits
  <2>4. t \in Tables
    BY <1>3
  <2>. HIDE DEF t
  <2>. QED  BY <1>1, <2>2, <2>3, <2>4, MoveKeeps
<1>. QED  BY <1>6, <1>7, <1>8, <1>9, <1>10, <1>13, <1>14, <1>15, <1>16, <1>17 DEF Apply

\* What changes on an order the counter has loaded changes for its own table too.
LEMMA ServeKeeps ==
    ASSUME Counts, NEW o \in Orders, Loadable(o), NEW food \in Int, NEW tld \in Int, Serves(o, food, tld),
           orders[o].food + food >= 0, orders[o].told + tld >= 0,
           late' = late, ordered' = ordered + food, told' = told + tld
    PROVE  Counts'
<1>1. /\ orders[o] \in Order /\ orders[o].state = "open" /\ orders[o].into = NoOrder
      /\ orders[o].food \in Nat /\ orders[o].told \in Nat
      /\ orders[o].service \in Nat /\ orders[o].serviceTold \in Nat
      /\ ordered \in Nat /\ told \in Nat
  BY CountsTyped DEF Loadable, IsOpen, Order
<1>2. \E y \in Order :
         /\ orders' = [orders EXCEPT ![o] = y]
         /\ y.food = orders[o].food + food /\ y.told = orders[o].told + tld
         /\ y.into = orders[o].into /\ y.sources = orders[o].sources /\ y.state = "open"
         /\ y.table = orders[o].table /\ y.seat = orders[o].seat
         /\ orders[o].sources # {} => y.service = orders[o].service + food
  <2>1. CASE orders[o].sources = {}
    <3>. DEFINE y == [orders[o] EXCEPT !.food = @ + food, !.told = @ + tld]
    <3>1. orders[o].food + food \in Nat /\ orders[o].told + tld \in Nat
      BY <1>1
    <3>2. /\ y \in Order /\ y.food = orders[o].food + food /\ y.told = orders[o].told + tld
          /\ y.into = orders[o].into /\ y.sources = orders[o].sources /\ y.state = "open"
          /\ y.table = orders[o].table /\ y.seat = orders[o].seat
      BY <1>1, <3>1 DEF Order
    <3>3. orders' = [orders EXCEPT ![o] = y]
      BY <2>1 DEF Serves
    <3>. HIDE DEF y
    <3>. QED  BY <2>1, <3>2, <3>3
  <2>2. CASE orders[o].sources # {}
    <3>. DEFINE y == [orders[o] EXCEPT !.food = @ + food, !.told = @ + tld,
                                       !.service = @ + food, !.serviceTold = @ + tld]
    <3>1. /\ orders[o].food + food \in Nat /\ orders[o].told + tld \in Nat
          /\ orders[o].service + food \in Nat /\ orders[o].serviceTold + tld \in Nat
      BY <1>1, <2>2 DEF Serves
    <3>2. /\ y \in Order /\ y.food = orders[o].food + food /\ y.told = orders[o].told + tld
          /\ y.into = orders[o].into /\ y.sources = orders[o].sources /\ y.state = "open"
          /\ y.table = orders[o].table /\ y.seat = orders[o].seat
          /\ y.service = orders[o].service + food
      BY <1>1, <3>1 DEF Order
    <3>3. orders' = [orders EXCEPT ![o] = y]
      BY <2>2 DEF Serves
    <3>. HIDE DEF y
    <3>. QED  BY <3>2, <3>3
  <2>. QED  BY <2>1, <2>2
<1>3. PICK y \in Order :
         /\ orders' = [orders EXCEPT ![o] = y]
         /\ y.food = orders[o].food + food /\ y.told = orders[o].told + tld
         /\ y.into = orders[o].into /\ y.sources = orders[o].sources /\ y.state = "open"
         /\ y.table = orders[o].table /\ y.seat = orders[o].seat
         /\ orders[o].sources # {} => y.service = orders[o].service + food
  BY <1>2
<1>4. Steady(orders[o], y)
  <2>1. orders[o].sources # {} => y.food = y.service + (orders[o].food - orders[o].service)
    BY <1>1, <1>3
  <2>. QED  BY <1>1, <1>3, <2>1 DEF Steady
<1>5. MayEnd(orders, o, y.state) /\ Stays(orders[o], y)
  BY <1>1, <1>3 DEF MayEnd, Stays
<1>6. /\ ordered' = ordered + More(orders, o, y.food - orders[o].food)
      /\ told' = told + More(orders, o, y.told - orders[o].told)
  BY <1>1, <1>3 DEF More
<1>. QED  BY <1>1, <1>3, <1>4, <1>5, <1>6, ChangeKeeps

\* An order that is over: paid, called off, or released once its bill is paid.
LEMMA EndKeeps ==
    ASSUME Counts, NEW o \in Orders, orders[o].state = "open",
           NEW state \in {"settled", "cancelled"}, MayEnd(orders, o, state),
           orders' = [orders EXCEPT ![o].state = state], late' = late, ordered' = ordered, told' = told
    PROVE  Counts'
<1>. DEFINE y == [orders[o] EXCEPT !.state = state]
<1>1. /\ orders[o] \in Order /\ orders[o].food \in Nat /\ orders[o].told \in Nat /\ orders[o].service \in Nat
      /\ ordered \in Nat /\ told \in Nat
  BY CountsTyped DEF Order
<1>2. /\ y \in Order /\ y.food = orders[o].food /\ y.told = orders[o].told /\ y.state = state
      /\ y.into = orders[o].into /\ y.sources = orders[o].sources /\ y.service = orders[o].service
  BY <1>1 DEF Order
<1>3. orders' = [orders EXCEPT ![o] = y]
  OBVIOUS
<1>. HIDE DEF y
<1>4. Steady(orders[o], y) /\ Stays(orders[o], y)
  BY <1>1, <1>2 DEF Steady, Own, Stays
<1>5. /\ ordered' = ordered + More(orders, o, y.food - orders[o].food)
      /\ told' = told + More(orders, o, y.told - orders[o].told)
  BY <1>1, <1>2 DEF More
<1>. QED  BY <1>2, <1>3, <1>4, <1>5, ChangeKeeps

\* The counter writes its cart to the table it sits at, whoever is there by now.
LEMMA ParkKeeps ==
    ASSUME Inv, CounterParks
    PROVE  Counts' /\ cart' \in [table : Tables \cup {"none"}, seat : Seats]
<1>1. Counts /\ cart.table \in Tables \cup {"none"} /\ cart.seat \in Seats /\ cart' = NoCart /\ told' = told
  BY DEF Inv, CounterTyped, CounterParks
<1>2. PICK n \in Orders : /\ IsNextId(n)
                          /\ orders' = [orders EXCEPT ![n] = New(cart.table, cart.seat, 1, 0)]
                          /\ Sits(n, Occupied(cart.table, cart.seat))
  BY DEF CounterParks
<1>. DEFINE y == New(cart.table, cart.seat, 1, 0)
<1>3. y \in Order /\ y.table = cart.table /\ y.seat = cart.seat
  BY <1>1 DEF New, Blank, Order, NoOrder
<1>4. \/ late' = late \ {n} /\ ~Occupied(cart.table, cart.seat)
      \/ late' = late \cup {n}
  BY <1>2 DEF Sits
<1>5. ~Occupied(cart.table, cart.seat) => \A x \in Orders \ {n} : ~SitsIn(orders, x, y)
  <2>. HIDE DEF y
  <2>. QED  BY <1>3 DEF Occupied, SitsAt, IsOpen, SitsIn
<1>. HIDE DEF y
<1>6. NowLate(orders, late, late', n, y)
  BY <1>1, <1>3, <1>4, <1>5, Arrives
<1>7. ordered' = ordered + 1
  BY DEF CounterParks
<1>8. Counts'
  BY <1>1, <1>2, <1>6, <1>7, OpenKeeps DEF y
<1>9. NoCart \in [table : Tables \cup {"none"}, seat : Seats]
  BY FloorAssumption DEF NoCart, Seats
<1>. QED  BY <1>1, <1>8, <1>9

\* A bill takes another one over.
LEMMA MergeKeeps ==
    ASSUME Counts, NEW a \in Orders, NEW s \in Orders, CounterMerges(a, s)
    PROVE  Counts'
<1>1. /\ a # s /\ orders' = Merged(a, s) /\ late' = late /\ ordered' = ordered /\ told' = told
      /\ orders[a].state = "open" /\ orders[a].into = NoOrder
      /\ orders[s].state = "open" /\ orders[s].into = NoOrder
  BY DEF CounterMerges, Eligible, IsOpen, history
<1>. DEFINE A == orders[a].sources
            y == [orders[s] EXCEPT !.food = @ + orders[a].food,
                                   !.told = @ + orders[a].told,
                                   !.sources = @ \cup {a} \cup orders[a].sources,
                                   !.service = Own(orders[s]), !.serviceTold = OwnTold(orders[s])]
            z(x) == [orders[x] EXCEPT !.into = s]
<1>2. /\ orders \in [Orders -> Order] /\ \A x \in Orders : orders[x] \in Order
      /\ A \in SUBSET Orders /\ \A x \in A : orders[x].into = a
  <2>1. Sound(orders)
    BY DEF Counts, Books
  <2>2. A \in SUBSET Orders /\ \A x \in A : orders[x].into = a
    BY <1>1, <2>1, WhatItCharges
  <2>. QED  BY <2>2, CountsTyped
<1>3. s \notin {a} \cup A
  BY <1>1, <1>2, FewOrders
<1>4. /\ y \in Order
      /\ y.food = orders[s].food + orders[a].food /\ y.told = orders[s].told + orders[a].told
      /\ y.service = Own(orders[s]) /\ y.sources = (orders[s].sources \cup {a}) \cup A
      /\ y.into = NoOrder /\ y.state = "open" /\ y.table = orders[s].table /\ y.seat = orders[s].seat
  <2>1. /\ Own(orders[s]) \in Nat /\ OwnTold(orders[s]) \in Nat
        /\ orders[s].food + orders[a].food \in Nat /\ orders[s].told + orders[a].told \in Nat
        /\ (orders[s].sources \cup {a}) \cup A \in SUBSET Orders /\ orders[s] \in Order
    BY <1>2 DEF Own, OwnTold, Order
  <2>. QED  BY <1>1, <2>1 DEF Order
<1>5. ASSUME NEW x \in Orders PROVE z(x) \in Order /\ Moved(orders[x], z(x), s)
  <2>1. orders[x] \in Order
    BY <1>2
  <2>. QED  BY <2>1 DEF Order, Moved
<1>6. /\ \A x \in Orders : x = s => orders'[x] = y
      /\ \A x \in Orders : x # s /\ x \in {a} \cup A => orders'[x] = z(x)
      /\ \A x \in Orders : x # s /\ x \notin {a} \cup A => orders'[x] = orders[x]
      /\ DOMAIN orders' = Orders /\ orders' = [x \in Orders |-> orders'[x]]
  <2>. DEFINE to(x) == CASE x = s -> y [] x \in {a} \cup A -> z(x) [] OTHER -> orders[x]
  <2>1. orders' = [x \in Orders |-> to(x)]
    BY <1>1, Zenon DEF Merged
  <2>2. \A x \in Orders : x = s => to(x) = y
    BY <1>3
  <2>3. \A x \in Orders : x # s /\ x \in {a} \cup A => to(x) = z(x)
    BY <1>3
  <2>4. \A x \in Orders : x # s /\ x \notin {a} \cup A => to(x) = orders[x]
    OBVIOUS
  <2>. HIDE DEF to
  <2>. QED  BY <2>1, <2>2, <2>3, <2>4
<1>. HIDE DEF y, z
<1>7. orders' \in [Orders -> Order]
  <2>1. \A x \in Orders : orders'[x] \in Order
    <3>1. SUFFICES ASSUME NEW x \in Orders PROVE orders'[x] \in Order
      OBVIOUS
    <3>. QED  BY <1>2, <1>4, <1>5, <1>6
  <2>. QED  BY <1>6, <2>1
<1>8. TakenOver(orders, orders', a, s)
  <2>1. \A x \in {a} \cup A : Moved(orders[x], orders'[x], s)
    <3>1. SUFFICES ASSUME NEW x \in {a} \cup A PROVE Moved(orders[x], orders'[x], s)
      OBVIOUS
    <3>2. x \in Orders /\ x # s
      BY <1>2, <1>3
    <3>. QED  BY <1>5, <1>6, <3>2
  <2>. QED  BY <1>4, <1>6, <2>1 DEF TakenOver
<1>9. orders'[s].told = orders[s].told + orders[a].told /\ Stays(orders[s], orders'[s])
  BY <1>1, <1>4, <1>6 DEF Stays
<1>10. Books(orders, late, ordered, told)
  BY DEF Counts
<1>11. Books(orders', late, ordered, told)
  BY <1>1, <1>7, <1>8, <1>9, <1>10, Joins
<1>. QED  BY <1>1, <1>11, Zenon DEF Counts

\* Some of an order's portions leave it for an order of their own.
LEMMA SplitKeeps ==
    ASSUME Counts, NEW o \in Orders, NEW q \in 1 .. MaxFood, NEW t \in Tables, NEW s \in Seats,
           CounterSplits(o, q, t, s)
    PROVE  Counts'
<1>. DEFINE stays == StaysTold(o, q)
            seat == SeatFor(o, t, s)
            x == [orders[o] EXCEPT !.food = @ - q, !.told = stays]
            y == New(t, seat, q, orders[o].told - stays)
            ms == [orders EXCEPT ![o] = x]
<1>1. /\ orders[o].state = "open" /\ orders[o].into = NoOrder /\ orders[o].sources = {}
      /\ q \in 1 .. (orders[o].food - 1) /\ MayTake(o, t, s)
      /\ late' = late /\ ordered' = ordered /\ told' = told
  BY DEF CounterSplits, IsOpen, Combined, history
<1>2. /\ orders \in [Orders -> Order] /\ orders[o] \in Order /\ orders[o].food \in Nat /\ orders[o].told \in Nat
      /\ ordered \in Nat /\ told \in Nat /\ q \in Nat
  BY CountsTyped, FloorAssumption DEF Order
<1>3. stays \in Nat /\ orders[o].told - stays \in Nat /\ orders[o].food - q \in Nat
  BY <1>1, <1>2 DEF StaysTold, Lesser
<1>4. seat \in Seats /\ ~Occupied(t, seat)
  BY <1>1, NextIsFree DEF MayTake, SeatFor
<1>5. PICK n \in Orders : /\ IsNextId(n)
                          /\ orders' = [orders EXCEPT ![o].food = @ - q, ![o].told = StaysTold(o, q),
                                          ![n] = New(t, SeatFor(o, t, s), q, orders[o].told - StaysTold(o, q))]
  BY DEF CounterSplits
<1>6. orders[n].state = "none" /\ n # o
  BY <1>1, <1>5, NextIsFree
<1>7. orders' = [ms EXCEPT ![n] = y]
  BY <1>2, <1>5, <1>6
<1>8. /\ x \in Order /\ x.food = orders[o].food - q /\ x.told = stays /\ x.state = "open"
      /\ x.into = orders[o].into /\ x.sources = orders[o].sources
      /\ x.table = orders[o].table /\ x.seat = orders[o].seat
  <2>. HIDE DEF stays
  <2>. QED  BY <1>1, <1>2, <1>3 DEF Order
<1>9. /\ y \in Order /\ y.food = q /\ y.told = orders[o].told - stays /\ y.state = "open"
      /\ y.into = NoOrder /\ y.sources = {} /\ y.table = t /\ y.seat = seat
  <2>. HIDE DEF stays, seat
  <2>. QED  BY <1>2, <1>3, <1>4 DEF New, Blank, Order, NoOrder
<1>. HIDE DEF stays, seat, x, y
<1>10. Books(ms, late, ordered - q, told - (orders[o].told - stays))
  <2>1. Steady(orders[o], x) /\ MayEnd(orders, o, x.state) /\ Stays(orders[o], x)
    BY <1>1, <1>8 DEF Steady, MayEnd, Stays
  <2>2. Books(ms, late, ordered + More(orders, o, x.food - orders[o].food),
              told + More(orders, o, x.told - orders[o].told))
    BY <1>1, <1>8, <2>1, Changes DEF Counts
  <2>3. /\ ordered + More(orders, o, x.food - orders[o].food) = ordered - q
        /\ told + More(orders, o, x.told - orders[o].told) = told - (orders[o].told - stays)
    BY <1>1, <1>2, <1>3, <1>8 DEF More
  <2>. QED  BY <2>2, <2>3, Zenon
<1>11. /\ ms[n].state = "none" /\ ms[o] = x /\ \A i \in Orders \ {o} : ms[i] = orders[i]
  BY <1>2, <1>6
<1>. HIDE DEF ms
<1>12. NowLate(ms, late, late', n, y)
  <2>1. \A i \in Orders \ {n} : ~SitsIn(ms, i, y)
    <3>1. SUFFICES ASSUME NEW i \in Orders, SitsIn(ms, i, y) PROVE FALSE
      OBVIOUS
    <3>2. orders[i].state = "open" /\ orders[i].table = t /\ orders[i].seat = seat
      <4>1. CASE i = o
        BY <1>1, <1>8, <1>9, <1>11, <3>1, <4>1 DEF SitsIn
      <4>2. CASE i # o
        BY <1>9, <1>11, <3>1, <4>2 DEF SitsIn
      <4>. QED  BY <4>1, <4>2
    <3>. QED  BY <1>4, <3>2 DEF Occupied, SitsAt, IsOpen
  <2>. QED  BY <1>1, <2>1, CountsTyped DEF NowLate
<1>13. Books([ms EXCEPT ![n] = y], late', ordered - q + y.food, told - (orders[o].told - stays) + y.told)
  <2>1. Books([ms EXCEPT ![n] = y], late',
              (ordered - q) + (IF y.into = NoOrder THEN y.food ELSE 0),
              (told - (orders[o].told - stays)) + (IF y.into = NoOrder THEN y.told ELSE 0))
    BY <1>9, <1>10, <1>11, <1>12, Begins
  <2>. QED  BY <1>9, <2>1
<1>14. ordered - q + y.food = ordered' /\ told - (orders[o].told - stays) + y.told = told'
  BY <1>1, <1>2, <1>3, <1>9
<1>. QED  BY <1>7, <1>13, <1>14, Zenon DEF Counts

\* A bill is paid; a combined one leaves an order behind for its own table.
LEMMA SettleKeeps ==
    ASSUME Counts, NEW o \in Orders, CounterSettles(o)
    PROVE  Counts'
<1>1. orders[o].state = "open" /\ orders[o].into = NoOrder
  BY DEF CounterSettles, Loadable, IsOpen
<1>2. /\ orders \in [Orders -> Order] /\ orders[o] \in Order /\ ordered \in Nat /\ told \in Nat
      /\ ordered' = ordered /\ told' = told /\ late \subseteq Orders
  BY CountsTyped DEF CounterSettles
<1>3. MayEnd(orders, o, "settled")
  BY <1>1 DEF MayEnd
<1>4. CASE late' = late /\ orders' = [orders EXCEPT ![o].state = "settled"]
  BY <1>1, <1>2, <1>3, <1>4, EndKeeps
<1>. DEFINE y == [New(orders[o].table, orders[o].seat, Own(orders[o]), OwnTold(orders[o])) EXCEPT !.into = o]
            x == [orders[o] EXCEPT !.state = "settled"]
            ms == [orders EXCEPT ![o] = x]
<1>5. ASSUME NEW n \in Orders, IsNextId(n),
             orders' = [orders EXCEPT ![o].state = "settled", ![n] = y],
             Sits(n, \E i \in Orders \ {o} : SitsAt(i, orders[o].table, orders[o].seat))
      PROVE  Counts'
  <2>1. orders[n].state = "none" /\ n # o /\ o # NoOrder
    BY <1>1, <1>5, NextIsFree, FewOrders
  <2>2. orders' = [ms EXCEPT ![n] = y]
    BY <1>2, <1>5, <2>1
  <2>3. /\ y \in Order /\ y.state = "open" /\ y.into = o /\ y.sources = {}
        /\ y.table = orders[o].table /\ y.seat = orders[o].seat
    <3>1. Own(orders[o]) \in Nat /\ OwnTold(orders[o]) \in Nat /\ orders[o].table \in Tables \cup {"none"}
          /\ orders[o].seat \in Seats
      BY <1>2 DEF Own, OwnTold, Order
    <3>. QED  BY <3>1 DEF New, Blank, Order, NoOrder
  <2>4. x \in Order /\ x.state = "settled" /\ x.into = NoOrder /\ x.sources = orders[o].sources
        /\ x.food = orders[o].food /\ x.told = orders[o].told /\ x.service = orders[o].service
    BY <1>1, <1>2 DEF Order
  <2>. HIDE DEF x, y
  <2>5. Books(ms, late, ordered, told)
    <3>1. orders[o].food \in Nat /\ orders[o].told \in Nat /\ orders[o].service \in Nat
      BY <1>2 DEF Order
    <3>2. Steady(orders[o], x) /\ MayEnd(orders, o, x.state) /\ Stays(orders[o], x)
      BY <1>1, <1>3, <2>4, <3>1 DEF Steady, Stays, Own
    <3>3. Books(ms, late, ordered + More(orders, o, x.food - orders[o].food),
                told + More(orders, o, x.told - orders[o].told))
      BY <1>1, <2>4, <3>2, Changes DEF Counts
    <3>4. /\ ordered + More(orders, o, x.food - orders[o].food) = ordered
          /\ told + More(orders, o, x.told - orders[o].told) = told
      BY <1>2, <2>4, <3>1 DEF More
    <3>. QED  BY <3>3, <3>4, Zenon
  <2>6. ms[n].state = "none" /\ ms[o] = x /\ \A i \in Orders \ {o} : ms[i] = orders[i]
    BY <1>2, <2>1
  <2>. HIDE DEF ms
  <2>7. NowLate(ms, late, late', n, y)
    <3>1. CASE late' = late \cup {n}
      BY <1>2, <3>1 DEF NowLate
    <3>2. CASE late' = late \ {n} /\ \A i \in Orders \ {o} : ~SitsAt(i, orders[o].table, orders[o].seat)
      <4>1. \A i \in Orders \ {n} : ~SitsIn(ms, i, y)
        <5>1. SUFFICES ASSUME NEW i \in Orders, SitsIn(ms, i, y) PROVE FALSE
          OBVIOUS
        <5>2. i # o
          BY <2>4, <2>6, <5>1 DEF SitsIn
        <5>. QED  BY <2>3, <2>6, <3>2, <5>1, <5>2 DEF SitsIn, SitsAt, IsOpen
      <4>. QED  BY <1>2, <3>2, <4>1 DEF NowLate
    <3>. QED  BY <1>5, <3>1, <3>2 DEF Sits
  <2>8. Books([ms EXCEPT ![n] = y], late', ordered + (IF y.into = NoOrder THEN y.food ELSE 0),
              told + (IF y.into = NoOrder THEN y.told ELSE 0))
    BY <2>1, <2>3, <2>4, <2>5, <2>6, <2>7, Begins
  <2>9. ordered + (IF y.into = NoOrder THEN y.food ELSE 0) = ordered'
        /\ told + (IF y.into = NoOrder THEN y.told ELSE 0) = told'
    BY <1>2, <2>1, <2>3
  <2>. QED  BY <2>2, <2>8, <2>9, Zenon DEF Counts
<1>. QED  BY <1>4, <1>5 DEF CounterSettles

\* What the counter does keeps the books, and where its cart sits is a place.
LEMMA CounterKeeps ==
    ASSUME Inv, Counter
    PROVE  Counts' /\ CounterTyped'
<1>1. Counts /\ CounterTyped /\ deeds' = deeds + 1 /\ deeds \in Nat /\ cart \in [table : Tables \cup {"none"}, seat : Seats]
  BY DEF Inv, CounterTyped, Counter
<1>2. /\ orders \in [Orders -> Order] /\ \A o \in Orders : orders[o] \in Order
      /\ ordered \in Nat /\ told \in Nat /\ 0 \in Seats
  BY <1>1, CountsTyped, FloorAssumption DEF Seats
<1>3. ASSUME UNCHANGED <<orders, history>> PROVE Counts'
  <2>1. orders' = orders /\ late' = late /\ ordered' = ordered /\ told' = told
    BY <1>3 DEF history
  <2>. QED  BY <1>1, <2>1, Zenon DEF Counts
<1>4. deeds' \in Nat
  BY <1>1
<1>5. CASE CounterParks
  BY <1>4, <1>5, ParkKeeps DEF CounterTyped
<1>6. ASSUME NEW t \in Tables, CounterSits(t) PROVE Counts' /\ CounterTyped'
  BY <1>2, <1>3, <1>4, <1>6 DEF CounterSits, CounterTyped
<1>7. ASSUME NEW t \in Tables, NEW s \in Seats, CounterJoins(t, s) PROVE Counts' /\ CounterTyped'
  BY <1>2, <1>3, <1>4, <1>7 DEF CounterJoins, CounterTyped
<1>8. ASSUME cart' = cart PROVE CounterTyped'
  BY <1>1, <1>4, <1>8 DEF CounterTyped
<1>9. \A o \in Orders : orders[o].food \in Nat /\ orders[o].told \in Nat
  BY <1>2 DEF Order
<1>10. ASSUME NEW o \in Orders, CounterAdds(o) PROVE Counts' /\ CounterTyped'
  <2>1. /\ Loadable(o) /\ Serves(o, 1, 0) /\ late' = late /\ ordered' = ordered + 1 /\ told' = told /\ cart' = cart
    BY <1>10 DEF CounterAdds
  <2>2. orders[o].food + 1 >= 0 /\ orders[o].told + 0 >= 0 /\ told' = told + 0
    BY <1>2, <1>9, <2>1
  <2>3. Counts'
    BY <1>1, <2>1, <2>2, ServeKeeps
  <2>. QED  BY <1>8, <2>1, <2>3
<1>11. ASSUME NEW o \in Orders, CounterTickets(o) PROVE Counts' /\ CounterTyped'
  <2>. DEFINE change == orders[o].food - orders[o].told
  <2>1. /\ Loadable(o) /\ Serves(o, 0, change) /\ change > 0 /\ late' = late /\ ordered' = ordered
        /\ told' = told + change /\ cart' = cart
    BY <1>11 DEF CounterTickets
  <2>2. change \in Int /\ orders[o].food + 0 >= 0 /\ orders[o].told + change >= 0 /\ ordered' = ordered + 0
    BY <1>2, <1>9, <2>1
  <2>. HIDE DEF change
  <2>3. Counts'
    BY <1>1, <2>1, <2>2, ServeKeeps
  <2>. QED  BY <1>8, <2>1, <2>3
<1>12. ASSUME NEW o \in Orders, NEW slip \in BOOLEAN, CounterRemoves(o, slip) PROVE Counts' /\ CounterTyped'
  <2>. DEFINE stopped == IF slip THEN OverTold(o, orders[o].food - 1) ELSE 0
  <2>1. /\ Loadable(o) /\ orders[o].food >= 1 /\ Serves(o, -1, -stopped) /\ late' = late
        /\ ordered' = ordered - 1 /\ told' = told - stopped /\ cart' = cart
    BY <1>12 DEF CounterRemoves
  <2>2. stopped \in Nat /\ stopped <= orders[o].told
    BY <1>9, <2>1 DEF OverTold
  <2>. HIDE DEF stopped
  <2>3. /\ -1 \in Int /\ -stopped \in Int /\ orders[o].food + (-1) >= 0 /\ orders[o].told + (-stopped) >= 0
        /\ ordered' = ordered + (-1) /\ told' = told + (-stopped)
    BY <1>2, <1>9, <2>1, <2>2
  <2>4. Counts'
    BY <1>1, <2>1, <2>3, ServeKeeps
  <2>. QED  BY <1>8, <2>1, <2>4
<1>13. ASSUME NEW o \in Orders, CounterSettles(o) PROVE Counts' /\ CounterTyped'
  BY <1>1, <1>8, <1>13, SettleKeeps DEF CounterSettles
<1>14. ASSUME NEW o \in Orders, CounterReleases(o) \/ CounterCancels(o) PROVE Counts' /\ CounterTyped'
  <2>1. /\ orders[o].state = "open" /\ orders' = [orders EXCEPT ![o].state = "cancelled"]
        /\ late' = late /\ ordered' = ordered /\ told' = told /\ cart' = cart
    BY <1>14 DEF CounterReleases, CounterCancels, IsOpen, history
  <2>2. MayEnd(orders, o, "cancelled")
    BY <1>14 DEF CounterReleases, CounterCancels, Combined, MayEnd
  <2>3. Counts'
    BY <1>1, <2>1, <2>2, EndKeeps
  <2>. QED  BY <1>8, <2>1, <2>3
<1>15. ASSUME NEW o \in Orders, NEW t \in Tables, CounterMoves(o, t) PROVE Counts' /\ CounterTyped'
  <2>1. /\ orders[o].state = "open" /\ orders' = [orders EXCEPT ![o].table = t, ![o].seat = 0]
        /\ late' = late \ {o} /\ ordered' = ordered /\ told' = told /\ cart' = cart
    BY <1>15 DEF CounterMoves, IsOpen, Sits
  <2>2. \A x \in Orders \ {o} : ~SitsAt(x, t, 0)
    BY <1>2, <1>15 DEF CounterMoves, Busy, Occupied
  <2>3. Counts'
    BY <1>1, <2>1, <2>2, MoveKeeps
  <2>. QED  BY <1>8, <2>1, <2>3
<1>16. ASSUME NEW a \in Orders, NEW s \in Orders, CounterMerges(a, s) PROVE Counts' /\ CounterTyped'
  <2>1. Counts'
    BY <1>1, <1>16, MergeKeeps
  <2>. QED  BY <1>8, <1>16, <2>1 DEF CounterMerges
<1>17. ASSUME NEW o \in Orders, NEW q \in 1 .. MaxFood, NEW t \in Tables, NEW s \in Seats, CounterSplits(o, q, t, s)
       PROVE  Counts' /\ CounterTyped'
  <2>1. Counts'
    BY <1>1, <1>17, SplitKeeps
  <2>. QED  BY <1>8, <1>17, <2>1 DEF CounterSplits
<1>. QED
  BY <1>5, <1>6, <1>7, <1>10, <1>11, <1>12, <1>13, <1>14, <1>15, <1>16, <1>17 DEF Counter

\* An opening room satisfies the invariant: nobody has asked or sat yet.
LEMMA InvInit == ASSUME Init PROVE Inv
<1>1. /\ script \in Scripts /\ IsRoom(orders) /\ cart = NoCart /\ deeds = 0 /\ late = {}
      /\ ledger = [i \in Intents |-> Unasked] /\ call = [p \in Phones |-> NoCall]
      /\ ordered = Charged /\ told = Sent
  BY FloorAssumption DEF Init
<1>2. PhonesInv
  <2>1. AnswersTyped
    BY <1>1 DEF AnswersTyped, NoCall
  <2>2. OnItsOwnParty
    <3>1. SUFFICES ASSUME NEW p \in Phones, NEW k \in DOMAIN script[p] PROVE ~(ledger[<<p, k>>] > 0)
      BY DEF OnItsOwnParty
    <3>2. k \in 1 .. Len(script[p])
      BY <1>1, Scripted
    <3>3. <<p, k>> \in Intents
      BY <1>1, <3>2, Scripted
    <3>. QED  BY <1>1, <3>3 DEF Unasked
  <2>3. ASSUME NEW p \in Phones PROVE InItsBatch(p)
    <3>1. Len(script[p]) \in 0 .. MaxQueue /\ MaxQueue \in Nat
      BY <1>1, Scripted, FloorAssumption
    <3>. QED  BY <1>1, <3>1 DEF InItsBatch, NoCall
  <2>. QED  BY <2>1, <2>2, <2>3 DEF PhonesInv
<1>3. CounterTyped
  BY <1>1, FloorAssumption DEF CounterTyped, NoCart, Seats
<1>4. Counts
  <2>1. Sound(orders)
    BY <1>1 DEF IsRoom, Sound, Unopened
  <2>2. Apart(orders, late)
    BY <1>1 DEF IsRoom, Apart, SameSeat
  <2>3. Bills = Paying(orders) /\ orders \in [Orders -> Order]
    BY <1>1 DEF Bills, Paying, IsRoom
  <2>4. ordered = AllFood(orders) /\ told = AllTold(orders)
    BY <1>1, <2>3, PortionsAre DEF Charged, Sent
  <2>. QED  BY <1>1, <2>1, <2>2, <2>4 DEF Counts, Books
<1>. QED  BY <1>2, <1>3, <1>4 DEF Inv

\* Every step of a phone and of the counter keeps the invariant.
LEMMA InvStep == ASSUME Inv, [Next]_vars PROVE Inv'
<1>1. CASE UNCHANGED vars
  <2>1. /\ script' = script /\ ledger' = ledger /\ call' = call /\ orders' = orders /\ cart' = cart
        /\ deeds' = deeds /\ ordered' = ordered /\ told' = told /\ late' = late
    BY <1>1 DEF vars
  <2>2. PhonesInv'
    BY <2>1 DEF Inv, PhonesInv, AnswersTyped, OnItsOwnParty, Opener, InItsBatch
  <2>3. CounterTyped' /\ Counts'
    BY <2>1 DEF Inv, CounterTyped, Counts
  <2>. QED  BY <2>2, <2>3 DEF Inv
<1>2. ASSUME NEW p \in Phones, SendBatch(p) \/ BatchBreaks(p) PROVE Inv'
  <2>1. PhonesInv'
    BY <1>2, QuietKeeps DEF Inv
  <2>2. orders' = orders /\ cart' = cart /\ deeds' = deeds /\ ordered' = ordered /\ told' = told /\ late' = late
    BY <1>2 DEF SendBatch, BatchBreaks, counter, history
  <2>3. CounterTyped' /\ Counts'
    BY <2>2 DEF Inv, CounterTyped, Counts
  <2>. QED  BY <2>1, <2>3 DEF Inv
<1>3. ASSUME NEW p \in Phones, Apply(p) PROVE Inv'
  <2>1. PhonesInv' /\ Counts' /\ cart' = cart /\ deeds' = deeds
    BY <1>3, ApplyKeeps
  <2>. QED  BY <2>1 DEF Inv, CounterTyped
<1>4. CASE Counter
  <2>1. Counts' /\ CounterTyped'
    BY <1>4, CounterKeeps
  <2>2. script' = script /\ ledger' = ledger /\ call' = call
    BY <1>4 DEF Counter, CounterParks, CounterSits, CounterJoins, CounterAdds, CounterTickets, CounterRemoves,
                CounterSettles, CounterReleases, CounterCancels, CounterMoves, CounterMerges, CounterSplits, phones
  <2>3. PhonesInv'
    BY <2>2 DEF Inv, PhonesInv, AnswersTyped, OnItsOwnParty, Opener, InItsBatch
  <2>. QED  BY <2>1, <2>3 DEF Inv
<1>. QED  BY <1>1, <1>2, <1>3, <1>4 DEF Next, Phone

\* The invariant of the floor, which the properties below are read from.
THEOREM InvHolds == Spec => []Inv
BY InvInit, InvStep, PTL DEF Spec

\* Every order, answer, batch and cart has its type, and what is counted is never
\* below nothing (`TypeOK`), whatever the phones repeat and the counter combines.
THEOREM FloorTypeCorrect == Spec => []TypeOK
<1>1. Inv => TypeOK
  <2>1. SUFFICES ASSUME Inv PROVE TypeOK
    OBVIOUS
  <2>2. /\ orders \in [Orders -> Order] /\ ordered \in Nat /\ told \in Nat /\ late \subseteq Orders
    BY <2>1, CountsTyped DEF Inv
  <2>. QED  BY <2>1, <2>2 DEF Inv, PhonesInv, AnswersTyped, CounterTyped, TypeOK
<1>. QED  BY <1>1, InvHolds, PTL

\* Each portion asked for is charged on exactly one bill, and each the kitchen was
\* told of is in exactly one bill's ledger, however often intents are sent and
\* orders are split, combined, moved and settled (`OnOneBill`).
THEOREM PortionsAreOnOneBill == Spec => []OnOneBill
<1>1. Inv => OnOneBill
  <2>1. SUFFICES ASSUME Inv PROVE OnOneBill
    OBVIOUS
  <2>2. Bills = Paying(orders) /\ orders \in [Orders -> Order]
    BY <2>1, CountsTyped DEF Inv, Bills, Paying
  <2>3. ordered = AllFood(orders) /\ told = AllTold(orders)
    BY <2>1 DEF Inv, Counts, Books
  <2>. QED  BY <2>2, <2>3, PortionsAre DEF OnOneBill, Charged, Sent
<1>. QED  BY <1>1, InvHolds, PTL

\* A combined bill charges what its tables serve, and none of them leaves before
\* it is paid (`AccountsTie`: `merged_order`, `reconcile_service_from`, `settle`).
THEOREM CombinedBillsTie == Spec => []AccountsTie
<1>1. Inv => AccountsTie
  BY DEF Inv, Counts, Books, Sound, AccountsTie
<1>. QED  BY <1>1, InvHolds, PTL

\* What a phone asks for one party lands on the order its open was answered with,
\* in whatever pieces its queue arrives (`OnItsOwnParty`: `apply_batch`, `recall`).
THEOREM IntentsKeepTheirParty == Spec => []OnItsOwnParty
<1>1. Inv => OnItsOwnParty
  BY DEF Inv, PhonesInv
<1>. QED  BY <1>1, InvHolds, PTL

\* Two open orders at a table differ by their letter, but for those that came late
\* to a taken place (`PartiesApart`: `next_free_seat`, `split_order_on`).
THEOREM PartiesAreApart == Spec => []PartiesApart
<1>1. Inv => PartiesApart
  <2>1. SUFFICES ASSUME Inv PROVE PartiesApart
    OBVIOUS
  <2>. QED  BY <2>1 DEF Inv, Counts, Books, Apart, SameSeat, PartiesApart, SitsAt, IsOpen
<1>. QED  BY <1>1, InvHolds, PTL
===============================================================================
