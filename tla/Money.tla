------------------------------- MODULE Money --------------------------------
(***************************************************************************)
(* The arithmetic of paise: one rounding rule, the discount that cannot    *)
(* take more than there is, the spread of an amount over lines, and the    *)
(* tax of a line (mb-core: money.rs, qty.rs, discount.rs, tax.rs,          *)
(* charge.rs, transfer.rs).  The code computes in i128 and refuses a       *)
(* result beyond i64; amounts here are far below that.                     *)
(***************************************************************************)
EXTENDS Integers, FiniteSets, Functions

Modes == {"none", "nearest", "up", "down"}
Less(a, b) == IF a < b THEN a ELSE b

\* `mul_ratio`: a * n / d to the nearest, ties away from zero.
MulRatio(a, n, d) ==
    IF a * n >= 0 THEN (a * n + d \div 2) \div d ELSE -((d \div 2 - a * n) \div d)

\* `mul_ratio_floor`.
MulRatioFloor(a, n, d) == (a * n) \div d

\* `percent_bp`, and a quantity in thousandths at a price.
Percent(a, bp) == MulRatio(a, bp, 10000)
Extend(qty, price) == MulRatio(price, qty, 1000)

\* `halve_exact`.
FirstHalf(a) == MulRatio(a, 1, 2)
SecondHalf(a) == a - FirstHalf(a)

\* `round_adjustment`.
ToNearest(a) == IF (a % 100) >= 50 THEN 100 - (a % 100) ELSE 0 - (a % 100)
RoundOff(a, mode) ==
    CASE (a % 100) = 0 \/ mode = "none" -> 0
      [] (a % 100) # 0 /\ mode = "down" -> 0 - (a % 100)
      [] (a % 100) # 0 /\ mode = "up" -> 100 - (a % 100)
      [] (a % 100) # 0 /\ mode = "nearest" -> IF a >= 0 THEN ToNearest(a) ELSE -ToNearest(-a)

\* A discount and what it takes off `base`.
NoOff == [kind |-> "none", of |-> 0]
OffAmount(a) == IF a > 0 THEN [kind |-> "amount", of |-> a] ELSE NoOff
Asked(off, base) == IF off.kind = "percent" THEN Percent(base, off.of) ELSE off.of
Taken(off, base) == Less(Asked(off, base), base)

\* `spread`: a floor for every line, and the paise left over to the lines that
\* lost most by it, the first one first.
Floors(total, nets) == [i \in DOMAIN nets |-> MulRatioFloor(total, nets[i], SumFunction(nets))]
Lost(total, nets) == [i \in DOMAIN nets |-> (total * nets[i]) % SumFunction(nets)]
Ahead(lost, i) == {j \in DOMAIN lost : lost[j] > lost[i] \/ (lost[j] = lost[i] /\ j < i)}

\* Mutant: the paise the flooring left are nobody's.
SpreadFloored(total, nets) ==
    IF total = 0 \/ SumFunction(nets) = 0 THEN [i \in DOMAIN nets |-> 0] ELSE Floors(total, nets)

Spread(total, nets) ==
    IF total = 0 \/ SumFunction(nets) = 0 THEN [i \in DOMAIN nets |-> 0]
    ELSE LET floors == Floors(total, nets)
             lost == Lost(total, nets)
         IN [i \in DOMAIN nets |->
                floors[i] + IF Cardinality(Ahead(lost, i)) < total - SumFunction(floors) THEN 1 ELSE 0]

\* `take_lines`: what a flat discount of a line sends with the part that leaves.
LeavingShare(amount, qty, of) == MulRatioFloor(amount, qty, of)
StayingShare(amount, qty, of) == amount - LeavingShare(amount, qty, of)

\* `compute_line`: only a regular taxpayer charges GST; a price may hold its tax.
Rate(tax, regular) ==
    IF tax.kind = "outside" \/ (tax.kind = "gst" /\ regular) THEN tax.rate ELSE 0
Taxable(net, rate, inclusive) == IF inclusive THEN MulRatio(net, 10000, 10000 + rate) ELSE net
Tax(net, rate, inclusive) ==
    IF inclusive THEN net - Taxable(net, rate, inclusive) ELSE Percent(net, rate)
Outcome(net, tax, regular) ==
    LET taxable == Taxable(net, Rate(tax, regular), tax.inclusive)
        amount == Tax(net, Rate(tax, regular), tax.inclusive)
    IN [spec |-> tax, taxable |-> taxable, tax |-> amount, gross |-> taxable + amount]
=============================================================================
