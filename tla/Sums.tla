-------------------------------- MODULE Sums --------------------------------
(***************************************************************************)
(* Three papers whose figures have to agree: the bill of a customer with   *)
(* its payments (mb-core: bill.rs, cart.rs, payment.rs, transfer.rs), the  *)
(* invoice of a supplier (purchase.rs) and the account of a customer who   *)
(* buys on credit (credit.rs).  Each is filled step by step; the figures   *)
(* are functions of what is on it.                                         *)
(***************************************************************************)
EXTENDS Money, Sequences, SequencesExt

CONSTANTS
    Lines,      \* what can be put on a bill: item, quantity, line discount
    Offs,       \* the discounts of a whole bill
    Shops,      \* taxpayer, rounding, service charge, parcel charge
    Parts,      \* the quantities a split may take
    Extras,     \* what a customer may give beyond what is due
    Tips,
    Goods,      \* the lines of an invoice
    Carriages,  \* discount and charges of a whole invoice
    Moves,      \* what happens to an account: day, direction, amount
    Today,
    MaxLines, MaxQty, MaxPayments, MaxBack, MaxGoods, MaxMoves   \* bounds

\* What can be on a paper: nothing costs less than nothing, and a line holds some
\* of its item.
TaxSpec == [kind : {"gst", "outside", "exempt", "untaxed"}, rate : Nat, inclusive : BOOLEAN]
Discount == [kind : {"none", "amount", "percent"}, of : Nat]
CartLine == [item : [price : Nat, parcel : Nat, tax : TaxSpec], qty : Nat \ {0}, off : Discount]
ShopRules == [regular : BOOLEAN, rounding : Modes, service : Nat,
              parcel : {"off", "bill", "item"}, fee : Nat, chargeTax : TaxSpec]
InvoiceLine == [qty : Nat, rate : Nat, off : Nat, tax : Nat]
Movement == [day : 1..Today, adds : BOOLEAN, amount : Nat]

ASSUME SumsAssumption ==
    /\ Lines \subseteq CartLine /\ Offs \subseteq Discount /\ Shops \subseteq ShopRules
    /\ Goods \subseteq InvoiceLine /\ Moves \subseteq Movement
    /\ Carriages \subseteq [off : Nat, charges : Nat]
    /\ Parts \subseteq Nat \ {0} /\ Extras \subseteq Nat /\ Tips \subseteq Nat
    /\ {MaxLines, MaxQty, MaxPayments, MaxBack, MaxGoods, MaxMoves, Today} \subseteq Nat

VARIABLES
    paper,      \* "bill", "invoice" or "account"
    shop,
    stage,      \* of the bill: "open", "split", "settled" or "reopened"
    cart, off,  \* its lines and its discount
    away,       \* the lines and the discount a split took to another order
    before,     \* history: the bill before the split
    payments, tip,
    taken, back,    \* history: what was given and what was returned, by mode
    goods, carriage,
    moves

paperVars == <<paper, shop, stage, cart, off, away, before, payments, tip, taken, back, goods, carriage, moves>>
books == <<goods, carriage, moves>>
bill == <<stage, cart, off, away, before, payments, tip, taken, back>>

NoCart == [cart |-> <<>>, off |-> NoOff]
Tenders == {"cash", "card"}

----------------------------------------------------------------------------
(* The bill: `compute_bill` and `bill_for`. *)

Gross(c) == [i \in DOMAIN c |-> Extend(c[i].qty, c[i].item.price)]
LineOff(c) == [i \in DOMAIN c |-> Taken(c[i].off, Gross(c)[i])]

\* Parcel charges: a fee for the bill or one for each item, never both.
Weights(c) == [i \in DOMAIN c |-> Extend(c[i].qty, c[i].item.parcel)]
Parcel(c, s) ==
    CASE c = <<>> \/ s.parcel = "off" -> 0
      [] c # <<>> /\ s.parcel = "bill" -> s.fee
      [] c # <<>> /\ s.parcel = "item" -> SumFunction(Weights(c))

\* The discount of the bill, its share of each line, and what is left of the line.
Nets(c) == [i \in DOMAIN c |-> Gross(c)[i] - LineOff(c)[i]]
NetOf(c) == SumFunction(Nets(c))
Given(c, o) == Taken(o, NetOf(c))
Shares(c, o) == Spread(Given(c, o), Nets(c))
Net(c, o) == [i \in DOMAIN c |-> Nets(c)[i] - Shares(c, o)[i]]

\* The service charge is a part of what the lines come to; charges are taxed.
Service(net, s) == IF s.service > 0 THEN Percent(SumFunction(net), s.service) ELSE 0
Charge(amount, made, s) == IF made THEN <<Outcome(amount, s.chargeTax, s.regular)>> ELSE <<>>
Outcomes(c, net, s) ==
    [i \in DOMAIN c |-> Outcome(net[i], c[i].item.tax, s.regular)]
        \o Charge(Service(net, s), s.service > 0, s) \o Charge(Parcel(c, s), Parcel(c, s) # 0, s)

Totalled(net, os, charges, due, s) ==
    [net |-> net, outcomes |-> os, charges |-> charges,
     roundOff |-> RoundOff(due, s.rounding), grand |-> due + RoundOff(due, s.rounding)]
Taxed(net, os, charges, s) == Totalled(net, os, charges, SumFunction([i \in DOMAIN os |-> os[i].gross]), s)
Figures(c, net, s) == Taxed(net, Outcomes(c, net, s), Service(net, s) + Parcel(c, s), s)
BillOf(c, o, s) == Figures(c, Net(c, o), s)

\* `TaxSummary`: a row for each rate of GST and of VAT, and what has no tax.
OfKind(os, kind) == {i \in DOMAIN os : os[i].spec.kind = kind}
Rates(os, kind) == {os[i].spec.rate : i \in OfKind(os, kind)}
Taxables(os) == [i \in DOMAIN os |-> os[i].taxable]
RateRow(os, rows) ==
    [taxable |-> SumFunctionOnSet(Taxables(os), rows),
     first |-> SumFunctionOnSet([i \in DOMAIN os |-> FirstHalf(os[i].tax)], rows),
     second |-> SumFunctionOnSet([i \in DOMAIN os |-> SecondHalf(os[i].tax)], rows)]
RowsTotal(os, kind) ==
    LET sum(row) == row.taxable + row.first + row.second
        ofRate(rate) == {i \in OfKind(os, kind) : os[i].spec.rate = rate}
    IN SumFunction([rate \in Rates(os, kind) |-> sum(RateRow(os, ofRate(rate)))])
ValueOf(os, kind) == SumFunctionOnSet(Taxables(os), OfKind(os, kind))

\* `gst_split`, `vat_split`: the tax that is added to the printed amounts.
Added(os) == SumFunction([i \in DOMAIN os |-> IF os[i].spec.inclusive THEN 0 ELSE os[i].tax])

\* `display_with_parcel_in_items`: the parcel charge within the lines shown.
InItems(c, s) == s.parcel = "item" /\ SumFunction(Weights(c)) # 0
Carried(c, s) == Spread(IF InItems(c, s) THEN Parcel(c, s) ELSE 0, Weights(c))
Shown(c, s) == [i \in DOMAIN c |-> Gross(c)[i] + Carried(c, s)[i]]
ShownCharges(c, b, s) == b.charges - IF InItems(c, s) THEN Parcel(c, s) ELSE 0

Bill == BillOf(cart, off, shop)

----------------------------------------------------------------------------
(* The cart. *)

\* A line goes into the first of those it is one with, or stands alone.
Joined(c, l, same) == IF same = {} THEN Append(c, l) ELSE [c EXCEPT ![Min(same)].qty = @ + l.qty]
PutLine(l, same) ==
    /\ stage = "open" /\ payments = <<>> /\ Len(cart) < MaxLines /\ l.qty <= MaxQty
    /\ \A i \in same : cart[i].qty + l.qty <= MaxQty
    /\ cart' = Joined(cart, l, same)
    /\ UNCHANGED <<paper, shop, stage, off, away, before, payments, tip, taken, back, books>>

\* `Cart::add`: the same item is one line, whatever discount that line has.
Alike(c, l) == {i \in DOMAIN c : c[i].item = l.item}
Add(l) == l.off = NoOff /\ PutLine(l, Alike(cart, l))

\* `Cart::push`: a line with its own discount, one with those of the same terms.
Twins(c, l) == {i \in Alike(c, l) : c[i].off = l.off /\ l.off.kind # "amount"}
Push(l) == PutLine(l, Twins(cart, l))

SetOff(o) ==
    /\ stage = "open" /\ payments = <<>> /\ off = NoOff
    /\ off' = o
    /\ UNCHANGED <<paper, shop, stage, cart, away, before, payments, tip, taken, back, books>>

\* `take_lines`: the part of a line that stays and the part that leaves.
IsShared(l, q) == q < l.qty /\ l.off.kind = "amount"
Portion(l, q, share) == IF IsShared(l, q) THEN [l.off EXCEPT !.of = share] ELSE l.off
Staying(l, q) == [l EXCEPT !.qty = @ - q, !.off = Portion(l, q, StayingShare(@.of, q, l.qty))]
Leaving(l, q) == [l EXCEPT !.qty = q, !.off = Portion(l, q, LeavingShare(@.of, q, l.qty))]
Kept(c, i, q) == IF q = c[i].qty THEN RemoveAt(c, i) ELSE [c EXCEPT ![i] = Staying(c[i], q)]

\* `split_order_on`: the discount of the bill follows what the two parts come to.
Split(i, q) ==
    /\ stage = "open" /\ payments = <<>>
    /\ q <= cart[i].qty /\ Kept(cart, i, q) # <<>>
    /\ LET stays == Kept(cart, i, q)
           goes == <<Leaving(cart[i], q)>>
           shares == Spread(SumFunction(Shares(cart, off)), <<NetOf(stays), NetOf(goes)>>)
       IN /\ cart' = stays /\ off' = OffAmount(shares[1])
          /\ away' = [cart |-> goes, off |-> OffAmount(shares[2])]
    /\ stage' = "split" /\ before' = [cart |-> cart, off |-> off]
    /\ UNCHANGED <<paper, shop, payments, tip, taken, back, books>>

----------------------------------------------------------------------------
(* The payments. *)

Amounts(ps) == [i \in DOMAIN ps |-> ps[i].amount]
In(ps, mode) == {i \in DOMAIN ps : ps[i].mode = mode}
Paid(ps) == SumFunction(Amounts(ps))
PaidIn(ps, mode) == SumFunctionOnSet(Amounts(ps), In(ps, mode))
Due == Bill.grand + tip
Change(ps, due) == IF Paid(ps) > due THEN Paid(ps) - due ELSE 0

\* Mutant: change is counted against whatever was paid first.
GivesChangeAny(p) == TRUE

\* You cannot get change out of a card machine.
GivesChange(p) == p.mode = "cash"

\* `receipts`: what was kept of each payment, and the tip in it.
Receipt(acc, p) ==
    LET given == IF GivesChange(p) THEN Less(p.amount, acc.change) ELSE 0
        kept == p.amount - given
        inTip == Less(kept, acc.tip)
    IN [rows |-> IF kept > 0 THEN Append(acc.rows, [mode |-> p.mode, amount |-> kept, tip |-> inTip])
                 ELSE acc.rows,
        change |-> acc.change - given, tip |-> acc.tip - inTip]
Receipts(ps, due, t) ==
    FoldLeft(Receipt, [rows |-> <<>>, change |-> Change(ps, due), tip |-> t], ps).rows

Reduced(p, by) == [p EXCEPT !.amount = @ - by]

\* `return_to`: off the payments of that mode, the first one first.
Return(acc, p) ==
    LET take == IF p.mode = acc.mode THEN Less(p.amount, acc.left) ELSE 0
    IN [acc EXCEPT !.left = @ - take,
                   !.rows = IF p.amount > take THEN Append(@, Reduced(p, take)) ELSE @]
ReturnTo(ps, mode, amount) == FoldLeft(Return, [rows |-> <<>>, left |-> amount, mode |-> mode], ps).rows

Pay(mode, amount) ==
    /\ stage = "open" /\ cart # <<>> /\ Len(payments) < MaxPayments /\ amount > 0
    /\ payments' = Append(payments, [mode |-> mode, amount |-> amount])
    /\ taken' = [taken EXCEPT ![mode] = @ + amount]
    /\ UNCHANGED <<paper, shop, stage, cart, off, away, before, tip, back, books>>

SetTip(t) ==
    /\ stage = "open" /\ payments # <<>> /\ tip = 0
    /\ tip' = t
    /\ UNCHANGED <<paper, shop, stage, cart, off, away, before, payments, taken, back, books>>

\* `settle`: all is paid, and nothing but cash beyond what is due.
SettleBill ==
    /\ stage = "open" /\ cart # <<>>
    /\ Paid(payments) - PaidIn(payments, "cash") <= Due
    /\ Paid(payments) >= Due
    /\ stage' = "settled"
    /\ UNCHANGED <<paper, shop, cart, off, away, before, payments, tip, taken, back, books>>

\* `reopen`: the change is no advance towards the corrected bill.
Reopen ==
    LET change == Change(payments, Due)
    IN /\ stage = "settled" /\ stage' = "reopened"
       /\ payments' = ReturnTo(payments, "cash", change)
       /\ back' = [back EXCEPT !["cash"] = @ + change]
       /\ UNCHANGED <<paper, shop, cart, off, away, before, tip, taken, books>>

ReturnsMoney(mode, amount) ==
    /\ stage = "reopened" /\ amount \in 1..PaidIn(payments, mode)
    /\ back["cash"] + back["card"] + amount <= MaxBack
    /\ payments' = ReturnTo(payments, mode, amount)
    /\ back' = [back EXCEPT ![mode] = @ + amount]
    /\ UNCHANGED <<paper, shop, stage, cart, off, away, before, tip, taken, books>>

OnTheBill ==
    /\ paper = "bill"
    /\ \/ \E l \in Lines : Add(l) \/ Push(l)
       \/ \E o \in Offs : SetOff(o)
       \/ \E i \in DOMAIN cart, q \in Parts : Split(i, q)
       \/ \E mode \in Tenders, x \in Extras : Pay(mode, Bill.grand \div 2) \/ Pay(mode, Bill.grand - Bill.grand \div 2 + x)
       \/ \E t \in Tips : SetTip(t)
       \/ SettleBill \/ Reopen
       \/ \E mode \in Tenders, x \in Extras : ReturnsMoney(mode, x)

----------------------------------------------------------------------------
(* The invoice of a supplier: `cost_invoice`. *)

Worth(g) == Extend(g.qty, g.rate) - g.off
NetsOf(gs) == [i \in DOMAIN gs |-> Worth(gs[i])]

Receive(g) ==
    /\ Len(goods) < MaxGoods /\ g.qty > 0 /\ Worth(g) >= 0
    /\ goods' = Append(goods, g)
    /\ UNCHANGED <<paper, shop, bill, carriage, moves>>

SetCarriage(c) ==
    /\ goods # <<>> /\ c.off <= SumFunction(NetsOf(goods))
    /\ carriage' = c
    /\ UNCHANGED <<paper, shop, bill, goods, moves>>

Relief(gs, c) == Spread(c.off, NetsOf(gs))
TaxableOf(gs, c) == [i \in DOMAIN gs |-> NetsOf(gs)[i] - Relief(gs, c)[i]]
Cost(gs, c, s, taxable, tax) ==
    LET charge == Spread(c.charges, NetsOf(gs))
        inCost == [i \in DOMAIN gs |-> IF s.regular THEN 0 ELSE tax[i]]
        total == SumFunction(taxable) + c.charges + SumFunction(tax)
    IN [landed |-> [i \in DOMAIN gs |-> taxable[i] + charge[i] + inCost[i]],
        credit |-> SumFunction(tax) - SumFunction(inCost), taxable |-> taxable,
        roundOff |-> RoundOff(total, s.rounding), total |-> total + RoundOff(total, s.rounding)]
Levied(gs, c, s, taxable) == Cost(gs, c, s, taxable, [i \in DOMAIN gs |-> Percent(taxable[i], gs[i].tax)])
InvoiceOf(gs, c, s) == Levied(gs, c, s, TaxableOf(gs, c))

----------------------------------------------------------------------------
(* The account of a customer: `balance`, `ageing` and `statement`. *)

Enter(m) ==
    /\ Len(moves) < MaxMoves
    /\ moves' = Append(moves, m)
    /\ UNCHANGED <<paper, shop, bill, goods, carriage>>

Signed(ms) == [i \in DOMAIN ms |-> IF ms[i].adds THEN ms[i].amount ELSE -ms[i].amount]
Balance(ms) == SumFunction(Signed(ms))

\* The last of some moves: by its day, and by its entry among those of a day.
Latest(ms, s) ==
    CHOOSE i \in s : \A j \in s : ms[j].day < ms[i].day \/ (ms[j].day = ms[i].day /\ j <= i)

\* A repayment clears the oldest debt first; what is left of it waits.
Clear(acc, m) ==
    LET take == Less(Head(acc.owed).amount, acc.left)
    IN IF acc.owed = <<>> \/ acc.left = 0 THEN acc
       ELSE [acc EXCEPT !.left = @ - take,
                        !.owed = IF take = Head(@).amount THEN Tail(@)
                                 ELSE <<Reduced(Head(@), take)>> \o Tail(@)]
Repay(acc, m) ==
    LET cleared == FoldLeft(Clear, [owed |-> acc.owed, left |-> m.amount], acc.owed)
    IN [owed |-> cleared.owed, credit |-> acc.credit + cleared.left]

\* Mutant: money paid in advance is not used up by the next sale.
BuyAfresh(acc, m) ==
    [owed |-> Append(acc.owed, m), credit |-> 0]

Buy(acc, m) ==
    LET used == Less(acc.credit, m.amount)
    IN [owed |-> IF m.amount > used THEN Append(acc.owed, Reduced(m, used)) ELSE acc.owed,
        credit |-> acc.credit - used]
Age(acc, m) == IF m.adds THEN Buy(acc, m) ELSE Repay(acc, m)
Aged(ms) ==
    MapThenFoldSet(LAMBDA m, acc : Age(acc, m), [owed |-> <<>>, credit |-> 0],
                   LAMBDA i : ms[i], LAMBDA s : Latest(ms, s), DOMAIN ms)

Between(ms, from, to) == {i \in DOMAIN ms : from <= ms[i].day /\ ms[i].day <= to}
Owed(ms, from, to) == SumFunctionOnSet(Signed(ms), Between(ms, from, to))

\* The four buckets: under 30 days, 30, 60 and 90; advances lessen the first.
Buckets(aged) ==
    <<Owed(aged.owed, Today - 29, Today) - aged.credit, Owed(aged.owed, Today - 59, Today - 30),
      Owed(aged.owed, Today - 89, Today - 60), Owed(aged.owed, 1, Today - 90)>>

\* A statement: what was owed before it, and what happened in it.
Closing(ms, from, to) == Owed(ms, 1, from - 1) + Owed(ms, from, to)

----------------------------------------------------------------------------
PapersInit ==
    /\ paper \in {"bill", "invoice", "account"} /\ shop \in Shops
    /\ stage = "open" /\ cart = <<>> /\ off = NoOff /\ away = NoCart /\ before = NoCart
    /\ payments = <<>> /\ tip = 0 /\ taken = [m \in Tenders |-> 0] /\ back = taken
    /\ goods = <<>> /\ carriage = [off |-> 0, charges |-> 0] /\ moves = <<>>

OnTheInvoice ==
    paper = "invoice" /\ ((\E g \in Goods : Receive(g)) \/ (\E c \in Carriages : SetCarriage(c)))
OnTheAccount == paper = "account" /\ \E m \in Moves : Enter(m)

PapersNext == OnTheBill \/ OnTheInvoice \/ OnTheAccount

PapersSpec == PapersInit /\ [][PapersNext]_paperVars

----------------------------------------------------------------------------
\* A bill's discount is taken in full, no line below nothing; what is printed
\* adds up to what is asked for, and so do the rows of the tax return; the total
\* is whole rupees, a rupee away at most.
BillAdds(c, o, b) ==
    /\ SumFunction(Shares(c, o)) = Given(c, o)
    /\ \A i \in DOMAIN c : Shares(c, o)[i] >= 0 /\ b.net[i] >= 0
    /\ b.grand = SumFunction(Shown(c, shop)) - SumFunction(LineOff(c)) - Given(c, o)
                   + ShownCharges(c, b, shop) + Added(b.outcomes) + b.roundOff
    /\ b.grand = RowsTotal(b.outcomes, "gst") + RowsTotal(b.outcomes, "outside")
                   + ValueOf(b.outcomes, "exempt") + ValueOf(b.outcomes, "untaxed") + b.roundOff
    /\ shop.rounding # "none" => b.grand % 100 = 0 /\ b.roundOff \in -99..99

\* A split gives the discounts of the bill and of its lines away exactly once.
SplitAdds ==
    LET flat(c) == SumFunction([i \in DOMAIN c |-> IF c[i].off.kind = "amount" THEN c[i].off.of ELSE 0])
        worth == NetOf(cart) + NetOf(away.cart)
    IN stage = "split" =>
         /\ flat(cart) + flat(away.cart) = flat(before.cart)
         /\ worth # 0 => off.of + away.off.of = Given(before.cart, before.off)

\* However a bill is put together and split, its figures agree (bill.rs: "the
\* printed lines always sum to the printed total").
BillTies ==
    BillAdds(cart, off, Bill) /\ BillAdds(away.cart, away.off, BillOf(away.cart, away.off, shop)) /\ SplitAdds

KeptAsDue(kept) ==
    /\ Paid(kept) = Due /\ SumFunction([i \in DOMAIN kept |-> kept[i].tip]) = tip
    /\ \A m \in Tenders \ {"cash"} : PaidIn(kept, m) = PaidIn(payments, m)

\* What the register keeps of the payments is what was due, the tip once, and
\* change comes out of cash only; what is given back comes off the mode it is
\* given back in, and a reopened bill holds no change.
PaymentsTie ==
    /\ stage = "settled" => KeptAsDue(Receipts(payments, Due, tip))
    /\ stage = "reopened" => Paid(payments) <= Due
    /\ \A m \in Tenders : PaidIn(payments, m) + back[m] = taken[m]

InvoiceAdds(i) ==
    /\ SumFunction(i.landed) + i.credit + i.roundOff = i.total
    /\ \A k \in DOMAIN goods : i.taxable[k] >= 0

\* The goods of an invoice carry its whole cost, unless they cost nothing at all;
\* an account's buckets and its statements come to its balance.
BooksTie ==
    /\ SumFunction(NetsOf(goods)) # 0 => InvoiceAdds(InvoiceOf(goods, carriage, shop))
    /\ SumFunction(Buckets(Aged(moves))) = Balance(moves)
    /\ \A from \in {m.day : m \in Range(moves)}, to \in 1..Today :
          from <= to => Closing(moves, from, to) = Owed(moves, 1, to)
=============================================================================
