------------------------------- MODULE BillLife -------------------------------
(***************************************************************************)
(* One bill from its first item to its last refund: the counter's cart and *)
(* its receipts, settling, taking a settled bill back, voiding, returning  *)
(* a closed day's bill, and the day lock around them (src-tauri/src/       *)
(* flows.rs, corrections.rs, correction_draft.rs, refunds.rs, dayclose.rs, *)
(* mb-db settle.rs and repo/).  The counter's commands run one at a time;  *)
(* what makes the bill hard is the length of a legal story, the phones     *)
(* that change an open order behind the cart, and the completion, which    *)
(* takes money, saves it and settles in separate commits.                  *)
(***************************************************************************)
EXTENDS Integers, Sequences, FiniteSetsExt

CONSTANTS
    MaxQty,     \* how much food the order has; a unit of it costs one
    MaxTender,  \* how much cash a bill is paid with, and how much is given back
    MaxReverts, \* how often the bill is taken back
    MaxStrays,  \* how many orders failed completions leave behind
    MaxFaults,  \* how many commits fail, and how often the program stops
    Requests    \* the refund requests the screens make

ASSUME BillLifeAssumption ==
    /\ MaxQty \in Nat /\ MaxTender \in Nat /\ MaxReverts \in Nat
    /\ MaxStrays \in Nat /\ MaxFaults \in Nat /\ IsFiniteSet(Requests)

Tenders == {"cash", "upi"}
Amounts == [Tenders -> 0 .. MaxTender]
None == [m \in Tenders |-> 0]
Sum(p) == p["cash"] + p["upi"]
Plus(p, r) == [m \in Tenders |-> p[m] + r[m]]
Minus(p, r) == [m \in Tenders |-> p[m] - r[m]]
Within(r, p) == \A m \in Tenders : r[m] <= p[m]
Only(m, n) == [None EXCEPT ![m] = n]

VARIABLES
    order,      \* the `orders` row: its state, food, receipts and revision
    rows,       \* the `payments` rows of it, change taken out
    edit,       \* the `order_edits` row: a correction that is not finished
    number,     \* the bill number, 0 for none
    issued,     \* how many bill numbers the counter has claimed
    stock,      \* what the bill has drawn, and the deductions it claimed
    reviews,    \* the `bill_reverts` rows: open, approved or discarded
    returned,   \* the day of the full return, 0 for none
    refunds,    \* the `refunds` rows of each request
    days,       \* today, the closed days with the figures they froze, and the lock
    cart,       \* the counter's memory
    step,       \* how far a completion has come
    hand,       \* the money of this bill that is really in the shop
    lost,       \* money that was in memory only when the program stopped
    strays,     \* the open orders failed completions left behind, and their receipts
    faults

books == <<order, rows, edit, number, issued, stock, reviews, returned, refunds>>
vars == <<books, days, cart, step, hand, lost, strays, faults>>

Counts == Nat
Account == [qty : Counts, paid : [Tenders -> Counts], rev : Counts]
NoEdit == [qty |-> 0, paid |-> None, rev |-> 0]
Saved(a) == [qty |-> a.qty, paid |-> a.paid]
Empty == [qty |-> 0, paid |-> None]

----------------------------------------------------------------------------
(* The receipts (mb-core payment.rs): change comes out of the cash.        *)

Change(q, p) == IF Sum(p) > q THEN Sum(p) - q ELSE 0
Balance(q, p) == IF q > Sum(p) THEN q - Sum(p) ELSE 0
(* No change out of a machine, and nothing left to pay.                    *)
Valid(q, p) == p["upi"] <= q /\ Balance(q, p) = 0
Receipts(q, p) == [p EXCEPT !["cash"] = @ - Change(q, p)]

(* `find_working`: the draft of a correction, or the order itself.         *)
Editing == edit.rev > 0
Working == IF Editing THEN edit ELSE [qty |-> order.qty, paid |-> order.paid, rev |-> order.rev]
WorkingIsOpen == Editing \/ order.state = "open"

(* `SettledOrder::reopen`: change already handed back is no advance.       *)
Reopened == [qty |-> order.qty, paid |-> Receipts(order.qty, order.paid), rev |-> order.rev + 1]

Refunded == [m \in Tenders |-> SumFunction([r \in Requests |-> refunds[r][m]])]

\* Mutant: what was already given back is forgotten.
RefundableAgain == rows
(* `refundable_payments`: by tender, what was taken and not given back.    *)
Refundable == Minus(rows, Refunded)

(* `DaysRepo::is_locked`, and the question most roads ask, `day_refusal`,   *)
(* which a shop that does not close its days answers with no.              *)
Frozen(d) == d \in DOMAIN days.frozen
Locked(d) == days.closes /\ Frozen(d)
(* `DaysRepo::figures`: the sales of a day and the cash they brought.      *)
Figures(d) ==
    LET sold == d = 1 /\ order.state = "settled"
        back == d = returned
    IN [net |-> (IF sold THEN order.qty ELSE 0) - (IF back THEN order.qty ELSE 0),
        cash |-> (IF sold THEN rows["cash"] ELSE 0) - (IF back THEN rows["cash"] ELSE 0)]

----------------------------------------------------------------------------
(* The counter's cart.  A conflicting change keeps every command out until *)
(* the cashier undoes it or reloads.                                       *)

NoCart == [kind |-> "none", qty |-> 0, paid |-> None, was |-> Empty]
NewCart == [NoCart EXCEPT !.kind = "new"]
Loaded(a) == [kind |-> "loaded", qty |-> a.qty, paid |-> a.paid, was |-> Saved(a)]
Unsaved == Minus(cart.paid, cart.was.paid)
Unchanged == [qty |-> cart.qty, paid |-> cart.paid] = cart.was

Idle == step.at = "idle"
NoStep == [at |-> "idle", ret |-> None]

(* `refresh_open_cart`, with `merge_order_core`.                           *)
Conflict == cart.kind = "loaded" /\
    IF WorkingIsOpen
    THEN Working.qty # cart.was.qty /\ cart.qty # cart.was.qty
    ELSE ~Unchanged
Refreshed ==
    IF cart.kind # "loaded" THEN cart
    ELSE IF ~WorkingIsOpen THEN NoCart
    ELSE [cart EXCEPT !.qty = IF Working.qty = cart.was.qty THEN @ ELSE Working.qty,
                      !.was = Saved(Working)]

(* `save_working` of the cart: the draft of a correction, or the order     *)
(* with its receipts.                                                      *)
Save(c) ==
    IF Editing
    THEN /\ edit' = [edit EXCEPT !.qty = c.qty, !.paid = c.paid]
         /\ UNCHANGED <<order, rows>>
    ELSE /\ order' = [order EXCEPT !.qty = c.qty, !.paid = c.paid]
         /\ rows' = c.paid
         /\ UNCHANGED edit
Adopted(c) == [c EXCEPT !.kind = "loaded", !.was = Saved(c)]

Fault == faults < MaxFaults /\ faults' = faults + 1

(* Items go on and come off in memory.                                     *)
SetQty(q) ==
    /\ Idle /\ cart.kind # "none" /\ q # cart.qty
    /\ cart' = [cart EXCEPT !.qty = q]
    /\ UNCHANGED <<books, days, step, hand, lost, strays, faults>>

(* The cash box: what it had before and is not saved is handed back.       *)
CashGiven(n) ==
    /\ Idle /\ cart.kind # "none"
    /\ LET given == Plus(cart.was.paid, Only("cash", n))
       IN /\ given # cart.paid /\ given["cash"] <= MaxTender
          /\ cart' = [cart EXCEPT !.paid = given]
          /\ hand' = Plus(Minus(hand, Unsaved), Only("cash", n))
    /\ UNCHANGED <<books, days, step, lost, strays, faults>>

(* A kitchen ticket or a printed bill parks the cart; so does leaving it.  *)
Park ==
    /\ Idle /\ cart.kind # "none" /\ ~Conflict /\ ~Locked(1)
    /\ LET c == Refreshed
       IN IF cart.kind = "new"
          THEN /\ order.state = "none" /\ c.qty > 0
               /\ order' = [state |-> "open", qty |-> c.qty, paid |-> c.paid, rev |-> 0]
               /\ rows' = c.paid /\ edit' = edit
               /\ cart' = Adopted(c)
          ELSE /\ WorkingIsOpen /\ Save(c)
               /\ cart' \in {Adopted(c), NoCart}
    /\ UNCHANGED <<number, issued, stock, reviews, returned, refunds,
                   days, step, hand, lost, strays, faults>>

(* `reload_current_order_on`: receipts that are not saved keep it out.     *)
Reload ==
    /\ Idle /\ cart.kind = "loaded" /\ cart.paid = cart.was.paid
    /\ cart' = IF WorkingIsOpen THEN Loaded(Working) ELSE NoCart
    /\ cart' # cart
    /\ UNCHANGED <<books, days, step, hand, lost, strays, faults>>

Load ==
    /\ Idle /\ cart.kind = "none" /\ WorkingIsOpen
    /\ cart' = Loaded(Working)
    /\ UNCHANGED <<books, days, step, hand, lost, strays, faults>>

----------------------------------------------------------------------------
(* Completing the bill. *)

(* A corrected bill gives back exactly what it took too much; any other    *)
(* hands its change out of the drawer.                                     *)
ReturnIsDue(c, ret) ==
    /\ Within(ret, c.paid)
    /\ Sum(ret) = IF Editing THEN Change(c.qty, c.paid) ELSE 0

(* A cart that was parked before is parked again, then the balance is      *)
(* taken by the tender of the button.                                      *)
CompleteStart(m, ret) ==
    /\ Idle /\ cart.kind # "none" /\ ~Conflict
    /\ LET c == Refreshed
           due == Balance(c.qty, c.paid)
       IN /\ c.kind # "none" /\ c.qty > 0
          /\ ReturnIsDue(c, ret)
          /\ hand' = Plus(hand, Only(m, due))
          /\ step' = [at |-> IF due > 0 THEN "taken" ELSE "ready", ret |-> ret]
          /\ IF c.kind = "loaded"
             THEN /\ ~Locked(1) /\ Save(c)
                  /\ cart' = [Adopted(c) EXCEPT !.paid = Plus(@, Only(m, due))]
             ELSE /\ UNCHANGED <<order, rows, edit>>
                  /\ cart' = [c EXCEPT !.paid = Plus(@, Only(m, due))]
    /\ UNCHANGED <<number, issued, stock, reviews, returned, refunds, days, lost, strays, faults>>

(* "Retain the receipt in the working draft": parked with the money, or    *)
(* the command ends here and the money is in memory.                       *)
CompletePark ==
    /\ step.at = "taken"
    /\ \/ /\ step' = [step EXCEPT !.at = "ready"]
          /\ IF cart.kind = "loaded"
             THEN Save(cart) /\ cart' = Adopted(cart)
             ELSE UNCHANGED <<order, rows, edit, cart>>
          /\ UNCHANGED faults
       \/ /\ cart.kind = "loaded" /\ Fault
          /\ step' = NoStep
          /\ UNCHANGED <<order, rows, edit, cart>>
    /\ UNCHANGED <<number, issued, stock, reviews, returned, refunds, days, hand, lost, strays>>

(* `deduct_for_bill`: each revision deducts once, after the last is        *)
(* reversed.                                                               *)
\* Mutant: the event's key leaves the revision out.
StockKeyOfOrder(rev) == 0
StockKey(rev) == rev
Deducted(q, rev) ==
    LET before == IF rev > 0 THEN 0 ELSE stock.drawn
    IN IF StockKey(rev) \in stock.claimed THEN [stock EXCEPT !.drawn = before]
       ELSE [drawn |-> before + q, claimed |-> stock.claimed \cup {StockKey(rev)}]

(* The settlement: the number, the receipts, the stock, the end of the     *)
(* correction and the owner's signature in one commit.                     *)
Settle ==
    LET paid == Minus(cart.paid, step.ret)
        rev == IF Editing THEN edit.rev ELSE 0
    IN /\ step.at = "ready"
       /\ ~Locked(1) /\ Valid(cart.qty, paid)
       /\ order' = [state |-> "settled", qty |-> cart.qty, paid |-> paid, rev |-> rev]
       /\ rows' = Receipts(cart.qty, paid)
       /\ number' = IF number = 0 THEN issued + 1 ELSE number
       /\ issued' = IF number = 0 THEN issued + 1 ELSE issued
       /\ stock' = Deducted(cart.qty, rev)
       /\ edit' = NoEdit
       /\ \/ UNCHANGED reviews
          \/ Editing /\ reviews' = [reviews EXCEPT ![Len(reviews)] = "approved"]
       /\ hand' = Minus(Minus(hand, step.ret), Only("cash", Change(cart.qty, paid)))
       /\ cart' = NoCart /\ step' = NoStep
       /\ UNCHANGED <<returned, refunds, days, lost, strays, faults>>

\* Mutant: the number is claimed outside the settlement.
SettleFailsNumbered ==
    /\ step.at = "ready" /\ (Locked(1) \/ ~Valid(cart.qty, cart.paid) \/ Fault)
    /\ faults' \in {faults, faults + 1}
    /\ issued' = IF number = 0 THEN issued + 1 ELSE issued
    /\ step' = NoStep
    /\ UNCHANGED <<order, rows, edit, number, stock, reviews, returned, refunds, days, cart, hand, lost, strays>>

(* `open_draft`: the order of a new cart, with its receipts, is committed  *)
(* before the settlement, and the cart does not learn its name.            *)
LeavesBehind ==
    /\ strays.open < MaxStrays
    /\ strays' = [open |-> strays.open + 1, paid |-> Plus(strays.paid, cart.paid)]

(* A closed day, receipts that do not fit, or a commit that fails: nothing *)
(* of the settlement is kept.  The order a new cart opened before it is,   *)
(* unless it was that commit which failed.                                 *)
SettleFails ==
    /\ step.at = "ready"
    /\ \/ Locked(1) /\ UNCHANGED <<strays, faults>>
       \/ /\ ~Locked(1)
          /\ \/ ~Valid(cart.qty, Minus(cart.paid, step.ret)) /\ UNCHANGED faults
             \/ Fault
          /\ IF cart.kind = "new" THEN LeavesBehind ELSE UNCHANGED strays
       \/ cart.kind = "new" /\ ~Locked(1) /\ Fault /\ UNCHANGED strays
    /\ step' = NoStep
    /\ UNCHANGED <<books, days, cart, hand, lost>>

----------------------------------------------------------------------------
(* Taking a settled bill back. *)

(* `revert_bill_on`: the issued sale stays as it is, the draft goes to the *)
(* counter.                                                                *)
Revert ==
    /\ Idle /\ cart.kind = "none"
    /\ order.state = "settled" /\ ~Editing /\ returned = 0 /\ ~Locked(1)
    /\ Len(reviews) < MaxReverts
    /\ edit' = Reopened
    /\ reviews' = Append(reviews, "open")
    /\ cart' = Loaded(Reopened)
    /\ UNCHANGED <<order, rows, number, issued, stock, returned, refunds,
                   days, step, hand, lost, strays, faults>>

\* Mutant: receipts recorded during the correction are not looked at.
DiscardAnyMoney ==
    /\ Idle /\ cart.kind = "loaded" /\ Editing /\ order.state = "settled"
    /\ edit' = NoEdit
    /\ reviews' = [reviews EXCEPT ![Len(reviews)] = "discarded"]
    /\ cart' = NoCart
    /\ UNCHANGED <<order, rows, number, issued, stock, returned, refunds,
                   days, step, hand, lost, strays, faults>>

(* `discard_on`: only a draft that has the issued bill's receipts.         *)
Discard ==
    /\ Idle /\ cart.kind = "loaded" /\ Editing /\ order.state = "settled"
    /\ cart.paid = Reopened.paid /\ edit.paid = Reopened.paid
    /\ edit' = NoEdit
    /\ reviews' = IF reviews[Len(reviews)] = "approved" THEN reviews
                  ELSE [reviews EXCEPT ![Len(reviews)] = "discarded"]
    /\ cart' = NoCart
    /\ UNCHANGED <<order, rows, number, issued, stock, returned, refunds,
                   days, step, hand, lost, strays, faults>>

(* `approve_revert_on`: the last one only when it is finished.             *)
Approve(i) ==
    /\ Idle /\ reviews[i] = "open"
    /\ order.state = "settled" /\ returned = 0
    /\ ~(Editing /\ i = Len(reviews))
    /\ reviews' = [reviews EXCEPT ![i] = "approved"]
    /\ UNCHANGED <<order, rows, edit, number, issued, stock, returned, refunds,
                   days, cart, step, hand, lost, strays, faults>>

----------------------------------------------------------------------------
(* Voiding, cancelling and giving money back. *)

(* The money a commit records as given back is handed over, once.          *)
HandedOver == Minus([m \in Tenders |-> hand[m] + Refunded[m]], Refunded')

(* `record`: a request that was recorded is answered again when it is the  *)
(* same one; any other must fit the tender it goes back by.                *)
Record(req, ret) ==
    IF refunds[req] # None
    THEN refunds[req] = ret /\ UNCHANGED refunds
    ELSE /\ Within(ret, Refundable)
         /\ refunds' = [refunds EXCEPT ![req] = ret]

\* Mutant: the day's lock is not asked.
VoidAnyDay ==
    /\ Idle /\ order.state = "settled" /\ returned = 0 /\ ~Editing
    /\ order' = [order EXCEPT !.state = "voided"]
    /\ stock' = [stock EXCEPT !.drawn = 0]
    /\ UNCHANGED <<rows, edit, number, issued, reviews, returned, refunds,
                   days, cart, step, hand, lost, strays, faults>>

(* A sale that should not have been: the stock goes back, the money when   *)
(* it is asked for.  Both voids look at the row of the day itself.         *)
VoidSale ==
    /\ Idle /\ order.state = "settled" /\ returned = 0 /\ ~Editing /\ ~Frozen(1)
    /\ order' = [order EXCEPT !.state = "voided"]
    /\ stock' = [stock EXCEPT !.drawn = 0]
    /\ UNCHANGED <<rows, edit, number, issued, reviews, returned, refunds,
                   days, cart, step, hand, lost, strays, faults>>

(* Food that was eaten and paid back: the stock stays drawn.  A correction *)
(* that took every item off ends here, and the cash box is cleared.        *)
VoidAndReturn(req, ret) ==
    /\ Idle /\ order.state = "settled" /\ returned = 0
    /\ Editing => edit.qty = 0 /\ edit.paid = Reopened.paid
    /\ ~Frozen(1) /\ ~Frozen(days.today)
    /\ refunds[req] = None
    /\ Record(req, ret)
    /\ order' = [order EXCEPT !.state = "voided"]
    /\ edit' = NoEdit
    /\ cart' = IF cart.kind = "loaded" THEN NoCart ELSE cart
    /\ hand' = Minus(HandedOver, Unsaved)
    /\ UNCHANGED <<rows, number, issued, stock, reviews, returned, days, step, lost, strays, faults>>

(* `refund_batch_with_id_on`.                                              *)
Refund(req, ret) ==
    /\ Idle /\ (order.state = "voided" \/ returned # 0)
    /\ ret # None /\ ~Locked(days.today)
    /\ Record(req, ret) /\ hand' = HandedOver
    /\ UNCHANGED <<order, rows, edit, number, issued, stock, reviews, returned,
                   days, cart, step, lost, strays, faults>>

(* `return_closed_bill_on`: a sale of a closed earlier day, given back     *)
(* today; the bill stays.                                                  *)
ReturnClosed(req, ret) ==
    /\ Idle /\ order.state = "settled" /\ returned = 0 /\ ~Editing
    /\ days.today > 1 /\ Frozen(1) /\ ~Frozen(days.today)
    /\ returned' = days.today
    /\ Record(req, ret) /\ hand' = HandedOver
    /\ UNCHANGED <<order, rows, edit, number, issued, stock, reviews,
                   days, cart, step, lost, strays, faults>>

(* `cancel_order_on`: not an order with receipts.                          *)
CounterCancel ==
    /\ Idle /\ order.state = "open" /\ order.paid = None /\ ~Locked(1)
    /\ order' = [order EXCEPT !.state = "cancelled"] /\ rows' = None
    /\ UNCHANGED <<edit, number, issued, stock, reviews, returned, refunds,
                   days, cart, step, hand, lost, strays, faults>>

(* A phone waits for the counter's command to end, and leaves an order     *)
(* that is being corrected alone.                                          *)
PhoneSetQty(q) ==
    /\ Idle /\ order.state = "open" /\ q # order.qty
    /\ order' = [order EXCEPT !.qty = q]
    /\ UNCHANGED <<rows, edit, number, issued, stock, reviews, returned, refunds,
                   days, cart, step, hand, lost, strays, faults>>

(* A cancelled order keeps no `payments` rows, and the phone does not ask  *)
(* whether it had any.                                                     *)
PhoneCancel ==
    /\ Idle /\ order.state = "open"
    /\ order' = [order EXCEPT !.state = "cancelled"] /\ rows' = None
    /\ UNCHANGED <<edit, number, issued, stock, reviews, returned, refunds,
                   days, cart, step, hand, lost, strays, faults>>

----------------------------------------------------------------------------
(* The days, and the end of the program. *)

(* The order was made on day 1; the first day ends once it is on disk.     *)
Midnight ==
    /\ Idle /\ days.today = 1 /\ order.state # "none"
    /\ days' = [days EXCEPT !.today = 2]
    /\ UNCHANGED <<books, cart, step, hand, lost, strays, faults>>

(* `close_one`: no order of the day is open, nor being corrected.          *)
CloseDay(d) ==
    /\ Idle /\ days.closes /\ d <= days.today /\ ~Frozen(d)
    /\ d = 1 => order.state # "open" /\ ~Editing /\ strays.open = 0
    /\ days' = [days EXCEPT !.frozen =
                  [x \in DOMAIN @ \cup {d} |-> IF x = d THEN Figures(d) ELSE @[x]]]
    /\ UNCHANGED <<books, cart, step, hand, lost, strays, faults>>

ReopenDay(d) ==
    /\ Idle /\ Locked(d)
    /\ days' = [days EXCEPT !.frozen = [x \in DOMAIN @ \ {d} |-> @[x]],
                            !.lapsed = @ \ {d}]
    /\ UNCHANGED <<books, cart, step, hand, lost, strays, faults>>

(* The owner switches "Day open/close": the closed days stay as they are,  *)
(* and their lock lapses.                                                  *)
SwitchClosing ==
    /\ Idle
    /\ days' = [days EXCEPT !.closes = ~@,
                            !.lapsed = IF days.closes THEN DOMAIN days.frozen ELSE @]
    /\ UNCHANGED <<books, cart, step, hand, lost, strays, faults>>

(* What was in memory only is gone.                                        *)
Stop ==
    /\ cart.kind # "none" \/ ~Idle
    /\ Fault
    /\ lost' = Plus(lost, Unsaved)
    /\ cart' = IF order.state = "none" THEN NewCart ELSE NoCart
    /\ step' = NoStep
    /\ UNCHANGED <<books, days, hand, strays>>

Init ==
    /\ order = [state |-> "none", qty |-> 0, paid |-> None, rev |-> 0]
    /\ rows = None /\ edit = NoEdit /\ number = 0 /\ issued = 0
    /\ stock = [drawn |-> 0, claimed |-> {}]
    /\ reviews = <<>> /\ returned = 0
    /\ refunds = [r \in Requests |-> None]
    /\ days = [today |-> 1, frozen |-> [d \in {} |-> [net |-> 0, cash |-> 0]],
               closes |-> TRUE, lapsed |-> {}]
    /\ cart = NewCart /\ step = NoStep
    /\ hand = None /\ lost = None /\ strays = [open |-> 0, paid |-> None] /\ faults = 0

Counter ==
    \/ \E q \in 0 .. MaxQty : SetQty(q)
    \/ \E n \in 0 .. MaxTender : CashGiven(n)
    \/ Park \/ Reload \/ Load
    \/ \E m \in Tenders, ret \in Amounts : CompleteStart(m, ret)
    \/ CompletePark \/ Settle \/ SettleFails
    \/ Revert \/ Discard \/ (\E i \in DOMAIN reviews : Approve(i))

GiveBack ==
    \/ VoidSale \/ CounterCancel
    \/ \E req \in Requests, ret \in Amounts :
         VoidAndReturn(req, ret) \/ Refund(req, ret) \/ ReturnClosed(req, ret)

Phone == PhoneCancel \/ \E q \in 0 .. MaxQty : PhoneSetQty(q)

Days == Midnight \/ SwitchClosing \/ \E d \in {1, 2} : CloseDay(d) \/ ReopenDay(d)

Next == Counter \/ GiveBack \/ Phone \/ Days \/ Stop

Spec == Init /\ [][Next]_vars
----------------------------------------------------------------------------
(* Type invariant of the bill's state.                                     *)
TypeOK ==
    /\ order \in [state : {"none", "open", "settled", "voided", "cancelled"},
                  qty : Nat, paid : [Tenders -> Nat], rev : Nat]
    /\ rows \in [Tenders -> Nat] /\ edit \in Account
    /\ number \in Nat /\ issued \in Nat
    /\ stock.drawn \in Nat /\ stock.claimed \in SUBSET Nat
    /\ reviews \in Seq({"open", "approved", "discarded"}) /\ returned \in 0 .. 2
    /\ refunds \in [Requests -> [Tenders -> Nat]]
    /\ days.today \in {1, 2} /\ DOMAIN days.frozen \in SUBSET {1, 2}
    /\ days.closes \in BOOLEAN /\ days.lapsed \subseteq DOMAIN days.frozen
    /\ cart \in [kind : {"none", "new", "loaded"}, qty : Nat, paid : [Tenders -> Nat],
                 was : [qty : Nat, paid : [Tenders -> Nat]]]
    /\ step \in [at : {"idle", "taken", "ready"}, ret : [Tenders -> Nat]]
    /\ hand \in [Tenders -> Int] /\ lost \in [Tenders -> Nat]
    /\ strays \in [open : Nat, paid : [Tenders -> Nat]] /\ faults \in 0 .. MaxFaults

(* "Payments ... already performed are never silently thrown away": the    *)
(* money in the shop is never more than its books and the counter say,     *)
(* tender by tender, through every correction, failed completion and       *)
(* return, and never less either, as long as no failed completion left an  *)
(* order behind: that one has the receipts of the cart, and the next press *)
(* writes them a second time.  A stop loses what was in memory only.       *)
Recorded ==
    IF Editing THEN edit.paid
    ELSE CASE order.state = "none" -> None
           [] order.state = "open" -> order.paid
           [] OTHER -> rows
Said == [m \in Tenders |-> Recorded[m] - Refunded[m] + strays.paid[m] + Unsaved[m] + lost[m]]
MoneyIsAccounted ==
    order.state # "cancelled" =>
        /\ Within(hand, Said)
        /\ strays.open = 0 => hand = Said

(* No tender gives back more than it took.                                 *)
NeverGivesBackMore == Within(Refunded, rows)

(* The ingredients follow the bill that is issued now, never two of its    *)
(* revisions; a void puts them back, a return does not.                    *)
StockFollowsTheBill ==
    CASE order.state = "settled" -> stock.drawn = order.qty
      [] order.state = "voided"  -> stock.drawn \in {0, order.qty}
      [] OTHER                   -> stock.drawn = 0

(* A closed day still says what it froze, until somebody opens it again:   *)
(* by every road to a bill, most of which ask the lock and some the row    *)
(* itself.  The exception is a day that was closed when the shop stopped   *)
(* closing its days: then nobody asks, and a bill of it can be corrected.  *)
ClosedDayTies == \A d \in DOMAIN days.frozen \ days.lapsed : days.frozen[d] = Figures(d)

(* The bill book has no hole, and a number never moves.                    *)
NoHoleInTheBook ==
    [][/\ issued' - issued = (IF number' # number THEN 1 ELSE 0)
       /\ number # 0 => number' = number]_<<issued, number>>

===============================================================================
