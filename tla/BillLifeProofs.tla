--------------------------- MODULE BillLifeProofs ---------------------------
(***************************************************************************)
(* The bill book has no hole, the stock follows the bill, a closed day     *)
(* keeps its figures and the money of the bill is accounted for, for every *)
(* amount, every number of corrections and any faults.                     *)
(***************************************************************************)
EXTENDS BillLife, MoneyProofs

Purse == [Tenders -> Int]
Order == [state : {"none", "open", "settled", "voided", "cancelled"},
          qty : Nat, paid : Purse, rev : Nat]
Draft == [qty : Nat, paid : Purse, rev : Nat]
SavedAs == [qty : Nat, paid : Purse]
Cart == [kind : {"none", "new", "loaded"}, qty : Nat, paid : Purse, was : SavedAs]

Typed ==
    /\ order \in Order /\ edit \in Draft /\ rows \in Purse /\ cart \in Cart
    /\ number \in Nat /\ issued \in Nat
    /\ stock \in [drawn : Nat, claimed : SUBSET Nat]
    /\ step \in [at : {"idle", "taken", "ready"}, ret : Purse]
    /\ returned \in {0, 2} /\ days.today \in {1, 2}
    /\ days = [today |-> days.today, frozen |-> days.frozen,
               closes |-> days.closes, lapsed |-> days.lapsed]
    /\ DOMAIN days.frozen \subseteq {1, 2} /\ days.lapsed \subseteq DOMAIN days.frozen
    /\ days.closes \in BOOLEAN /\ (days.closes \/ days.lapsed = DOMAIN days.frozen)

(* A correction is of a settled bill and is its next revision; no revision *)
(* to come has drawn stock; what is returned stays settled.                *)
Story ==
    /\ Editing => order.state = "settled" /\ edit.rev = order.rev + 1 /\ returned = 0
    /\ cart.kind = "new" => order.state = "none"
    /\ step.at # "idle" => cart.kind = "new" \/ (cart.kind = "loaded" /\ WorkingIsOpen)
    /\ order.state \in {"none", "open", "cancelled"} => stock.claimed = {}
    /\ \A k \in stock.claimed : k <= order.rev
    /\ returned # 0 => order.state = "settled"

Inv == Typed /\ Story /\ StockFollowsTheBill /\ ClosedDayTies

(* Money is added and taken tender by tender.                              *)
LEMMA Purses ==
    /\ None \in Purse
    /\ \A m \in Tenders, n \in Int : Only(m, n) \in Purse
    /\ \A p, r \in Purse : Plus(p, r) \in Purse /\ Minus(p, r) \in Purse /\ Sum(p) \in Int
<1>1. "cash" \in Tenders /\ "upi" \in Tenders
  BY DEF Tenders
<1>. QED  BY <1>1 DEF None, Only, Plus, Minus, Purse, Sum

(* What is left to pay and what is given back are amounts.                 *)
LEMMA Amount ==
    ASSUME NEW q \in Nat, NEW p \in Purse
    PROVE Change(q, p) \in Nat /\ Balance(q, p) \in Nat /\ Receipts(q, p) \in Purse
<1>1. Sum(p) \in Int
  BY Purses
<1>2. Change(q, p) \in Nat /\ Balance(q, p) \in Nat
  BY <1>1 DEF Change, Balance
<1>. QED  BY <1>2 DEF Receipts, Purse, Tenders

(* The working order, the refreshed cart and a cart just saved are typed.  *)
LEMMA Carts ==
    ASSUME Typed
    PROVE /\ Working \in Draft
          /\ Saved(Working) \in SavedAs
          /\ Loaded(Working) \in Cart /\ Loaded(Working).kind = "loaded"
          /\ NoCart \in Cart /\ NoCart.kind = "none"
          /\ NewCart \in Cart /\ NewCart.kind = "new"
          /\ \A c \in Cart : Adopted(c) \in Cart /\ Adopted(c).kind = "loaded" /\ Adopted(c).qty = c.qty
<1>1. Working \in Draft
  BY DEF Typed, Working, Draft, Order
<1>2. Saved(Working) \in SavedAs
  BY <1>1 DEF Saved, SavedAs, Draft
<1>3. Loaded(Working) \in Cart /\ Loaded(Working).kind = "loaded"
  BY <1>1, <1>2 DEF Loaded, Cart, Draft
<1>4. NoCart \in Cart /\ NoCart.kind = "none" /\ NewCart \in Cart /\ NewCart.kind = "new"
  BY Purses DEF NoCart, NewCart, Cart, SavedAs, Empty
<1>5. \A c \in Cart : Adopted(c) \in Cart /\ Adopted(c).kind = "loaded" /\ Adopted(c).qty = c.qty
  BY DEF Adopted, Cart, Saved, SavedAs
<1>. QED  BY <1>1, <1>2, <1>3, <1>4, <1>5

(* Refreshing keeps a new cart new and a loaded one that is still open.    *)
LEMMA Refreshes ==
    ASSUME Typed
    PROVE /\ Refreshed \in Cart
          /\ Refreshed.kind = "new" <=> cart.kind = "new"
          /\ Refreshed.kind = "loaded" => cart.kind = "loaded" /\ WorkingIsOpen
<1>1. CASE cart.kind # "loaded"
  BY <1>1 DEF Refreshed, Typed
<1>2. CASE cart.kind = "loaded" /\ ~WorkingIsOpen
  BY <1>2, Carts DEF Refreshed
<1>3. CASE cart.kind = "loaded" /\ WorkingIsOpen
  <2>. DEFINE q == IF Working.qty = cart.was.qty THEN cart.qty ELSE Working.qty
  <2>1. Refreshed = [cart EXCEPT !.qty = q, !.was = Saved(Working)]
    BY <1>3 DEF Refreshed
  <2>2. q \in Nat /\ Saved(Working) \in SavedAs /\ cart \in Cart
    BY Carts DEF Typed, Cart, Draft
  <2>. HIDE DEF q
  <2>. QED  BY <1>3, <2>1, <2>2 DEF Cart
<1>. QED  BY <1>1, <1>2, <1>3

(* Saving writes the draft of a correction, or the open order.             *)
LEMMA Saves ==
    ASSUME Typed, NEW c \in Cart, Save(c)
    PROVE /\ order' \in Order /\ edit' \in Draft /\ rows' \in Purse
          /\ order'.state = order.state /\ order'.rev = order.rev /\ edit'.rev = edit.rev
          /\ Editing => order' = order /\ rows' = rows
<1>1. c.qty \in Nat /\ c.paid \in Purse /\ order \in Order /\ edit \in Draft /\ rows \in Purse
  BY DEF Typed, Cart
<1>2. CASE Editing
  <2>1. edit' = [edit EXCEPT !.qty = c.qty, !.paid = c.paid] /\ order' = order /\ rows' = rows
    BY <1>2 DEF Save
  <2>. QED  BY <1>1, <1>2, <2>1 DEF Draft
<1>3. CASE ~Editing
  <2>1. order' = [order EXCEPT !.qty = c.qty, !.paid = c.paid] /\ rows' = c.paid /\ edit' = edit
    BY <1>3 DEF Save
  <2>. QED  BY <1>1, <1>3, <2>1 DEF Order
<1>. QED  BY <1>2, <1>3

(* A step that leaves the sale, its stock and the days alone.              *)
Quiet ==
    /\ stock' = stock /\ returned' = returned /\ days' = days
    /\ order'.state = order.state /\ order'.rev = order.rev /\ edit'.rev = edit.rev
    /\ order.state \in {"settled", "voided"} => order'.qty = order.qty /\ rows' = rows
    /\ cart'.kind = "new" => cart.kind = "new"
    /\ step'.at # "idle" => cart'.kind = "new" \/ (cart'.kind = "loaded" /\ WorkingIsOpen)

(* Whoever asks the lock, or the row, leaves the days that are not lapsed  *)
(* alone.                                                                  *)
LEMMA Unlocked ==
    ASSUME Typed, NEW d, ~Locked(d) \/ ~Frozen(d)
    PROVE d \notin DOMAIN days.frozen \ days.lapsed
BY DEF Typed, Locked, Frozen

(* Figures are of the sale and of what was returned of it.                 *)
LEMMA SameFigures ==
    ASSUME Inv, order'.state = order.state, returned' = returned,
           order.state = "settled" => order'.qty = order.qty /\ rows' = rows,
           NEW d \in {1, 2}
    PROVE Figures(d)' = Figures(d)
<1>1. CASE order.state = "settled"
  BY <1>1 DEF Figures
<1>2. CASE order.state # "settled" /\ d # returned
  BY <1>2 DEF Figures
<1>3. CASE order.state # "settled" /\ d = returned
  BY <1>3 DEF Figures, Inv, Story, Typed
<1>. QED  BY <1>1, <1>2, <1>3

(* Such a step changes nothing the invariant speaks of.                    *)
LEMMA QuietKeeps ==
    ASSUME Inv, Quiet, Typed'
    PROVE Inv'
<1>1. Editing' = Editing /\ WorkingIsOpen' = WorkingIsOpen
  BY DEF Quiet, Editing, WorkingIsOpen
<1>2. Story'
  BY <1>1 DEF Inv, Story, Quiet
<1>3. StockFollowsTheBill'
  BY DEF Inv, StockFollowsTheBill, Quiet, Typed, Order
<1>4. \A d \in {1, 2} : Figures(d)' = Figures(d)
  BY SameFigures DEF Quiet
<1>5. ClosedDayTies'
  BY <1>4 DEF Inv, ClosedDayTies, Quiet, Typed
<1>. QED  BY <1>2, <1>3, <1>5 DEF Inv

(* A shop opens a counter on an order that is not there yet.               *)
THEOREM InvInit == Init => Inv
<1>. SUFFICES ASSUME Init PROVE Inv
  OBVIOUS
<1>. USE DEF Init
<1>1. order \in Order /\ edit \in Draft /\ rows \in Purse /\ cart \in Cart
  BY Purses, Carts DEF Order, Draft, NoEdit, NewCart, NoCart, Cart, SavedAs, Empty
<1>2. step \in [at : {"idle", "taken", "ready"}, ret : Purse] /\ step.at = "idle"
  BY Purses DEF NoStep
<1>3. stock \in [drawn : Nat, claimed : SUBSET Nat] /\ DOMAIN days.frozen = {}
  OBVIOUS
<1>4. Typed
  BY <1>1, <1>2, <1>3 DEF Typed
<1>5. ~Editing
  BY DEF Editing, NoEdit
<1>6. Story /\ StockFollowsTheBill /\ ClosedDayTies
  BY <1>2, <1>3, <1>5 DEF Story, StockFollowsTheBill, ClosedDayTies
<1>. QED  BY <1>4, <1>6 DEF Inv

(* The counter's cart, a phone and the stop of the program.                *)
LEMMA QuietSteps ==
    ASSUME Inv,
           \/ (\E q \in 0 .. MaxQty : SetQty(q) \/ PhoneSetQty(q))
           \/ (\E n \in 0 .. MaxTender : CashGiven(n))
           \/ Reload \/ Load \/ SettleFails \/ Stop
           \/ (\E i \in DOMAIN reviews : Approve(i))
           \/ (\E req \in Requests, ret \in Amounts : Refund(req, ret))
           \/ UNCHANGED vars
    PROVE Inv'
<1>. USE BillLifeAssumption DEF Inv, Idle, books
<1>1. ASSUME NEW q \in 0 .. MaxQty, SetQty(q) PROVE Inv'
  <2>1. cart' \in Cart /\ cart'.kind = cart.kind
    BY <1>1 DEF SetQty, Typed, Cart
  <2>. QED  BY <1>1, <2>1, QuietKeeps DEF SetQty, Quiet, Typed
<1>2. ASSUME NEW q \in 0 .. MaxQty, PhoneSetQty(q) PROVE Inv'
  <2>1. order' \in Order /\ order'.state = order.state /\ order'.rev = order.rev
    BY <1>2 DEF PhoneSetQty, Typed, Order
  <2>. QED  BY <1>2, <2>1, QuietKeeps DEF PhoneSetQty, Quiet, Typed
<1>3. ASSUME NEW n \in 0 .. MaxTender, CashGiven(n) PROVE Inv'
  <2>1. cart' = [cart EXCEPT !.paid = Plus(cart.was.paid, Only("cash", n))] /\ cart \in Cart
    BY <1>3 DEF CashGiven, Typed
  <2>2. Only("cash", n) \in Purse /\ cart.was.paid \in Purse
    BY <2>1, Purses DEF Tenders, Cart, SavedAs
  <2>3. Plus(cart.was.paid, Only("cash", n)) \in Purse
    BY <2>2, Purses
  <2>4. cart' \in Cart /\ cart'.kind = cart.kind
    BY <2>1, <2>3 DEF Cart
  <2>. QED  BY <1>3, <2>4, QuietKeeps DEF CashGiven, Quiet, Typed
<1>4. CASE Reload \/ Load
  <2>1. cart' \in Cart /\ cart'.kind \in {"none", "loaded"}
    BY <1>4, Carts DEF Reload, Load
  <2>. QED  BY <1>4, <2>1, QuietKeeps DEF Reload, Load, Quiet, Typed
<1>5. CASE SettleFails
  <2>1. step' \in [at : {"idle", "taken", "ready"}, ret : Purse] /\ step'.at = "idle"
    BY <1>5, Purses DEF SettleFails, NoStep
  <2>. QED  BY <1>5, <2>1, QuietKeeps DEF SettleFails, Quiet, Typed
<1>6. CASE Stop
  <2>1. step' \in [at : {"idle", "taken", "ready"}, ret : Purse] /\ step'.at = "idle"
    BY <1>6, Purses DEF Stop, NoStep
  <2>2. cart' \in Cart /\ (cart'.kind = "new" => order.state = "none")
    BY <1>6, Carts DEF Stop
  <2>3. Typed'
    BY <1>6, <2>1, <2>2 DEF Stop, Typed
  <2>. QED  BY <1>6, <2>1, <2>2, <2>3 DEF Stop, Story, StockFollowsTheBill, ClosedDayTies,
                                         Figures, Editing, WorkingIsOpen
<1>7. ASSUME NEW i, Approve(i) PROVE Inv'
  BY <1>7, QuietKeeps DEF Approve, Quiet, Typed
<1>8. ASSUME NEW req, NEW ret, Refund(req, ret) PROVE Inv'
  BY <1>8, QuietKeeps DEF Refund, Quiet, Typed
<1>9. CASE UNCHANGED vars
  BY <1>9, QuietKeeps DEF vars, Quiet, Typed, Story
<1>. QED  BY <1>1, <1>2, <1>3, <1>4, <1>5, <1>6, <1>7, <1>8, <1>9

(* Parking and completing: what is saved is the order that is open or the  *)
(* draft of its correction.                                                *)
LEMMA SavingSteps ==
    ASSUME Inv,
           \/ Park \/ CompletePark
           \/ (\E m \in Tenders, ret \in Amounts : CompleteStart(m, ret))
    PROVE Inv'
<1>. USE DEF Inv, Idle
<1>1. ASSUME NEW c \in Cart, Save(c), Typed', WorkingIsOpen,
             stock' = stock, returned' = returned, days' = days,
             cart'.kind = "new" => cart.kind = "new",
             step'.at # "idle" => cart'.kind = "new" \/ (cart'.kind = "loaded" /\ WorkingIsOpen)
      PROVE Inv'
  <2>1. /\ order'.state = order.state /\ order'.rev = order.rev /\ edit'.rev = edit.rev
        /\ Editing => order' = order /\ rows' = rows
    BY <1>1, Saves
  <2>2. order.state \in {"settled", "voided"} => Editing
    BY <1>1 DEF WorkingIsOpen
  <2>. QED  BY <1>1, <2>1, <2>2, QuietKeeps DEF Quiet
<1>2. ASSUME Park, cart.kind = "new" PROVE Inv'
  <2>1. Refreshed \in Cart /\ Refreshed.qty \in Nat /\ Refreshed.paid \in Purse
    BY Refreshes DEF Cart
  <2>2. /\ order' = [state |-> "open", qty |-> Refreshed.qty, paid |-> Refreshed.paid, rev |-> 0]
        /\ rows' = Refreshed.paid /\ cart' = Adopted(Refreshed) /\ order.state = "none" /\ edit' = edit
    BY <1>2 DEF Park
  <2>3. /\ order' \in Order /\ order'.state = "open"
        /\ rows' \in Purse /\ cart' \in Cart /\ cart'.kind = "loaded"
    BY <2>1, <2>2, Carts DEF Order
  <2>4. Typed'
    BY <1>2, <2>2, <2>3 DEF Park, Typed
  <2>5. ~Editing /\ ~Editing' /\ returned = 0 /\ stock.claimed = {} /\ stock.drawn = 0
    BY <2>2 DEF Story, Editing, StockFollowsTheBill
  <2>6. Story' /\ StockFollowsTheBill'
    BY <1>2, <2>3, <2>5 DEF Park, Story, StockFollowsTheBill
  <2>7. \A d \in {1, 2} : Figures(d)' = Figures(d)
    BY <1>2, <2>2, <2>3, <2>5 DEF Park, Figures
  <2>. QED  BY <1>2, <2>4, <2>6, <2>7 DEF Park, ClosedDayTies, Typed
<1>3. ASSUME Park, cart.kind # "new" PROVE Inv'
  <2>1. Save(Refreshed) /\ WorkingIsOpen /\ cart' \in {Adopted(Refreshed), NoCart} /\ Refreshed \in Cart
    BY <1>3, Refreshes DEF Park
  <2>2. cart' \in Cart /\ cart'.kind \in {"loaded", "none"}
    BY <2>1, Carts
  <2>3. Typed'
    BY <1>3, <2>1, <2>2, Saves DEF Park, Typed
  <2>. QED  BY <1>1, <1>3, <2>1, <2>2, <2>3 DEF Park
<1>4. ASSUME CompletePark, step' = [step EXCEPT !.at = "ready"],
             cart.kind = "loaded", Save(cart), cart' = Adopted(cart)
      PROVE Inv'
  <2>1. cart \in Cart /\ cart' \in Cart /\ cart'.kind = "loaded"
    BY <1>4, Carts DEF Typed
  <2>2. step' \in [at : {"idle", "taken", "ready"}, ret : Purse] /\ step.at # "idle" /\ WorkingIsOpen
    BY <1>4 DEF CompletePark, Typed, Story
  <2>3. Typed'
    BY <1>4, <2>1, <2>2, Saves DEF CompletePark, Typed
  <2>. QED  BY <1>1, <1>4, <2>1, <2>2, <2>3 DEF CompletePark
<1>5. ASSUME CompletePark, UNCHANGED <<order, rows, edit, cart>> PROVE Inv'
  <2>1. step' \in [at : {"idle", "taken", "ready"}, ret : Purse] /\ step.at # "idle"
    BY <1>5, Purses DEF CompletePark, Typed, NoStep
  <2>2. Typed'
    BY <1>5, <2>1 DEF CompletePark, Typed
  <2>. QED  BY <1>5, <2>1, <2>2, QuietKeeps DEF CompletePark, Quiet, Story
<1>6. ASSUME NEW m \in Tenders, NEW ret \in Amounts, CompleteStart(m, ret) PROVE Inv'
  <2>. DEFINE c == Refreshed
              due == Balance(c.qty, c.paid)
  <2>1. /\ c \in Cart /\ c.kind # "none" /\ c.qty \in Nat /\ c.paid \in Purse
        /\ c.kind = "new" => cart.kind = "new"
        /\ c.kind = "loaded" => WorkingIsOpen
    BY <1>6, Refreshes DEF CompleteStart, Cart
  <2>2. Only(m, due) \in Purse /\ ret \in Purse /\ due \in Nat
    <3>1. due \in Nat
      BY <2>1, Amount
    <3>2. ret \in Purse
      BY DEF Amounts, Purse
    <3>. QED  BY <3>1, <3>2, Purses
  <2>3. /\ step' = [at |-> IF due > 0 THEN "taken" ELSE "ready", ret |-> ret]
        /\ stock' = stock /\ returned' = returned /\ days' = days /\ number' = number /\ issued' = issued
    BY <1>6 DEF CompleteStart
  <2>4. step' \in [at : {"idle", "taken", "ready"}, ret : Purse]
    BY <2>2, <2>3
  <2>5. CASE c.kind = "loaded"
    <3>1. Save(c) /\ cart' = [Adopted(c) EXCEPT !.paid = Plus(Adopted(c).paid, Only(m, due))]
      BY <1>6, <2>5 DEF CompleteStart
    <3>2. Adopted(c) \in Cart /\ Adopted(c).kind = "loaded" /\ Adopted(c).paid \in Purse
      BY <2>1, Carts DEF Cart
    <3>3. Plus(Adopted(c).paid, Only(m, due)) \in Purse
      BY <2>2, <3>2, Purses
    <3>. HIDE DEF c, due
    <3>4. cart' \in Cart /\ cart'.kind = "loaded"
      BY <3>1, <3>2, <3>3 DEF Cart
    <3>5. Typed'
      BY <2>1, <2>3, <2>4, <3>1, <3>4, Saves DEF Typed
    <3>. QED  BY <1>1, <2>1, <2>3, <2>5, <3>1, <3>4, <3>5
  <2>6. CASE c.kind # "loaded"
    <3>1. UNCHANGED <<order, rows, edit>> /\ cart' = [c EXCEPT !.paid = Plus(c.paid, Only(m, due))]
      BY <1>6, <2>6 DEF CompleteStart
    <3>2. Plus(c.paid, Only(m, due)) \in Purse
      BY <2>1, <2>2, Purses
    <3>3. c.kind = "new"
      BY <2>1, <2>6 DEF Cart
    <3>. HIDE DEF c, due
    <3>4. cart' \in Cart /\ cart'.kind = "new"
      BY <2>1, <3>1, <3>2, <3>3 DEF Cart
    <3>5. Typed'
      BY <2>3, <2>4, <3>1, <3>4 DEF Typed
    <3>. QED  BY <2>1, <2>3, <3>1, <3>3, <3>4, <3>5, QuietKeeps DEF Quiet
  <2>. QED  BY <2>5, <2>6
<1>7. CompletePark =>
        \/ UNCHANGED <<order, rows, edit, cart>>
        \/ step' = [step EXCEPT !.at = "ready"] /\ cart.kind = "loaded" /\ Save(cart) /\ cart' = Adopted(cart)
  BY DEF CompletePark
<1>. QED  BY <1>2, <1>3, <1>4, <1>5, <1>6, <1>7

(* The settlement draws the stock of the revision it issues, once.         *)
LEMMA Settles ==
    ASSUME Inv, Settle
    PROVE Inv'
<1>. USE DEF Inv
<1>. DEFINE paid == Minus(cart.paid, step.ret)
            rev == IF Editing THEN edit.rev ELSE 0
<1>1. cart.qty \in Nat /\ cart.paid \in Purse /\ step.ret \in Purse /\ rev \in Nat
  BY DEF Typed, Cart, Draft
<1>2. paid \in Purse /\ Receipts(cart.qty, paid) \in Purse
  BY <1>1, Purses, Amount
<1>3. /\ order' = [state |-> "settled", qty |-> cart.qty, paid |-> paid, rev |-> rev]
      /\ rows' = Receipts(cart.qty, paid) /\ stock' = Deducted(cart.qty, rev)
      /\ edit' = NoEdit /\ cart' = NoCart /\ step' = NoStep
      /\ returned' = returned /\ days' = days
      /\ step.at = "ready" /\ ~Locked(1)
      /\ number' \in {number, issued + 1} /\ issued' \in {issued, issued + 1}
  BY DEF Settle
<1>. HIDE DEF paid
<1>4. order' \in Order /\ edit' \in Draft /\ edit'.rev = 0
  BY <1>1, <1>2, <1>3, Purses DEF Order, NoEdit, Draft
<1>5. rev \notin stock.claimed /\ (rev = 0 => stock.drawn = 0)
      /\ (\A k \in stock.claimed : k <= rev) /\ returned = 0
  <2>1. CASE Editing
    BY <1>1, <2>1, <1>3 DEF Story, Editing, Typed, Order, Draft
  <2>2. CASE ~Editing
    <3>1. order.state \in {"none", "open"}
      BY <1>3, <2>2 DEF Story, WorkingIsOpen
    <3>. QED  BY <2>2, <3>1 DEF Story, StockFollowsTheBill
  <2>. QED  BY <2>1, <2>2
<1>. HIDE DEF rev
<1>6. /\ stock'.drawn = cart.qty /\ stock'.claimed = stock.claimed \cup {rev}
      /\ stock' \in [drawn : Nat, claimed : SUBSET Nat]
  BY <1>1, <1>3, <1>5 DEF Deducted, StockKey, Typed
<1>7. Typed'
  BY <1>2, <1>3, <1>4, <1>6, Purses, Carts DEF Typed, NoStep
<1>8. ~Editing'
  BY <1>4 DEF Editing
<1>9. order'.state = "settled" /\ order'.rev = rev /\ order'.qty = cart.qty
  BY <1>3
<1>10. Story' /\ StockFollowsTheBill'
  BY <1>1, <1>3, <1>5, <1>6, <1>8, <1>9, Carts DEF Story, StockFollowsTheBill, NoStep
<1>11. Figures(2)' = Figures(2)
  BY <1>3, <1>5 DEF Figures
<1>12. ClosedDayTies'
  BY <1>3, <1>11, Unlocked DEF ClosedDayTies, Typed
<1>. QED  BY <1>7, <1>10, <1>12

(* Taking a bill back makes its next revision; discarding that keeps the   *)
(* issued one.                                                             *)
LEMMA CorrectionSteps ==
    ASSUME Inv, Revert \/ Discard
    PROVE Inv'
<1>. USE DEF Inv, Idle
<1>1. ASSUME Revert PROVE Inv'
  <2>1. /\ order.state = "settled" /\ returned = 0 /\ step.at = "idle"
        /\ edit' = Reopened /\ cart' = Loaded(Reopened)
        /\ order' = order /\ rows' = rows /\ stock' = stock /\ number' = number /\ issued' = issued
        /\ returned' = returned /\ days' = days /\ step' = step
    BY <1>1 DEF Revert
  <2>2. order.qty \in Nat /\ order.paid \in Purse /\ order.rev \in Nat
    BY DEF Typed, Order
  <2>3. Receipts(order.qty, order.paid) \in Purse
    BY <2>2, Amount
  <2>4. Reopened \in Draft /\ Reopened.rev = order.rev + 1
    BY <2>2, <2>3 DEF Reopened, Draft
  <2>5. Loaded(Reopened) \in Cart /\ Loaded(Reopened).kind = "loaded"
    BY <2>4 DEF Loaded, Saved, Cart, SavedAs, Draft
  <2>6. Typed'
    BY <2>1, <2>4, <2>5 DEF Typed
  <2>7. Story'
    BY <2>1, <2>4, <2>5 DEF Story
  <2>8. StockFollowsTheBill' /\ ClosedDayTies'
    BY <2>1 DEF StockFollowsTheBill, ClosedDayTies, Figures
  <2>. QED  BY <2>6, <2>7, <2>8
<1>2. ASSUME Discard PROVE Inv'
  <2>1. /\ order.state = "settled" /\ step.at = "idle"
        /\ edit' = NoEdit /\ cart' = NoCart
        /\ order' = order /\ rows' = rows /\ stock' = stock /\ number' = number /\ issued' = issued
        /\ returned' = returned /\ days' = days /\ step' = step
    BY <1>2 DEF Discard
  <2>2. NoEdit \in Draft /\ NoEdit.rev = 0
    BY Purses DEF NoEdit, Draft
  <2>3. Typed'
    BY <2>1, <2>2, Carts DEF Typed
  <2>4. ~Editing'
    BY <2>1, <2>2 DEF Editing
  <2>5. Story'
    BY <2>1, <2>4, Carts DEF Story
  <2>6. StockFollowsTheBill' /\ ClosedDayTies'
    BY <2>1 DEF StockFollowsTheBill, ClosedDayTies, Figures
  <2>. QED  BY <2>3, <2>5, <2>6
<1>. QED  BY <1>1, <1>2

(* A void is of a bill whose day is open and that was not returned.        *)
LEMMA VoidSteps ==
    ASSUME Inv,
           \/ VoidSale
           \/ (\E req \in Requests, ret \in Amounts : VoidAndReturn(req, ret))
    PROVE Inv'
<1>. USE DEF Inv, Idle
<1>1. ASSUME order.state = "settled", returned = 0, ~Frozen(1), step.at = "idle",
             order' = [order EXCEPT !.state = "voided"],
             edit' \in Draft, edit'.rev = 0, rows' = rows, cart' \in Cart,
             cart'.kind # "new" \/ cart' = cart,
             stock' \in [drawn : Nat, claimed : SUBSET Nat], stock'.claimed = stock.claimed,
             stock'.drawn \in {0, stock.drawn},
             number' = number, issued' = issued, returned' = returned, days' = days, step' = step
      PROVE Inv'
  <2>1. order' \in Order /\ order'.state = "voided" /\ order'.qty = order.qty /\ order'.rev = order.rev
    BY <1>1 DEF Typed, Order
  <2>2. Typed'
    BY <1>1, <2>1 DEF Typed
  <2>3. ~Editing'
    BY <1>1 DEF Editing
  <2>4. Story'
    BY <1>1, <2>1, <2>3 DEF Story
  <2>5. StockFollowsTheBill'
    BY <1>1, <2>1 DEF StockFollowsTheBill
  <2>6. Figures(2)' = Figures(2)
    BY <1>1 DEF Figures
  <2>7. ClosedDayTies'
    BY <1>1, <2>6, Unlocked DEF ClosedDayTies, Typed
  <2>. QED  BY <2>2, <2>4, <2>5, <2>7
<1>2. ASSUME VoidSale PROVE Inv'
  <2>1. edit \in Draft /\ edit.rev = 0 /\ cart \in Cart
    BY <1>2 DEF VoidSale, Editing, Typed, Draft
  <2>2. /\ stock' \in [drawn : Nat, claimed : SUBSET Nat]
        /\ stock'.claimed = stock.claimed /\ stock'.drawn = 0
    BY <1>2 DEF VoidSale, Typed
  <2>. QED  BY <1>1, <1>2, <2>1, <2>2 DEF VoidSale
<1>3. ASSUME NEW req \in Requests, NEW ret \in Amounts, VoidAndReturn(req, ret) PROVE Inv'
  <2>1. edit' = NoEdit /\ edit' \in Draft /\ edit'.rev = 0
    BY <1>3, Purses DEF VoidAndReturn, NoEdit, Draft
  <2>2. cart' \in Cart /\ (cart'.kind # "new" \/ cart' = cart)
    BY <1>3, Carts DEF VoidAndReturn, Typed
  <2>3. stock' = stock /\ stock \in [drawn : Nat, claimed : SUBSET Nat]
    BY <1>3 DEF VoidAndReturn, Typed
  <2>. QED  BY <1>1, <1>3, <2>1, <2>2, <2>3 DEF VoidAndReturn
<1>. QED  BY <1>2, <1>3

(* A cancelled order never drew stock and never made a sale.               *)
LEMMA CancelSteps ==
    ASSUME Inv, CounterCancel \/ PhoneCancel
    PROVE Inv'
<1>. USE DEF Inv, Idle
<1>1. /\ order.state = "open" /\ order' = [order EXCEPT !.state = "cancelled"] /\ rows' = None
      /\ step.at = "idle" /\ edit' = edit /\ stock' = stock /\ number' = number /\ issued' = issued
      /\ returned' = returned /\ days' = days /\ step' = step /\ cart' = cart
  BY DEF CounterCancel, PhoneCancel
<1>2. order' \in Order /\ order'.state = "cancelled" /\ order'.qty = order.qty /\ order'.rev = order.rev
  BY <1>1 DEF Typed, Order
<1>3. Typed'
  BY <1>1, <1>2, Purses DEF Typed
<1>4. ~Editing /\ ~Editing' /\ returned = 0 /\ cart.kind # "new"
  BY <1>1 DEF Story, Editing
<1>5. Story' /\ StockFollowsTheBill'
  BY <1>1, <1>2, <1>4 DEF Story, StockFollowsTheBill
<1>6. \A d \in {1, 2} : Figures(d)' = Figures(d)
  BY <1>1, <1>2, <1>4 DEF Figures
<1>7. ClosedDayTies'
  BY <1>1, <1>6 DEF ClosedDayTies, Typed
<1>. QED  BY <1>3, <1>5, <1>7

(* A closed day's bill is given back on a day that is still open.          *)
LEMMA ReturnSteps ==
    ASSUME Inv, NEW req \in Requests, NEW ret \in Amounts, ReturnClosed(req, ret)
    PROVE Inv'
<1>. USE DEF Inv, Idle
<1>1. /\ order.state = "settled" /\ returned = 0 /\ ~Editing /\ step.at = "idle"
      /\ returned' = days.today /\ days.today > 1 /\ ~Frozen(days.today)
      /\ order' = order /\ rows' = rows /\ edit' = edit /\ stock' = stock /\ number' = number
      /\ issued' = issued /\ days' = days /\ step' = step /\ cart' = cart
  BY DEF ReturnClosed
<1>2. days.today = 2 /\ returned' = 2
  BY <1>1 DEF Typed
<1>3. Typed'
  BY <1>1, <1>2 DEF Typed
<1>4. ~Editing'
  BY <1>1 DEF Editing
<1>5. Story' /\ StockFollowsTheBill'
  BY <1>1, <1>4 DEF Story, StockFollowsTheBill
<1>6. Figures(1)' = Figures(1)
  BY <1>1, <1>2 DEF Figures
<1>7. ClosedDayTies'
  BY <1>1, <1>2, <1>6, Unlocked DEF ClosedDayTies, Typed
<1>. QED  BY <1>3, <1>5, <1>7

(* Closing a day freezes what the books say of it now.                     *)
LEMMA DaySteps ==
    ASSUME Inv, Midnight \/ SwitchClosing \/ (\E d \in {1, 2} : CloseDay(d) \/ ReopenDay(d))
    PROVE Inv'
<1>. USE DEF Inv, Idle, books
<1>1. ASSUME UNCHANGED <<books, cart, step>>, days'.today \in {1, 2},
             days' = [today |-> days'.today, frozen |-> days'.frozen,
                      closes |-> days'.closes, lapsed |-> days'.lapsed],
             DOMAIN days'.frozen \subseteq {1, 2}, days'.lapsed \subseteq DOMAIN days'.frozen,
             days'.closes \in BOOLEAN, days'.closes \/ days'.lapsed = DOMAIN days'.frozen,
             \A x \in DOMAIN days'.frozen \ days'.lapsed : days'.frozen[x] = Figures(x)
      PROVE Inv'
  <2>1. Typed'
    BY <1>1 DEF Typed
  <2>2. Story' /\ StockFollowsTheBill'
    BY <1>1 DEF Story, StockFollowsTheBill, Editing, WorkingIsOpen
  <2>3. \A x : Figures(x)' = Figures(x)
    BY <1>1 DEF Figures
  <2>4. ClosedDayTies'
    BY <1>1, <2>3 DEF ClosedDayTies
  <2>. QED  BY <2>1, <2>2, <2>4
<1>2. /\ days = [today |-> days.today, frozen |-> days.frozen,
                 closes |-> days.closes, lapsed |-> days.lapsed]
      /\ days.today \in {1, 2} /\ days.closes \in BOOLEAN
      /\ DOMAIN days.frozen \subseteq {1, 2} /\ days.lapsed \subseteq DOMAIN days.frozen
      /\ days.closes \/ days.lapsed = DOMAIN days.frozen
      /\ \A x \in DOMAIN days.frozen \ days.lapsed : days.frozen[x] = Figures(x)
  BY DEF Typed, ClosedDayTies
<1>3. ASSUME Midnight PROVE Inv'
  <2>1. days' = [today |-> 2, frozen |-> days.frozen, closes |-> days.closes, lapsed |-> days.lapsed]
    BY <1>2, <1>3 DEF Midnight
  <2>. QED  BY <1>1, <1>2, <1>3, <2>1 DEF Midnight
<1>4. ASSUME NEW d \in {1, 2}, CloseDay(d) PROVE Inv'
  <2>. DEFINE all == DOMAIN days.frozen \cup {d}
              f == [x \in all |-> IF x = d THEN Figures(d) ELSE days.frozen[x]]
  <2>1. days' = [days EXCEPT !.frozen = f] /\ days.closes
    BY <1>4 DEF CloseDay
  <2>2. all \subseteq {1, 2} /\ DOMAIN f = all /\ days.lapsed \subseteq all
    BY <1>2
  <2>3. \A x \in all \ days.lapsed : f[x] = Figures(x)
    BY <1>2
  <2>. HIDE DEF f, all
  <2>4. days' = [today |-> days.today, frozen |-> f, closes |-> days.closes, lapsed |-> days.lapsed]
    BY <1>2, <2>1
  <2>. QED  BY <1>1, <1>2, <1>4, <2>1, <2>2, <2>3, <2>4 DEF CloseDay
<1>5. ASSUME NEW d \in {1, 2}, ReopenDay(d) PROVE Inv'
  <2>. DEFINE all == DOMAIN days.frozen \ {d}
              f == [x \in all |-> days.frozen[x]]
              old == days.lapsed \ {d}
  <2>1. days' = [days EXCEPT !.frozen = f, !.lapsed = old] /\ days.closes
    BY <1>5 DEF ReopenDay, Locked
  <2>2. all \subseteq {1, 2} /\ DOMAIN f = all /\ old \subseteq all
    BY <1>2
  <2>3. \A x \in all \ old : f[x] = Figures(x)
    BY <1>2
  <2>. HIDE DEF f, all, old
  <2>4. days' = [today |-> days.today, frozen |-> f, closes |-> days.closes, lapsed |-> old]
    BY <1>2, <2>1
  <2>. QED  BY <1>1, <1>2, <1>5, <2>1, <2>2, <2>3, <2>4 DEF ReopenDay
<1>6. ASSUME SwitchClosing PROVE Inv'
  <2>. DEFINE old == IF days.closes THEN DOMAIN days.frozen ELSE days.lapsed
  <2>1. days' = [today |-> days.today, frozen |-> days.frozen, closes |-> ~days.closes, lapsed |-> old]
    BY <1>2, <1>6 DEF SwitchClosing
  <2>2. /\ old \subseteq DOMAIN days.frozen /\ (~days.closes) \in BOOLEAN
        /\ (~days.closes) \/ old = DOMAIN days.frozen
        /\ \A x \in DOMAIN days.frozen \ old : days.frozen[x] = Figures(x)
    BY <1>2
  <2>. HIDE DEF old
  <2>. QED  BY <1>1, <1>2, <1>6, <2>1, <2>2 DEF SwitchClosing
<1>. QED  BY <1>3, <1>4, <1>5, <1>6

(* Every command, of the counter, a phone or the owner, keeps the          *)
(* invariant.                                                              *)
THEOREM InvStep == Inv /\ [Next]_vars => Inv'
<1>. SUFFICES ASSUME Inv, [Next]_vars PROVE Inv'
  OBVIOUS
<1>1. CASE Counter
  BY <1>1, QuietSteps, SavingSteps, Settles, CorrectionSteps DEF Counter
<1>2. CASE GiveBack
  BY <1>2, QuietSteps, VoidSteps, CancelSteps, ReturnSteps DEF GiveBack
<1>3. CASE Phone
  BY <1>3, QuietSteps, CancelSteps DEF Phone
<1>4. CASE Days
  BY <1>4, DaySteps DEF Days
<1>5. CASE Stop \/ UNCHANGED vars
  BY <1>5, QuietSteps
<1>. QED  BY <1>1, <1>2, <1>3, <1>4, <1>5 DEF Next

(* The invariant holds of every state the counter comes to.                *)
THEOREM InvHolds == Spec => []Inv
BY InvInit, InvStep, PTL DEF Spec

(* The stock follows the bill issued now, through every correction, void   *)
(* and return.                                                             *)
THEOREM StockHolds == Spec => []StockFollowsTheBill
<1>1. Inv => StockFollowsTheBill
  BY DEF Inv
<1>. QED  BY <1>1, InvHolds, PTL

(* A closed day keeps the figures it froze, unless the shop stopped        *)
(* closing its days while it was closed.                                   *)
THEOREM DayHolds == Spec => []ClosedDayTies
<1>1. Inv => ClosedDayTies
  BY DEF Inv
<1>. QED  BY <1>1, InvHolds, PTL

(* Only a settlement claims a number, for a bill that has none, and puts   *)
(* the number it claims on that bill.                                      *)
LEMMA NumberSteps ==
    ASSUME Inv, Next, ~Settle
    PROVE issued' = issued /\ number' = number
<1>. USE DEF books
<1>1. CASE Counter
  BY <1>1 DEF Counter, SetQty, CashGiven, Park, Reload, Load, CompleteStart, CompletePark,
              SettleFails, Revert, Discard, Approve
<1>2. CASE GiveBack
  BY <1>2 DEF GiveBack, VoidSale, CounterCancel, VoidAndReturn, Refund, ReturnClosed
<1>3. CASE Phone
  BY <1>3 DEF Phone, PhoneCancel, PhoneSetQty
<1>4. CASE Days
  BY <1>4 DEF Days, Midnight, SwitchClosing, CloseDay, ReopenDay
<1>5. CASE Stop
  BY <1>5 DEF Stop
<1>. QED  BY <1>1, <1>2, <1>3, <1>4, <1>5 DEF Next

(* The bill's number is one that was claimed.                              *)
BookInv == Inv /\ number <= issued

(* No step takes the number out of the claimed ones.                       *)
LEMMA BookStep == BookInv /\ Inv' /\ [Next]_vars => BookInv'
<1>. SUFFICES ASSUME BookInv, Inv', [Next]_vars PROVE BookInv'
  OBVIOUS
<1>1. CASE Settle
  BY <1>1 DEF Settle, BookInv, Inv, Typed
<1>2. CASE UNCHANGED vars
  BY <1>2 DEF vars, books, BookInv
<1>3. CASE Next /\ ~Settle
  BY <1>3, NumberSteps DEF BookInv
<1>. QED  BY <1>1, <1>2, <1>3

(* A counter starts without a number.                                      *)
LEMMA BookInit == Init => BookInv
BY InvInit DEF Init, BookInv

(* The bill book has no hole and a number never moves, whatever fails.     *)
THEOREM BookHolds == Spec => NoHoleInTheBook
<1>. DEFINE A == /\ issued' - issued = (IF number' # number THEN 1 ELSE 0)
                 /\ number # 0 => number' = number
<1>1. ASSUME BookInv, [Next]_vars PROVE [A]_<<issued, number>>
  <2>1. CASE Settle
    BY <1>1, <2>1 DEF Settle, BookInv, Inv, Typed
  <2>2. CASE UNCHANGED vars
    BY <2>2 DEF vars, books
  <2>3. CASE Next /\ ~Settle
    BY <1>1, <2>3, NumberSteps DEF BookInv
  <2>. QED  BY <1>1, <2>1, <2>2, <2>3
<1>2. Spec => []BookInv
  BY BookInit, BookStep, InvHolds, PTL DEF Spec
<1>. QED  BY <1>1, <1>2, PTL DEF Spec, NoHoleInTheBook

----------------------------------------------------------------------------
(* The money. *)

Coins == [Tenders -> Nat]

(* What every tender has taken and given back is counted in coins, and a   *)
(* completion gives back no more than the cart was paid.                   *)
Counted ==
    /\ order.paid \in Coins /\ edit.paid \in Coins /\ rows \in Coins
    /\ cart.paid \in Coins /\ cart.was.paid \in Coins /\ step.ret \in Coins
    /\ hand \in Purse /\ lost \in Purse /\ refunds \in [Requests -> Coins]
    /\ step.at # "idle" => Within(step.ret, cart.paid)

(* The cart knows the receipts that are saved: nobody else takes money for *)
(* the order.  Those of an issued bill have their change taken out, and    *)
(* nothing is given back before the bill is voided or returned.            *)
Kept ==
    /\ cart.kind = "none" => cart.was.paid = cart.paid
    /\ cart.kind = "new" => cart.was.paid = None
    /\ cart.kind = "loaded" /\ WorkingIsOpen => cart.was.paid = Working.paid
    /\ order.state \in {"settled", "voided"} => rows = Receipts(order.qty, order.paid)
    /\ (\E r \in Requests : refunds[r] # None) => order.state = "voided" \/ returned # 0

(* The money of the bill itself, tender by tender.                         *)
Accounted ==
    order.state # "cancelled" =>
        \A m \in Tenders : hand[m] = Recorded[m] - Refunded[m] + Unsaved[m] + lost[m]

(* What failed completions left behind is counted in coins.                *)
Behind ==
    /\ strays.open \in Nat /\ strays.paid \in Coins
    /\ strays.open = 0 => strays.paid = None

MoneyInv == Counted /\ Kept /\ Accounted /\ NeverGivesBackMore

(* What requests have given back, by tender.                               *)
Given(given) == [m \in Tenders |-> SumFunction([r \in Requests |-> given[r][m]])]

(* It is an amount, nothing for nobody, and grows by what one request      *)
(* that had nothing gets.                                                  *)
LEMMA GivenAddsUp ==
    ASSUME NEW given \in [Requests -> Coins]
    PROVE /\ Given(given) \in Coins
          /\ (\A r \in Requests : given[r] = None) => Given(given) = None
          /\ \A req \in Requests, ret \in Coins, m \in Tenders :
                given[req] = None =>
                    Given([given EXCEPT ![req] = ret])[m] = Given(given)[m] + ret[m]
<1>. DEFINE f(m) == [r \in Requests |-> given[r][m]]
<1>1. IsFiniteSet(Requests)
  BY BillLifeAssumption
<1>2. ASSUME NEW m \in Tenders
      PROVE /\ Given(given)[m] = SumFunctionOnSet(f(m), Requests)
            /\ \A r \in Requests : f(m)[r] \in Nat
            /\ Given(given)[m] \in Nat
  <2>1. Given(given)[m] = SumFunctionOnSet(f(m), Requests)
    BY DEF Given, SumFunction
  <2>2. \A r \in Requests : f(m)[r] \in Nat
    BY DEF Coins
  <2>3. SumFunctionOnSet(f(m), Requests) \in Nat
    <3>. HIDE DEF f
    <3>. QED  BY <1>1, <2>2, SumIsNat
  <2>. QED  BY <2>1, <2>2, <2>3
<1>3. Given(given) \in Coins
  BY <1>2 DEF Given, Coins
<1>4. ASSUME \A r \in Requests : given[r] = None
      PROVE Given(given) = None
  <2>1. ASSUME NEW m \in Tenders PROVE Given(given)[m] = 0
    <3>1. \A r \in Requests : f(m)[r] = 0
      BY <1>4 DEF None
    <3>. HIDE DEF f
    <3>. QED  BY <1>1, <1>2, <3>1, SumOfZeros
  <2>. QED  BY <2>1 DEF Given, None
<1>5. ASSUME NEW req \in Requests, NEW ret \in Coins, NEW m \in Tenders, given[req] = None
      PROVE Given([given EXCEPT ![req] = ret])[m] = Given(given)[m] + ret[m]
  <2>. DEFINE new == [given EXCEPT ![req] = ret]
              g == [r \in Requests |-> new[r][m]]
  <2>1. Given(new)[m] = SumFunctionOnSet(g, Requests)
    BY DEF Given, SumFunction
  <2>2. new \in [Requests -> Coins] /\ new[req] = ret /\ \A r \in Requests \ {req} : new[r] = given[r]
    OBVIOUS
  <2>3. \A r \in Requests : f(m)[r] \in Int /\ g[r] \in Int
    BY <2>2 DEF Coins
  <2>4. \A r \in Requests \ {req} : g[r] = f(m)[r]
    BY <2>2
  <2>5. g[req] = ret[m] /\ f(m)[req] = 0
    BY <1>5, <2>2 DEF None
  <2>. HIDE DEF new, g, f
  <2>6. SumFunctionOnSet(g, Requests) = SumFunctionOnSet(f(m), Requests) + (g[req] - f(m)[req])
    BY <1>1, <2>3, <2>4, SumChanges
  <2>7. ret[m] \in Nat
    BY DEF Coins
  <2>. QED  BY <1>2, <2>1, <2>5, <2>6, <2>7 DEF new
<1>. QED  BY <1>3, <1>4, <1>5

(* What was given back is the sum over the requests.                       *)
LEMMA RefundedIsGiven ==
    Refunded = Given(refunds) /\ Refunded' = Given(refunds')
BY DEF Refunded, Given

(* What the books say the bill took.                                       *)
LEMMA RecordedIs ==
    /\ Editing => Recorded = edit.paid
    /\ WorkingIsOpen => Recorded = Working.paid
    /\ ~Editing /\ order.state = "none" => Recorded = None
    /\ ~Editing /\ order.state \in {"settled", "voided"} => Recorded = rows
BY DEF Recorded, WorkingIsOpen, Working
(* The same of the next state.                                             *)
LEMMA RecordedIsNext ==
    /\ Editing' => Recorded' = edit'.paid
    /\ ~Editing' /\ order'.state = "open" => Recorded' = order'.paid
    /\ ~Editing' /\ order'.state = "none" => Recorded' = None
    /\ ~Editing' /\ order'.state \in {"settled", "voided"} => Recorded' = rows'
BY DEF Recorded

(* Each of them is an amount for every tender.                             *)
LEMMA MoneyTypes ==
    ASSUME Counted
    PROVE Recorded \in Coins /\ Unsaved \in Purse /\ Refunded \in Coins
<1>1. None \in Coins
  BY DEF None, Coins
<1>2. Recorded \in Coins
  BY <1>1 DEF Counted, Recorded
<1>3. Unsaved \in Purse
  BY DEF Counted, Unsaved, Minus, Purse, Coins
<1>. QED  BY <1>2, <1>3, RefundedIsGiven, GivenAddsUp DEF Counted
(* And in the next state.                                                  *)
LEMMA MoneyTypesNext ==
    ASSUME Counted'
    PROVE Recorded' \in Coins /\ Unsaved' \in Purse /\ Refunded' \in Coins
<1>1. None \in Coins
  BY DEF None, Coins
<1>2. Recorded' \in Coins
  BY <1>1 DEF Counted, Recorded
<1>3. Unsaved' \in Purse
  BY DEF Counted, Unsaved, Minus, Purse, Coins
<1>. QED  BY <1>2, <1>3, RefundedIsGiven, GivenAddsUp DEF Counted

(* The money of a cart is what the books have and what it alone knows.     *)
LEMMA CartHolds ==
    ASSUME Inv, MoneyInv, NEW m \in Tenders
    PROVE /\ cart.kind = "none" => Unsaved[m] = 0
          /\ cart.kind = "new" \/ (cart.kind = "loaded" /\ WorkingIsOpen) =>
                Recorded[m] + Unsaved[m] = cart.paid[m]
<1>1. Unsaved[m] = cart.paid[m] - cart.was.paid[m]
  BY DEF Unsaved, Minus
<1>2. cart.paid[m] \in Nat /\ cart.was.paid[m] \in Nat
  BY DEF MoneyInv, Counted, Coins
<1>3. CASE cart.kind = "none"
  BY <1>1, <1>2, <1>3 DEF MoneyInv, Kept
<1>4. CASE cart.kind = "new"
  <2>1. Recorded = None /\ cart.was.paid = None
    BY <1>4, RecordedIs DEF Inv, Story, MoneyInv, Kept
  <2>. QED  BY <1>1, <1>2, <1>4, <2>1 DEF None
<1>5. CASE cart.kind = "loaded" /\ WorkingIsOpen
  <2>1. Recorded = cart.was.paid
    BY <1>5, RecordedIs DEF MoneyInv, Kept
  <2>. QED  BY <1>1, <1>2, <1>5, <2>1
<1>. QED  BY <1>3, <1>4, <1>5

(* The money that came is the money the books and the cart have more, less *)
(* what was given back or lost.                                            *)
LEMMA Accounts ==
    ASSUME MoneyInv, Counted',
           order'.state # "cancelled" => order.state # "cancelled",
           order'.state # "cancelled" => \A m \in Tenders :
               hand'[m] - hand[m] =
                 (Recorded'[m] + Unsaved'[m]) - (Recorded[m] + Unsaved[m])
                   - (Refunded'[m] - Refunded[m]) + (lost'[m] - lost[m])
    PROVE Accounted'
<1>. SUFFICES ASSUME order'.state # "cancelled", NEW m \in Tenders
              PROVE hand'[m] = Recorded'[m] - Refunded'[m] + Unsaved'[m] + lost'[m]
  BY DEF Accounted
<1>1. /\ Recorded[m] \in Int /\ Unsaved[m] \in Int /\ Refunded[m] \in Int
      /\ hand[m] \in Int /\ lost[m] \in Int
  BY MoneyTypes DEF MoneyInv, Counted, Purse, Coins
<1>2. /\ Recorded'[m] \in Int /\ Unsaved'[m] \in Int /\ Refunded'[m] \in Int
      /\ hand'[m] \in Int /\ lost'[m] \in Int
  BY MoneyTypesNext DEF Counted, Purse, Coins
<1>3. hand[m] = Recorded[m] - Refunded[m] + Unsaved[m] + lost[m]
  BY DEF MoneyInv, Accounted
<1>. QED  BY <1>1, <1>2, <1>3

(* Before the bill is voided or returned nothing was given back.           *)
LEMMA NothingBack ==
    ASSUME MoneyInv, order.state # "voided", returned = 0
    PROVE /\ \A r \in Requests : refunds[r] = None
          /\ Refunded = None
          /\ refunds' = refunds /\ rows' \in Coins => NeverGivesBackMore'
<1>1. \A r \in Requests : refunds[r] = None
  BY DEF MoneyInv, Kept
<1>2. Refunded = None
  BY <1>1, RefundedIsGiven, GivenAddsUp DEF MoneyInv, Counted
<1>3. refunds' = refunds => Refunded' = None
  BY <1>2, RefundedIsGiven
<1>4. None \in Coins /\ \A m \in Tenders : None[m] = 0
  BY DEF None, Coins
<1>. QED  BY <1>1, <1>2, <1>3, <1>4 DEF NeverGivesBackMore, Within, Coins

(* Commands that leave the receipts, the refunds and the cart's money.     *)
Still ==
    /\ order'.state = order.state /\ order'.paid = order.paid
    /\ order.state \in {"settled", "voided"} => order'.qty = order.qty
    /\ edit' = edit /\ rows' = rows
    /\ refunds' = refunds /\ returned' = returned /\ hand' = hand /\ lost' = lost
    /\ cart'.paid = cart.paid /\ cart'.was = cart.was /\ cart'.kind = cart.kind
    /\ step'.ret \in Coins /\ (step'.at # "idle" => step' = step)

(* They keep the money.                                                    *)
LEMMA StillKeeps ==
    ASSUME Inv, MoneyInv, Still
    PROVE MoneyInv'
<1>1. Editing' = Editing /\ WorkingIsOpen' = WorkingIsOpen
  BY DEF Still, Editing, WorkingIsOpen
<1>2. Counted'
  BY DEF Still, MoneyInv, Counted
<1>3. Working'.paid = Working.paid
  BY <1>1 DEF Still, Working
<1>4. Kept'
  <2>1. cart'.kind = "loaded" /\ WorkingIsOpen' => cart'.was.paid = Working'.paid
    BY <1>1, <1>3 DEF Still, MoneyInv, Kept
  <2>2. order'.state \in {"settled", "voided"} => rows' = Receipts(order'.qty, order'.paid)
    BY DEF Still, MoneyInv, Kept
  <2>. QED  BY <2>1, <2>2 DEF Still, MoneyInv, Kept
<1>5. Recorded' = Recorded /\ Unsaved' = Unsaved /\ Refunded' = Refunded
  BY <1>1, RefundedIsGiven DEF Still, Recorded, Unsaved
<1>6. Accounted'
  BY <1>5 DEF Still, MoneyInv, Accounted
<1>7. NeverGivesBackMore'
  BY <1>5 DEF Still, MoneyInv, NeverGivesBackMore
<1>. QED  BY <1>2, <1>4, <1>6, <1>7 DEF MoneyInv

(* Such commands: items, phones, signatures, days, a failed settlement.    *)
LEMMA StillSteps ==
    ASSUME Inv, MoneyInv,
           \/ (\E q \in 0 .. MaxQty : SetQty(q) \/ PhoneSetQty(q))
           \/ SettleFails \/ (\E i \in DOMAIN reviews : Approve(i))
           \/ Midnight \/ SwitchClosing \/ (\E d \in {1, 2} : CloseDay(d) \/ ReopenDay(d))
           \/ UNCHANGED vars
    PROVE MoneyInv'
<1>. USE DEF Idle, books
<1>1. step.ret \in Coins /\ NoStep.ret \in Coins /\ NoStep.at = "idle"
  BY DEF MoneyInv, Counted, NoStep, None, Coins
<1>2. ASSUME NEW q \in 0 .. MaxQty, SetQty(q) PROVE MoneyInv'
  <2>1. cart'.paid = cart.paid /\ cart'.was = cart.was /\ cart'.kind = cart.kind
    BY <1>2 DEF SetQty, Inv, Typed, Cart
  <2>. QED  BY <1>1, <1>2, <2>1, StillKeeps DEF SetQty, Still
<1>3. ASSUME NEW q \in 0 .. MaxQty, PhoneSetQty(q) PROVE MoneyInv'
  <2>1. order'.state = order.state /\ order'.paid = order.paid /\ order.state = "open"
    BY <1>3 DEF PhoneSetQty, Inv, Typed, Order
  <2>. QED  BY <1>1, <1>3, <2>1, StillKeeps DEF PhoneSetQty, Still
<1>4. CASE SettleFails
  BY <1>1, <1>4, StillKeeps DEF SettleFails, Still
<1>5. ASSUME NEW i, Approve(i) PROVE MoneyInv'
  BY <1>1, <1>5, StillKeeps DEF Approve, Still
<1>6. CASE Midnight \/ SwitchClosing \/ (\E d \in {1, 2} : CloseDay(d) \/ ReopenDay(d))
  BY <1>1, <1>6, StillKeeps DEF Midnight, SwitchClosing, CloseDay, ReopenDay, Still
<1>7. CASE UNCHANGED vars
  BY <1>1, <1>7, StillKeeps DEF vars, Still
<1>. QED  BY <1>2, <1>3, <1>4, <1>5, <1>6, <1>7

(* Commands of the counter that change its cart alone.                     *)
LEMMA CartSteps ==
    ASSUME Inv, MoneyInv,
           (\E n \in 0 .. MaxTender : CashGiven(n)) \/ Reload \/ Load \/ Stop
    PROVE MoneyInv'
<1>. USE DEF Idle, books
<1>0. None \in Coins /\ NoStep.ret = None /\ NoStep.at = "idle"
  BY DEF None, Coins, NoStep
<1>1. ASSUME UNCHANGED books, Counted',
             cart'.kind = "none" => cart'.was.paid = cart'.paid,
             cart'.kind = "new" => cart'.was.paid = None,
             cart'.kind = "loaded" /\ WorkingIsOpen => cart'.was.paid = Working.paid,
             \A m \in Tenders : hand'[m] - hand[m] = (Unsaved'[m] - Unsaved[m]) + (lost'[m] - lost[m])
      PROVE MoneyInv'
  <2>1. WorkingIsOpen' = WorkingIsOpen /\ Working' = Working /\ Recorded' = Recorded /\ Refunded' = Refunded
    BY <1>1, RefundedIsGiven DEF WorkingIsOpen, Working, Editing, Recorded
  <2>2. Kept'
    BY <1>1, <2>1 DEF MoneyInv, Kept
  <2>3. ASSUME NEW m \in Tenders
        PROVE hand'[m] - hand[m] =
                 (Recorded'[m] + Unsaved'[m]) - (Recorded[m] + Unsaved[m])
                   - (Refunded'[m] - Refunded[m]) + (lost'[m] - lost[m])
    <3>1. Recorded[m] \in Int /\ Unsaved[m] \in Int /\ Refunded[m] \in Int /\ lost[m] \in Int
      BY MoneyTypes DEF MoneyInv, Counted, Purse, Coins
    <3>2. Unsaved'[m] \in Int /\ lost'[m] \in Int
      BY <1>1, MoneyTypesNext DEF Counted, Purse
    <3>. QED  BY <1>1, <2>1, <3>1, <3>2
  <2>4. Accounted'
    BY <1>1, <2>3, Accounts
  <2>5. NeverGivesBackMore'
    BY <1>1, <2>1 DEF MoneyInv, NeverGivesBackMore
  <2>. QED  BY <1>1, <2>2, <2>4, <2>5 DEF MoneyInv
<1>2. ASSUME NEW n \in 0 .. MaxTender, CashGiven(n) PROVE MoneyInv'
  <2>. DEFINE given == Plus(cart.was.paid, Only("cash", n))
  <2>1. cart' = [cart EXCEPT !.paid = given] /\ hand' = Plus(Minus(hand, Unsaved), Only("cash", n))
    BY <1>2 DEF CashGiven
  <2>2. Only("cash", n) \in Coins
    BY BillLifeAssumption DEF Only, None, Coins, Tenders
  <2>3. given \in Coins
    BY <2>2 DEF MoneyInv, Counted, Plus, Coins
  <2>4. cart'.paid = given /\ cart'.was = cart.was /\ cart'.kind = cart.kind
    BY <2>1 DEF Inv, Typed, Cart
  <2>5. hand' \in Purse
    BY <2>1, <2>2, MoneyTypes DEF MoneyInv, Counted, Plus, Minus, Purse, Coins
  <2>6. Counted' /\ cart.kind # "none"
    BY <1>2, <2>3, <2>4, <2>5 DEF CashGiven, MoneyInv, Counted
  <2>7. ASSUME NEW m \in Tenders
        PROVE hand'[m] - hand[m] = (Unsaved'[m] - Unsaved[m]) + (lost'[m] - lost[m])
    <3>1. Unsaved'[m] = (cart.was.paid[m] + Only("cash", n)[m]) - cart.was.paid[m]
      BY <2>4 DEF Unsaved, Minus, Plus
    <3>2. hand'[m] = (hand[m] - Unsaved[m]) + Only("cash", n)[m]
      BY <2>1 DEF Plus, Minus
    <3>3. /\ Unsaved[m] \in Int /\ hand[m] \in Int /\ lost[m] \in Int /\ cart.was.paid[m] \in Int
          /\ Only("cash", n)[m] \in Int /\ lost' = lost
      BY <1>2, <2>2, MoneyTypes DEF CashGiven, MoneyInv, Counted, Purse, Coins
    <3>. QED  BY <3>1, <3>2, <3>3
  <2>. HIDE DEF given
  <2>. QED  BY <1>1, <1>2, <2>4, <2>6, <2>7 DEF CashGiven, MoneyInv, Kept
<1>3. NoCart.kind = "none" /\ NoCart.paid = None /\ NoCart.was.paid = None
      /\ NewCart.kind = "new" /\ NewCart.paid = None /\ NewCart.was.paid = None
  BY DEF NoCart, NewCart, Empty
<1>4. Loaded(Working).kind = "loaded" /\ Loaded(Working).paid = Working.paid
      /\ Loaded(Working).was.paid = Working.paid /\ Working.paid \in Coins
  BY DEF Loaded, Saved, Working, MoneyInv, Counted
<1>5. CASE Reload \/ Load
  <2>1. cart.paid = cart.was.paid
    BY <1>5 DEF Reload, Load, MoneyInv, Kept
  <2>2. cart' = NoCart \/ cart' = Loaded(Working)
    BY <1>5 DEF Reload, Load
  <2>3. cart'.paid = cart'.was.paid /\ cart'.paid \in Coins
        /\ (cart'.kind = "loaded" => cart'.was.paid = Working.paid) /\ cart'.kind # "new"
    BY <1>0, <1>3, <1>4, <2>2
  <2>4. Counted'
    BY <1>5, <2>3 DEF Reload, Load, MoneyInv, Counted
  <2>5. ASSUME NEW m \in Tenders PROVE Unsaved[m] = 0 /\ Unsaved'[m] = 0
    BY <2>1, <2>3 DEF Unsaved, Minus, MoneyInv, Counted, Coins
  <2>6. \A m \in Tenders : hand'[m] - hand[m] = (Unsaved'[m] - Unsaved[m]) + (lost'[m] - lost[m])
    BY <1>5, <2>5 DEF Reload, Load, MoneyInv, Counted, Purse
  <2>. QED  BY <1>1, <1>5, <2>3, <2>4, <2>6 DEF Reload, Load
<1>6. CASE Stop
  <2>1. cart' \in {NoCart, NewCart}
    BY <1>6 DEF Stop
  <2>2. cart'.paid = None /\ cart'.was.paid = None /\ cart'.kind # "loaded"
    BY <1>3, <2>1
  <2>3. lost' = Plus(lost, Unsaved) /\ lost' \in Purse
    BY <1>6, MoneyTypes DEF Stop, MoneyInv, Counted, Plus, Purse
  <2>4. Counted'
    BY <1>0, <1>6, <2>2, <2>3 DEF Stop, MoneyInv, Counted
  <2>5. ASSUME NEW m \in Tenders
        PROVE hand'[m] - hand[m] = (Unsaved'[m] - Unsaved[m]) + (lost'[m] - lost[m])
    <3>1. Unsaved'[m] = 0 /\ lost'[m] = lost[m] + Unsaved[m] /\ hand' = hand
      BY <1>6, <2>2, <2>3 DEF Unsaved, Minus, None, Plus, Stop
    <3>2. Unsaved[m] \in Int /\ lost[m] \in Int /\ hand[m] \in Int
      BY MoneyTypes DEF MoneyInv, Counted, Purse
    <3>. QED  BY <3>1, <3>2
  <2>. QED  BY <1>1, <1>6, <2>2, <2>4, <2>5 DEF Stop
<1>. QED  BY <1>2, <1>5, <1>6

(* What is saved is what the cart was paid.                                *)
LEMMA SavedMoney ==
    ASSUME Inv, MoneyInv, WorkingIsOpen, NEW c \in Cart, c.paid \in Coins, Save(c)
    PROVE /\ order'.state = order.state /\ order'.paid \in Coins
          /\ edit'.paid \in Coins /\ rows' \in Coins
          /\ WorkingIsOpen' /\ Working'.paid = c.paid /\ Recorded' = c.paid
          /\ order.state \in {"settled", "voided"} => order' = order /\ rows' = rows
<1>1. order' \in Order /\ edit' \in Draft /\ order'.state = order.state /\ edit'.rev = edit.rev
      /\ (Editing => order' = order /\ rows' = rows)
  BY Saves DEF Inv
<1>2. CASE Editing
  <2>1. edit' = [edit EXCEPT !.qty = c.qty, !.paid = c.paid] /\ order' = order /\ rows' = rows
    BY <1>2 DEF Save
  <2>2. edit'.paid = c.paid /\ Editing'
    BY <1>1, <1>2, <2>1 DEF Inv, Typed, Draft, Editing
  <2>. QED  BY <1>1, <1>2, <2>1, <2>2, RecordedIsNext DEF MoneyInv, Counted, WorkingIsOpen, Working
<1>3. CASE ~Editing
  <2>1. order' = [order EXCEPT !.qty = c.qty, !.paid = c.paid] /\ rows' = c.paid /\ edit' = edit
    BY <1>3 DEF Save
  <2>2. order'.paid = c.paid /\ ~Editing' /\ order.state = "open"
    BY <1>1, <1>3, <2>1 DEF Inv, Typed, Order, Editing, WorkingIsOpen
  <2>. QED  BY <1>1, <1>3, <2>1, <2>2, RecordedIsNext DEF MoneyInv, Counted, WorkingIsOpen, Working
<1>. QED  BY <1>2, <1>3

(* A refreshed cart has the money it had, and an adopted one is saved.     *)
LEMMA CartMoney ==
    ASSUME Inv, MoneyInv
    PROVE /\ Refreshed.kind # "none" => Refreshed.paid = cart.paid /\ Refreshed.was.paid = cart.was.paid
          /\ \A c \in Cart : Adopted(c).paid = c.paid /\ Adopted(c).was.paid = c.paid
          /\ NoCart.kind = "none" /\ NoCart.paid = None /\ NoCart.was.paid = None
<1>1. cart \in Cart /\ cart.paid \in Coins
  BY DEF Inv, Typed, MoneyInv, Counted
<1>2. NoCart.kind = "none" /\ NoCart.paid = None /\ NoCart.was.paid = None
  BY DEF NoCart, Empty
<1>3. \A c \in Cart : Adopted(c).paid = c.paid /\ Adopted(c).was.paid = c.paid
  BY DEF Adopted, Saved, Cart
<1>4. CASE cart.kind = "loaded" /\ WorkingIsOpen
  <2>. DEFINE q == IF Working.qty = cart.was.qty THEN cart.qty ELSE Working.qty
  <2>1. Refreshed = [cart EXCEPT !.qty = q, !.was = Saved(Working)]
    BY <1>4 DEF Refreshed
  <2>2. Saved(Working).paid = Working.paid /\ Working.paid = cart.was.paid
    BY <1>4 DEF Saved, MoneyInv, Kept
  <2>. HIDE DEF q
  <2>3. Refreshed.paid = cart.paid /\ Refreshed.was = Saved(Working) /\ Refreshed.kind = cart.kind
    BY <1>1, <2>1 DEF Cart
  <2>. QED  BY <1>2, <1>3, <1>4, <2>2, <2>3
<1>5. CASE cart.kind = "loaded" /\ ~WorkingIsOpen
  BY <1>2, <1>3, <1>5 DEF Refreshed
<1>6. CASE cart.kind # "loaded"
  BY <1>2, <1>3, <1>6 DEF Refreshed
<1>. QED  BY <1>4, <1>5, <1>6

(* Parking and completing: what the cart was paid is saved, and the        *)
(* balance a completion takes is in its cart.                              *)
LEMMA SavingMoney ==
    ASSUME Inv, Inv', MoneyInv,
           \/ Park \/ CompletePark
           \/ (\E m \in Tenders, ret \in Amounts : CompleteStart(m, ret))
    PROVE MoneyInv'
<1>. USE DEF Idle
<1>0. None \in Coins /\ cart \in Cart /\ cart.paid \in Coins /\ cart.was.paid \in Coins
      /\ \A m \in Tenders : None[m] = 0
  BY DEF None, Coins, Inv, Typed, MoneyInv, Counted
<1>1. ASSUME NEW c \in Cart, c.paid = cart.paid, Save(c), WorkingIsOpen,
             cart.kind = "loaded",
             cart'.kind \in {"loaded", "none"}, cart'.paid \in Coins, cart'.was.paid \in Coins,
             cart'.was.paid = (IF cart'.kind = "loaded" THEN c.paid ELSE cart'.paid),
             step'.ret \in Coins, step'.at # "idle" => Within(step'.ret, cart'.paid),
             refunds' = refunds, returned' = returned, lost' = lost, hand' \in Purse,
             \A m \in Tenders : hand'[m] - hand[m] = cart'.paid[m] - cart'.was.paid[m]
      PROVE MoneyInv'
  <2>1. /\ order'.state = order.state /\ order'.paid \in Coins
        /\ edit'.paid \in Coins /\ rows' \in Coins
        /\ WorkingIsOpen' /\ Working'.paid = c.paid /\ Recorded' = c.paid
        /\ order.state \in {"settled", "voided"} => order' = order /\ rows' = rows
    BY <1>0, <1>1, SavedMoney
  <2>2. Counted'
    BY <1>0, <1>1, <2>1 DEF MoneyInv, Counted
  <2>3. Kept'
    BY <1>1, <2>1 DEF MoneyInv, Kept
  <2>4. Refunded' = Refunded
    BY <1>1, RefundedIsGiven
  <2>5. ASSUME NEW m \in Tenders
        PROVE hand'[m] - hand[m] =
                 (Recorded'[m] + Unsaved'[m]) - (Recorded[m] + Unsaved[m])
                   - (Refunded'[m] - Refunded[m]) + (lost'[m] - lost[m])
    <3>1. Unsaved'[m] = cart'.paid[m] - cart'.was.paid[m]
      BY <1>1 DEF Unsaved, Minus
    <3>2. Recorded[m] + Unsaved[m] = c.paid[m]
      BY <1>1, CartHolds
    <3>3. /\ c.paid[m] \in Int /\ cart'.paid[m] \in Int /\ hand[m] \in Int
          /\ cart'.was.paid[m] \in Int /\ hand'[m] \in Int
          /\ Refunded[m] \in Int /\ lost[m] \in Int
      BY <1>0, <1>1, MoneyTypes DEF MoneyInv, Counted, Purse, Coins
    <3>. QED  BY <1>1, <2>1, <2>4, <3>1, <3>2, <3>3
  <2>6. Accounted'
    BY <2>1, <2>2, <2>5, Accounts
  <2>7. NeverGivesBackMore'
    <3>1. CASE order.state \in {"settled", "voided"}
      BY <2>1, <2>4, <3>1 DEF MoneyInv, NeverGivesBackMore
    <3>2. CASE order.state \notin {"settled", "voided"}
      <4>1. returned = 0
        BY <3>2 DEF Inv, Story
      <4>. QED  BY <1>1, <2>1, <3>2, <4>1, NothingBack
    <3>. QED  BY <3>1, <3>2
  <2>. QED  BY <2>2, <2>3, <2>6, <2>7 DEF MoneyInv
<1>2. ASSUME Park, cart.kind = "new" PROVE MoneyInv'
  <2>. DEFINE c == Refreshed
  <2>1. c = cart
    BY <1>2 DEF Refreshed
  <2>2. /\ order' = [state |-> "open", qty |-> c.qty, paid |-> c.paid, rev |-> 0]
        /\ rows' = c.paid /\ cart' = Adopted(c) /\ order.state = "none" /\ edit' = edit
        /\ refunds' = refunds /\ returned' = returned /\ lost' = lost /\ hand' = hand
        /\ step' = step /\ step.at = "idle"
    BY <1>2 DEF Park
  <2>3. cart'.paid = cart.paid /\ cart'.was.paid = cart.paid /\ cart'.kind = "loaded"
    BY <1>0, <2>1, <2>2, Carts, CartMoney DEF Inv
  <2>4. ~Editing /\ ~Editing' /\ returned = 0
    BY <2>2 DEF Inv, Story, Editing
  <2>5. order'.state = "open" /\ order'.paid = cart.paid /\ Recorded' = cart.paid
        /\ WorkingIsOpen' /\ Working'.paid = cart.paid /\ rows' = cart.paid
    BY <2>1, <2>2, <2>4, RecordedIsNext DEF WorkingIsOpen, Working
  <2>6. Counted'
    BY <1>0, <2>2, <2>3, <2>5 DEF MoneyInv, Counted
  <2>7. Kept'
    BY <2>2, <2>3, <2>4, <2>5 DEF MoneyInv, Kept
  <2>8. Refunded' = Refunded
    BY <2>2, RefundedIsGiven
  <2>9. ASSUME NEW m \in Tenders
        PROVE hand'[m] - hand[m] =
                 (Recorded'[m] + Unsaved'[m]) - (Recorded[m] + Unsaved[m])
                   - (Refunded'[m] - Refunded[m]) + (lost'[m] - lost[m])
    <3>1. Unsaved'[m] = cart.paid[m] - cart.paid[m]
      BY <2>3 DEF Unsaved, Minus
    <3>2. Recorded[m] + Unsaved[m] = cart.paid[m]
      BY <1>2, CartHolds
    <3>3. /\ cart.paid[m] \in Int /\ hand[m] \in Int
          /\ Refunded[m] \in Int /\ lost[m] \in Int
      BY <1>0, MoneyTypes DEF MoneyInv, Counted, Purse, Coins
    <3>. QED  BY <2>2, <2>5, <2>8, <3>1, <3>2, <3>3
  <2>10. Accounted'
    BY <2>2, <2>6, <2>9, Accounts
  <2>11. NeverGivesBackMore'
    BY <1>0, <2>2, <2>4, <2>5, NothingBack
  <2>. QED  BY <2>6, <2>7, <2>10, <2>11 DEF MoneyInv
<1>3. ASSUME Park, cart.kind # "new" PROVE MoneyInv'
  <2>. DEFINE c == Refreshed
  <2>1. /\ Save(c) /\ WorkingIsOpen /\ cart' \in {Adopted(c), NoCart} /\ c \in Cart
        /\ cart.kind = "loaded" /\ step' = step /\ step.at = "idle" /\ hand' = hand
        /\ refunds' = refunds /\ returned' = returned /\ lost' = lost
    BY <1>0, <1>3, Refreshes DEF Park, Cart, Inv
  <2>2. c.kind = "loaded"
    BY <2>1 DEF Refreshed, Inv, Typed, Cart
  <2>3. c.paid = cart.paid
    BY <2>2, CartMoney
  <2>4. CASE cart' = Adopted(c)
    <3>1. cart'.was.paid = c.paid /\ cart'.paid = c.paid /\ cart'.kind = "loaded"
      BY <2>1, <2>4, Carts, CartMoney DEF Inv
    <3>2. hand \in Purse /\ step.ret \in Coins
          /\ \A m \in Tenders : hand'[m] - hand[m] = cart'.paid[m] - cart'.was.paid[m]
      BY <1>0, <2>1, <2>3, <3>1 DEF MoneyInv, Counted, Purse, Coins
    <3>. HIDE DEF c
    <3>. QED  BY <1>0, <1>1, <2>1, <2>3, <3>1, <3>2
  <2>5. CASE cart' = NoCart
    <3>1. cart'.kind = "none" /\ cart'.paid = None /\ cart'.was.paid = None
      BY <2>5, CartMoney
    <3>2. hand \in Purse /\ step.ret \in Coins
          /\ \A m \in Tenders : hand'[m] - hand[m] = cart'.paid[m] - cart'.was.paid[m]
      BY <1>0, <2>1, <3>1 DEF MoneyInv, Counted, Purse
    <3>. HIDE DEF c
    <3>. QED  BY <1>0, <1>1, <2>1, <2>3, <3>1, <3>2
  <2>. QED  BY <2>1, <2>4, <2>5
<1>4. ASSUME CompletePark, cart.kind = "loaded", Save(cart), cart' = Adopted(cart),
             step' = [step EXCEPT !.at = "ready"]
      PROVE MoneyInv'
  <2>1. /\ WorkingIsOpen /\ step.at # "idle" /\ hand' = hand
        /\ refunds' = refunds /\ returned' = returned /\ lost' = lost
    BY <1>4 DEF CompletePark, Inv, Story
  <2>2. cart'.was.paid = cart.paid /\ cart'.paid = cart.paid /\ cart'.kind = "loaded"
    BY <1>0, <1>4, Carts, CartMoney DEF Inv
  <2>3. step'.ret = step.ret /\ step.ret \in Coins /\ Within(step.ret, cart.paid)
    BY <1>4, <2>1 DEF Inv, Typed, MoneyInv, Counted
  <2>4. hand \in Purse /\ \A m \in Tenders : hand'[m] - hand[m] = cart'.paid[m] - cart'.was.paid[m]
    BY <1>0, <2>1, <2>2 DEF MoneyInv, Counted, Purse, Coins
  <2>. QED  BY <1>0, <1>1, <1>4, <2>1, <2>2, <2>3, <2>4
<1>5. ASSUME CompletePark, UNCHANGED <<order, rows, edit, cart>> PROVE MoneyInv'
  <2>1. step'.ret \in Coins /\ (step'.at # "idle" => step'.ret = step.ret /\ step.at # "idle")
    BY <1>0, <1>5 DEF CompletePark, NoStep, Inv, Typed, MoneyInv, Counted
  <2>2. Counted'
    BY <1>5, <2>1 DEF CompletePark, MoneyInv, Counted
  <2>3. WorkingIsOpen' = WorkingIsOpen /\ Working' = Working
        /\ Recorded' = Recorded /\ Unsaved' = Unsaved /\ Refunded' = Refunded
    BY <1>5, RefundedIsGiven DEF CompletePark, WorkingIsOpen, Working, Editing, Recorded, Unsaved
  <2>4. Kept'
    BY <1>5, <2>3 DEF CompletePark, MoneyInv, Kept
  <2>. QED  BY <1>5, <2>2, <2>3, <2>4 DEF CompletePark, MoneyInv, Accounted, NeverGivesBackMore
<1>6. ASSUME NEW m \in Tenders, NEW ret \in Amounts, CompleteStart(m, ret) PROVE MoneyInv'
  <2>. DEFINE c == Refreshed
              due == Balance(c.qty, c.paid)
              more == Only(m, due)
  <2>1. /\ c.kind # "none" /\ Within(ret, c.paid)
        /\ hand' = Plus(hand, more) /\ step'.ret = ret /\ step.at = "idle"
        /\ refunds' = refunds /\ returned' = returned /\ lost' = lost
    BY <1>6 DEF CompleteStart, ReturnIsDue
  <2>2. /\ c \in Cart /\ c.qty \in Nat /\ c.paid = cart.paid /\ c.was.paid = cart.was.paid
        /\ c.kind = "new" <=> cart.kind = "new"
        /\ c.kind = "loaded" => cart.kind = "loaded" /\ WorkingIsOpen
    BY <2>1, Refreshes, CartMoney DEF Inv, Cart
  <2>3. due \in Nat
    BY <2>2, Amount DEF Cart
  <2>4. more \in Coins /\ ret \in Coins
    BY <2>3, BillLifeAssumption DEF Only, None, Coins, Amounts
  <2>5. Plus(c.paid, more) \in Coins /\ Within(ret, Plus(c.paid, more)) /\ hand' \in Purse
        /\ \A t \in Tenders : Plus(c.paid, more)[t] = c.paid[t] + more[t] /\ hand'[t] = hand[t] + more[t]
    <3>. HIDE DEF due, more, c
    <3>. QED  BY <1>0, <2>1, <2>2, <2>4 DEF Plus, Within, Coins, Purse, MoneyInv, Counted
  <2>6. CASE c.kind = "loaded"
    <3>1. Save(c) /\ cart' = [Adopted(c) EXCEPT !.paid = Plus(Adopted(c).paid, more)]
      BY <1>6, <2>6 DEF CompleteStart
    <3>2. Adopted(c) \in Cart /\ Adopted(c).kind = "loaded" /\ Adopted(c).paid = c.paid
          /\ Adopted(c).was.paid = c.paid
      BY <2>2, Carts, CartMoney DEF Inv
    <3>. HIDE DEF c, due, more
    <3>3. cart'.paid = Plus(c.paid, more) /\ cart'.was.paid = c.paid /\ cart'.kind = "loaded"
      BY <3>1, <3>2 DEF Cart
    <3>4. \A t \in Tenders : hand'[t] - hand[t] = cart'.paid[t] - cart'.was.paid[t]
      BY <1>0, <2>2, <2>4, <2>5, <3>3 DEF MoneyInv, Counted, Purse, Coins
    <3>. QED  BY <1>0, <1>1, <2>1, <2>2, <2>4, <2>5, <2>6, <3>1, <3>3, <3>4
  <2>7. CASE c.kind # "loaded"
    <3>1. UNCHANGED <<order, rows, edit>> /\ cart' = [c EXCEPT !.paid = Plus(c.paid, more)]
      BY <1>6, <2>7 DEF CompleteStart
    <3>2. c.kind = "new" /\ cart.kind = "new"
      BY <2>1, <2>2, <2>7 DEF Cart
    <3>. HIDE DEF c, due, more
    <3>3. cart'.paid = Plus(c.paid, more) /\ cart'.was.paid = cart.was.paid /\ cart'.kind = "new"
      BY <2>2, <3>1, <3>2 DEF Cart
    <3>4. Counted'
      BY <1>0, <2>1, <2>4, <2>5, <3>1, <3>3 DEF MoneyInv, Counted
    <3>5. Kept'
      BY <2>1, <3>1, <3>2, <3>3 DEF MoneyInv, Kept
    <3>6. Recorded' = Recorded /\ Refunded' = Refunded /\ order'.state = order.state
      BY <2>1, <3>1, RefundedIsGiven DEF Recorded, Editing
    <3>7. ASSUME NEW t \in Tenders
          PROVE hand'[t] - hand[t] =
                   (Recorded'[t] + Unsaved'[t]) - (Recorded[t] + Unsaved[t])
                     - (Refunded'[t] - Refunded[t]) + (lost'[t] - lost[t])
      <4>1. Unsaved'[t] = (cart.paid[t] + more[t]) - cart.was.paid[t]
        BY <2>2, <2>5, <3>3 DEF Unsaved, Minus
      <4>2. Unsaved[t] = cart.paid[t] - cart.was.paid[t]
        BY DEF Unsaved, Minus
      <4>3. /\ Recorded[t] \in Int /\ Refunded[t] \in Int /\ hand[t] \in Int /\ lost[t] \in Int
            /\ cart.paid[t] \in Int /\ cart.was.paid[t] \in Int /\ more[t] \in Int
        BY <1>0, <2>4, MoneyTypes DEF MoneyInv, Counted, Purse, Coins
      <4>. QED  BY <2>1, <2>5, <3>6, <4>1, <4>2, <4>3
    <3>8. Accounted'
      BY <3>4, <3>6, <3>7, Accounts
    <3>9. NeverGivesBackMore'
      BY <3>1, <3>6 DEF MoneyInv, NeverGivesBackMore
    <3>. QED  BY <3>4, <3>5, <3>8, <3>9 DEF MoneyInv
  <2>. QED  BY <2>6, <2>7
<1>7. CompletePark =>
        \/ UNCHANGED <<order, rows, edit, cart>>
        \/ step' = [step EXCEPT !.at = "ready"] /\ cart.kind = "loaded" /\ Save(cart) /\ cart' = Adopted(cart)
  BY DEF CompletePark
<1>. QED  BY <1>2, <1>3, <1>4, <1>5, <1>6, <1>7

(* The receipts of a bill are what was paid less the change; of a bill     *)
(* that may be settled none is below nothing.                              *)
LEMMA ReceiptsAre ==
    ASSUME NEW q \in Nat, NEW p \in Coins
    PROVE /\ \A m \in Tenders : Receipts(q, p)[m] = p[m] - Only("cash", Change(q, p))[m]
          /\ Valid(q, p) => Receipts(q, p) \in Coins
          /\ Only("cash", Change(q, p)) \in Purse
<1>1. p["cash"] \in Nat /\ p["upi"] \in Nat
  BY DEF Coins, Tenders
<1>2. Change(q, p) \in Nat
  BY <1>1 DEF Change, Sum
<1>3. Only("cash", Change(q, p)) = [m \in Tenders |-> IF m = "cash" THEN Change(q, p) ELSE 0]
  BY DEF Only, None
<1>4. Receipts(q, p) = [m \in Tenders |-> IF m = "cash" THEN p["cash"] - Change(q, p) ELSE p[m]]
  BY DEF Receipts, Coins
<1>5. ASSUME NEW m \in Tenders PROVE Receipts(q, p)[m] = p[m] - Only("cash", Change(q, p))[m]
  BY <1>1, <1>2, <1>3, <1>4 DEF Coins
<1>6. ASSUME Valid(q, p) PROVE Receipts(q, p) \in Coins
  <2>1. p["cash"] - Change(q, p) \in Nat
    BY <1>1, <1>6 DEF Valid, Balance, Change, Sum
  <2>. QED  BY <1>4, <2>1 DEF Coins
<1>. QED  BY <1>2, <1>3, <1>5, <1>6 DEF Purse

(* A settlement keeps what the cart was paid, less what it gives back and  *)
(* its change.                                                             *)
LEMMA SettleMoney ==
    ASSUME Inv, Inv', MoneyInv, Settle
    PROVE MoneyInv'
<1>. DEFINE paid == Minus(cart.paid, step.ret)
            change == Only("cash", Change(cart.qty, paid))
<1>1. /\ cart.qty \in Nat /\ cart.paid \in Coins /\ step.ret \in Coins /\ Within(step.ret, cart.paid)
      /\ hand \in Purse /\ lost \in Purse
  BY DEF Settle, Inv, Typed, Cart, MoneyInv, Counted
<1>2. paid \in Coins /\ \A m \in Tenders : paid[m] = cart.paid[m] - step.ret[m]
  BY <1>1 DEF Minus, Within, Coins
<1>3. /\ order'.state = "settled" /\ order'.qty = cart.qty /\ order'.paid = paid
      /\ rows' = Receipts(cart.qty, paid) /\ Valid(cart.qty, paid)
      /\ edit' = NoEdit /\ cart' = NoCart /\ step' = NoStep
      /\ hand' = Minus(Minus(hand, step.ret), change)
      /\ refunds' = refunds /\ returned' = returned /\ lost' = lost
  BY DEF Settle
<1>. HIDE DEF paid
<1>4. /\ \A m \in Tenders : rows'[m] = paid[m] - change[m]
      /\ rows' \in Coins /\ change \in Purse
  BY <1>1, <1>2, <1>3, ReceiptsAre
<1>. HIDE DEF change
<1>5. None \in Coins /\ \A m \in Tenders : None[m] = 0
  BY DEF None, Coins
<1>6. cart'.kind = "none" /\ cart'.paid = None /\ cart'.was.paid = None
      /\ edit'.paid = None /\ ~Editing' /\ step'.ret = None /\ step'.at = "idle"
  BY <1>3 DEF NoCart, Empty, NoEdit, NoStep, Editing
<1>7. \A m \in Tenders : hand'[m] = (hand[m] - step.ret[m]) - change[m]
  BY <1>3 DEF Minus
<1>8. hand' \in Purse
  BY <1>1, <1>3, <1>4 DEF Minus, Purse, Coins
<1>9. Counted'
  BY <1>1, <1>2, <1>3, <1>4, <1>5, <1>6, <1>8 DEF MoneyInv, Counted
<1>10. order.state \notin {"voided", "cancelled"} /\ returned = 0
       /\ (cart.kind = "new" \/ (cart.kind = "loaded" /\ WorkingIsOpen))
  <2>1. cart.kind = "new" \/ (cart.kind = "loaded" /\ WorkingIsOpen)
    BY DEF Settle, Inv, Story
  <2>2. order.state \in {"none", "open"} \/ (order.state = "settled" /\ Editing)
    BY <2>1 DEF Inv, Story, WorkingIsOpen
  <2>. QED  BY <2>1, <2>2 DEF Inv, Story
<1>11. Kept'
  <2>1. \A r \in Requests : refunds[r] = None
    BY <1>10, NothingBack
  <2>. QED  BY <1>3, <1>6, <2>1 DEF Kept
<1>12. Refunded' = Refunded /\ Recorded' = rows'
  BY <1>3, <1>6, RefundedIsGiven, RecordedIsNext
<1>13. ASSUME NEW m \in Tenders
       PROVE hand'[m] - hand[m] =
                (Recorded'[m] + Unsaved'[m]) - (Recorded[m] + Unsaved[m])
                  - (Refunded'[m] - Refunded[m]) + (lost'[m] - lost[m])
  <2>1. Unsaved'[m] = 0
    BY <1>5, <1>6 DEF Unsaved, Minus
  <2>2. Recorded[m] + Unsaved[m] = cart.paid[m]
    BY <1>10, CartHolds
  <2>3. /\ hand[m] \in Int /\ lost[m] \in Int /\ Refunded[m] \in Int /\ cart.paid[m] \in Int
        /\ step.ret[m] \in Int /\ change[m] \in Int
    BY <1>1, <1>4, MoneyTypes DEF MoneyInv, Purse, Coins
  <2>4. rows'[m] = (cart.paid[m] - step.ret[m]) - change[m]
    BY <1>2, <1>4
  <2>. QED  BY <1>3, <1>7, <1>12, <2>1, <2>2, <2>3, <2>4
<1>14. Accounted'
  BY <1>9, <1>10, <1>13, Accounts
<1>15. NeverGivesBackMore'
  BY <1>3, <1>4, <1>10, NothingBack
<1>. QED  BY <1>9, <1>11, <1>14, <1>15 DEF MoneyInv

(* Taking a bill back and discarding that moves no money.                  *)
LEMMA CorrectionMoney ==
    ASSUME Inv, Inv', MoneyInv, Revert \/ Discard
    PROVE MoneyInv'
<1>. USE DEF Idle
<1>0. None \in Coins /\ rows \in Coins
  BY DEF None, Coins, MoneyInv, Counted
<1>1. order.state = "settled" /\ step.at = "idle" /\ rows = Receipts(order.qty, order.paid)
      /\ Reopened.paid = rows /\ Reopened.rev = order.rev + 1
  BY DEF Revert, Discard, MoneyInv, Kept, Reopened
<1>2. /\ order' = order /\ rows' = rows /\ refunds' = refunds /\ returned' = returned
      /\ step' = step /\ hand' = hand /\ lost' = lost
  BY DEF Revert, Discard
<1>3. ASSUME edit'.paid \in Coins, cart'.paid \in Coins, cart'.was.paid = cart'.paid,
             cart'.kind = "none" \/ (cart'.kind = "loaded" /\ WorkingIsOpen' /\ cart'.was.paid = Working'.paid),
             Recorded' = rows,
             \A m \in Tenders : Recorded[m] + Unsaved[m] = rows[m]
      PROVE MoneyInv'
  <2>1. Counted'
    BY <1>1, <1>2, <1>3 DEF MoneyInv, Counted
  <2>2. Kept'
    BY <1>2, <1>3 DEF MoneyInv, Kept
  <2>3. Refunded' = Refunded
    BY <1>2, RefundedIsGiven
  <2>4. ASSUME NEW m \in Tenders
        PROVE hand'[m] - hand[m] =
                 (Recorded'[m] + Unsaved'[m]) - (Recorded[m] + Unsaved[m])
                   - (Refunded'[m] - Refunded[m]) + (lost'[m] - lost[m])
    <3>1. Unsaved'[m] = 0
      BY <1>3 DEF Unsaved, Minus, Coins
    <3>2. hand[m] \in Int /\ lost[m] \in Int /\ Refunded[m] \in Int /\ rows[m] \in Int
      BY <1>0, MoneyTypes DEF MoneyInv, Counted, Purse, Coins
    <3>. QED  BY <1>2, <1>3, <2>3, <3>1, <3>2
  <2>5. Accounted'
    BY <1>1, <2>1, <2>4, Accounts
  <2>. QED  BY <1>2, <2>1, <2>2, <2>3, <2>5 DEF MoneyInv, NeverGivesBackMore
<1>4. ASSUME Revert PROVE MoneyInv'
  <2>1. ~Editing /\ edit' = Reopened /\ cart' = Loaded(Reopened) /\ cart.kind = "none"
    BY <1>4 DEF Revert
  <2>2. Editing' /\ WorkingIsOpen' /\ Working' = Reopened
    BY <1>1, <2>1 DEF Editing, WorkingIsOpen, Working, Inv, Typed, Order
  <2>3. cart'.kind = "loaded" /\ cart'.paid = rows /\ cart'.was.paid = rows
    BY <1>1, <2>1 DEF Loaded, Saved
  <2>4. Recorded = rows /\ Recorded' = rows
    BY <1>1, <2>1, <2>2, RecordedIs, RecordedIsNext
  <2>5. \A m \in Tenders : Recorded[m] + Unsaved[m] = rows[m]
    BY <1>0, <2>1, <2>4, CartHolds DEF Coins
  <2>. QED  BY <1>0, <1>1, <1>3, <2>1, <2>2, <2>3, <2>4, <2>5
<1>5. ASSUME Discard PROVE MoneyInv'
  <2>1. Editing /\ cart.paid = rows /\ edit' = NoEdit /\ cart' = NoCart /\ cart.kind = "loaded"
    BY <1>1, <1>5 DEF Discard
  <2>2. ~Editing' /\ WorkingIsOpen /\ edit'.paid = None
    BY <2>1 DEF Editing, NoEdit, WorkingIsOpen
  <2>3. cart'.kind = "none" /\ cart'.paid = None /\ cart'.was.paid = None
    BY <2>1 DEF NoCart, Empty
  <2>4. Recorded' = rows
    BY <1>1, <1>2, <2>2, RecordedIsNext
  <2>5. \A m \in Tenders : Recorded[m] + Unsaved[m] = rows[m]
    BY <2>1, <2>2, CartHolds
  <2>. QED  BY <1>0, <1>3, <2>2, <2>3, <2>4, <2>5
<1>. QED  BY <1>4, <1>5

(* What is recorded as given back is handed over.                          *)
LEMMA RecordMoney ==
    ASSUME MoneyInv, NEW req \in Requests, NEW ret \in Amounts, Record(req, ret)
    PROVE /\ refunds' \in [Requests -> Coins]
          /\ Within(Refunded', rows) /\ Refunded' \in Coins
          /\ \A m \in Tenders : HandedOver[m] = (hand[m] + Refunded[m]) - Refunded'[m]
<1>1. ret \in Coins /\ refunds \in [Requests -> Coins]
  BY BillLifeAssumption DEF Amounts, Coins, MoneyInv, Counted
<1>2. refunds' \in [Requests -> Coins]
  BY <1>1 DEF Record
<1>3. Refunded' \in Coins /\ Refunded \in Coins
  BY <1>1, <1>2, GivenAddsUp, RefundedIsGiven
<1>4. Within(Refunded', rows)
  <2>1. CASE refunds' = refunds
    BY <2>1, RefundedIsGiven DEF MoneyInv, NeverGivesBackMore
  <2>2. CASE refunds[req] = None
    <3>1. Within(ret, Refundable) /\ refunds' = [refunds EXCEPT ![req] = ret]
      BY <2>2 DEF Record
    <3>2. ASSUME NEW m \in Tenders PROVE Refunded'[m] <= rows[m]
      <4>1. Refunded'[m] = Refunded[m] + ret[m]
        BY <1>1, <2>2, <3>1, GivenAddsUp, RefundedIsGiven
      <4>2. ret[m] <= rows[m] - Refunded[m]
        BY <3>1 DEF Within, Refundable, Minus
      <4>3. ret[m] \in Nat /\ rows[m] \in Nat /\ Refunded[m] \in Nat
        BY <1>1, <1>3 DEF MoneyInv, Counted, Coins
      <4>. QED  BY <4>1, <4>2, <4>3
    <3>. QED  BY <3>2 DEF Within
  <2>. QED  BY <2>1, <2>2 DEF Record
<1>5. \A m \in Tenders : HandedOver[m] = (hand[m] + Refunded[m]) - Refunded'[m]
  BY DEF HandedOver, Minus
<1>. QED  BY <1>2, <1>3, <1>4, <1>5

(* Voiding takes the bill's money nowhere; returning hands it over.        *)
LEMMA BackMoney ==
    ASSUME Inv, Inv', MoneyInv,
           \/ VoidSale
           \/ (\E req \in Requests, ret \in Amounts :
                  VoidAndReturn(req, ret) \/ Refund(req, ret) \/ ReturnClosed(req, ret))
    PROVE MoneyInv'
<1>. USE DEF Idle
<1>0. None \in Coins /\ cart.paid \in Coins /\ cart.was.paid \in Coins /\ hand \in Purse /\ rows \in Coins
  BY DEF None, Coins, MoneyInv, Counted
<1>1. ASSUME NEW req \in Requests, NEW ret \in Amounts, Record(req, ret),
             order.state \in {"settled", "voided"}, order'.state \in {"settled", "voided"},
             order'.qty = order.qty, order'.paid = order.paid, order'.paid \in Coins,
             ~Editing', rows' = rows, edit'.paid \in Coins, step' = step,
             order'.state = "voided" \/ returned' # 0,
             Editing => edit.paid = Reopened.paid,
             \/ cart' = NoCart /\ \A m \in Tenders : hand'[m] = HandedOver[m] - Unsaved[m]
             \/ cart' = cart /\ cart.kind # "loaded" /\ \A m \in Tenders : hand'[m] = HandedOver[m] - Unsaved[m]
             \/ cart' = cart /\ WorkingIsOpen' = WorkingIsOpen /\ ~Editing
                /\ \A m \in Tenders : hand'[m] = HandedOver[m],
             hand' \in Purse, lost' = lost, step.at = "idle"
      PROVE MoneyInv'
  <2>1. /\ refunds' \in [Requests -> Coins]
        /\ Within(Refunded', rows) /\ Refunded' \in Coins
        /\ \A m \in Tenders : HandedOver[m] = (hand[m] + Refunded[m]) - Refunded'[m]
    BY <1>1, RecordMoney
  <2>2. NoCart.kind = "none" /\ NoCart.paid = None /\ NoCart.was.paid = None
    BY CartMoney
  <2>3. Counted'
    BY <1>0, <1>1, <2>1, <2>2 DEF MoneyInv, Counted
  <2>4. rows = Receipts(order.qty, order.paid) /\ Reopened.paid = rows
    BY <1>1 DEF MoneyInv, Kept, Reopened
  <2>5. ~WorkingIsOpen' /\ cart.kind # "new"
    BY <1>1 DEF WorkingIsOpen, Inv, Story
  <2>6. Kept'
    BY <1>1, <2>2, <2>4, <2>5 DEF MoneyInv, Kept
  <2>7. Recorded = rows /\ Recorded' = rows
    BY <1>1, <2>4, RecordedIs, RecordedIsNext
  <2>8. ASSUME NEW m \in Tenders
        PROVE hand'[m] - hand[m] =
                 (Recorded'[m] + Unsaved'[m]) - (Recorded[m] + Unsaved[m])
                   - (Refunded'[m] - Refunded[m]) + (lost'[m] - lost[m])
    <3>1. /\ Unsaved[m] = cart.paid[m] - cart.was.paid[m]
          /\ Unsaved'[m] = cart'.paid[m] - cart'.was.paid[m]
      BY DEF Unsaved, Minus
    <3>2. /\ hand[m] \in Int /\ lost[m] \in Int /\ Refunded[m] \in Int /\ rows[m] \in Int
          /\ Refunded'[m] \in Int /\ cart.paid[m] \in Int /\ cart.was.paid[m] \in Int
      BY <1>0, <2>1, MoneyTypes DEF MoneyInv, Counted, Purse, Coins
    <3>3. HandedOver[m] = (hand[m] + Refunded[m]) - Refunded'[m]
      BY <2>1
    <3>4. CASE cart' = NoCart /\ hand'[m] = HandedOver[m] - Unsaved[m]
      <4>1. Unsaved'[m] = 0
        BY <2>2, <3>1, <3>4 DEF None
      <4>. QED  BY <1>1, <2>7, <3>1, <3>2, <3>3, <3>4, <4>1
    <3>5. CASE cart' = cart /\ cart.kind # "loaded" /\ hand'[m] = HandedOver[m] - Unsaved[m]
      <4>1. Unsaved[m] = 0 /\ Unsaved'[m] = 0
        <5>1. cart.kind = "none"
          BY <2>5, <3>5 DEF Inv, Typed, Cart
        <5>. QED  BY <3>1, <3>2, <3>5, <5>1 DEF MoneyInv, Kept
      <4>. QED  BY <1>1, <2>7, <3>2, <3>3, <3>5, <4>1
    <3>6. CASE cart' = cart /\ hand'[m] = HandedOver[m]
      BY <1>1, <2>7, <3>1, <3>2, <3>3, <3>6
    <3>. QED  BY <1>1, <3>4, <3>5, <3>6
  <2>9. Accounted'
    BY <1>1, <2>3, <2>8, Accounts
  <2>10. NeverGivesBackMore'
    BY <1>1, <2>1 DEF NeverGivesBackMore
  <2>. QED  BY <2>3, <2>6, <2>9, <2>10 DEF MoneyInv
<1>2. ASSUME VoidSale PROVE MoneyInv'
  <2>1. /\ order.state = "settled" /\ ~Editing /\ order' = [order EXCEPT !.state = "voided"]
        /\ rows' = rows /\ edit' = edit /\ refunds' = refunds /\ returned' = returned
        /\ cart' = cart /\ step' = step /\ hand' = hand /\ lost' = lost
    BY <1>2 DEF VoidSale
  <2>2. order'.state = "voided" /\ order'.qty = order.qty /\ order'.paid = order.paid
    BY <2>1 DEF Inv, Typed, Order
  <2>3. ~Editing' /\ ~WorkingIsOpen'
    BY <2>1, <2>2 DEF Editing, WorkingIsOpen
  <2>4. Counted'
    BY <2>1, <2>2 DEF MoneyInv, Counted
  <2>5. Kept'
    BY <2>1, <2>2, <2>3 DEF MoneyInv, Kept
  <2>6. Recorded' = Recorded /\ Unsaved' = Unsaved /\ Refunded' = Refunded
    BY <2>1, <2>2, <2>3, RecordedIs, RecordedIsNext, RefundedIsGiven DEF Unsaved
  <2>. QED  BY <2>1, <2>4, <2>5, <2>6 DEF MoneyInv, Accounted, NeverGivesBackMore
<1>3. ASSUME NEW req \in Requests, NEW ret \in Amounts, VoidAndReturn(req, ret) PROVE MoneyInv'
  <2>1. /\ order.state = "settled" /\ order' = [order EXCEPT !.state = "voided"]
        /\ Record(req, ret) /\ edit' = NoEdit /\ rows' = rows /\ step' = step /\ step.at = "idle"
        /\ cart' = (IF cart.kind = "loaded" THEN NoCart ELSE cart)
        /\ hand' = Minus(HandedOver, Unsaved) /\ lost' = lost
        /\ Editing => edit.paid = Reopened.paid
    BY <1>3 DEF VoidAndReturn
  <2>2. order'.state = "voided" /\ order'.qty = order.qty /\ order'.paid = order.paid
        /\ edit'.paid = None /\ ~Editing'
    BY <2>1 DEF Inv, Typed, Order, NoEdit, Editing
  <2>3. \A m \in Tenders : hand'[m] = HandedOver[m] - Unsaved[m]
    BY <2>1 DEF Minus
  <2>4. hand' \in Purse
    BY <1>0, <2>1, RecordMoney, MoneyTypes DEF Minus, MoneyInv, Purse, Coins
  <2>5. order.paid \in Coins
    BY DEF MoneyInv, Counted
  <2>. QED  BY <1>0, <1>1, <2>1, <2>2, <2>3, <2>4, <2>5
<1>4. ASSUME NEW req \in Requests, NEW ret \in Amounts, Refund(req, ret) \/ ReturnClosed(req, ret)
      PROVE MoneyInv'
  <2>1. /\ order' = order /\ rows' = rows /\ edit' = edit /\ cart' = cart /\ step' = step
        /\ lost' = lost /\ Record(req, ret) /\ hand' = HandedOver /\ step.at = "idle"
    BY <1>4 DEF Refund, ReturnClosed
  <2>2. order.state \in {"settled", "voided"} /\ ~Editing /\ (order.state = "voided" \/ returned' # 0)
    BY <1>4 DEF Refund, ReturnClosed, Inv, Story, Typed
  <2>3. ~Editing' /\ WorkingIsOpen' = WorkingIsOpen
    BY <2>1, <2>2 DEF Editing, WorkingIsOpen
  <2>4. hand' \in Purse
    BY <1>0, <2>1, RecordMoney, MoneyTypes DEF HandedOver, Minus, MoneyInv, Purse, Coins
  <2>5. order.paid \in Coins /\ edit.paid \in Coins
    BY DEF MoneyInv, Counted
  <2>. QED  BY <1>0, <1>1, <2>1, <2>2, <2>3, <2>4, <2>5
<1>. QED  BY <1>2, <1>3, <1>4

(* A cancelled order keeps no receipts, and nothing was given back of it.  *)
LEMMA CancelMoney ==
    ASSUME Inv, Inv', MoneyInv, CounterCancel \/ PhoneCancel
    PROVE MoneyInv'
<1>. USE DEF Idle
<1>1. /\ order.state = "open" /\ order' = [order EXCEPT !.state = "cancelled"] /\ rows' = None
      /\ edit' = edit /\ refunds' = refunds /\ returned' = returned
      /\ cart' = cart /\ step' = step /\ hand' = hand /\ lost' = lost
  BY DEF CounterCancel, PhoneCancel
<1>2. order'.state = "cancelled" /\ order'.paid = order.paid /\ None \in Coins
  BY <1>1 DEF Inv, Typed, Order, None, Coins
<1>3. ~Editing /\ ~Editing' /\ ~WorkingIsOpen' /\ returned = 0
  BY <1>1, <1>2 DEF Inv, Story, Editing, WorkingIsOpen
<1>4. Counted'
  BY <1>1, <1>2 DEF MoneyInv, Counted
<1>5. \A r \in Requests : refunds[r] = None
  BY <1>1, <1>3, NothingBack
<1>6. Kept'
  BY <1>1, <1>2, <1>3, <1>5 DEF MoneyInv, Kept
<1>7. Accounted'
  BY <1>2 DEF Accounted
<1>8. NeverGivesBackMore'
  BY <1>1, <1>2, <1>3, NothingBack
<1>. QED  BY <1>4, <1>6, <1>7, <1>8 DEF MoneyInv

(* A counter starts with no money and an empty book.                       *)
LEMMA MoneyInit == Init => MoneyInv
<1>. SUFFICES ASSUME Init PROVE MoneyInv
  OBVIOUS
<1>1. None \in Coins /\ None \in Purse /\ \A m \in Tenders : None[m] = 0
  BY DEF None, Coins, Purse
<1>2. /\ order.paid = None /\ order.state = "none" /\ rows = None /\ edit.paid = None /\ ~Editing
      /\ cart.kind = "new" /\ cart.paid = None /\ cart.was.paid = None
      /\ step.ret = None /\ step.at = "idle" /\ hand = None /\ lost = None
      /\ refunds = [r \in Requests |-> None]
  BY DEF Init, NoEdit, NewCart, NoCart, Empty, NoStep, Editing
<1>3. Counted
  BY <1>1, <1>2 DEF Counted
<1>4. Kept
  BY <1>2 DEF Kept
<1>5. Refunded = None
  BY <1>2, <1>3, GivenAddsUp, RefundedIsGiven DEF Counted
<1>6. Recorded = None
  BY <1>2, RecordedIs
<1>7. Accounted
  BY <1>1, <1>2, <1>5, <1>6 DEF Accounted, Unsaved, Minus
<1>8. NeverGivesBackMore
  BY <1>1, <1>2, <1>5 DEF NeverGivesBackMore, Within
<1>. QED  BY <1>3, <1>4, <1>7, <1>8 DEF MoneyInv

(* Every command, of the counter, a phone or the owner, keeps the money.   *)
THEOREM MoneyStep == Inv /\ Inv' /\ MoneyInv /\ [Next]_vars => MoneyInv'
<1>. SUFFICES ASSUME Inv, Inv', MoneyInv, [Next]_vars PROVE MoneyInv'
  OBVIOUS
<1>1. CASE Counter
  BY <1>1, StillSteps, CartSteps, SavingMoney, SettleMoney, CorrectionMoney DEF Counter
<1>2. CASE GiveBack
  BY <1>2, BackMoney, CancelMoney DEF GiveBack
<1>3. CASE Phone
  BY <1>3, StillSteps, CancelMoney DEF Phone
<1>4. CASE Days
  BY <1>4, StillSteps DEF Days
<1>5. CASE Stop \/ UNCHANGED vars
  BY <1>5, StillSteps, CartSteps
<1>. QED  BY <1>1, <1>2, <1>3, <1>4, <1>5 DEF Next

(* The money invariant holds of every state the counter comes to.          *)
THEOREM MoneyHolds == Spec => []MoneyInv
BY MoneyInit, MoneyStep, InvHolds, PTL DEF Spec

(* Only a failed settlement of a new cart leaves an order behind, with the *)
(* receipts that cart has.                                                 *)
LEMMA BehindStep ==
    ASSUME Counted, Behind, [Next]_vars
    PROVE Behind'
<1>. USE DEF books
<1>1. ASSUME strays' = strays PROVE Behind'
  BY <1>1 DEF Behind
<1>2. CASE SettleFails
  <2>1. CASE LeavesBehind
    <3>1. strays' = [open |-> strays.open + 1, paid |-> Plus(strays.paid, cart.paid)]
      BY <2>1 DEF LeavesBehind
    <3>2. Plus(strays.paid, cart.paid) \in Coins
      BY DEF Behind, Counted, Plus, Coins
    <3>3. strays.open + 1 \in Nat /\ strays.open + 1 # 0
      BY DEF Behind
    <3>. QED  BY <3>1, <3>2, <3>3 DEF Behind
  <2>2. CASE UNCHANGED strays
    BY <1>1, <2>2
  <2>. QED  BY <1>2, <2>1, <2>2 DEF SettleFails
<1>3. CASE Counter /\ ~SettleFails
  <2>1. strays' = strays
    BY <1>3 DEF Counter, SetQty, CashGiven, Park, Reload, Load, CompleteStart, CompletePark,
                Settle, Revert, Discard, Approve
  <2>. QED  BY <1>1, <2>1
<1>4. CASE GiveBack
  BY <1>1, <1>4 DEF GiveBack, VoidSale, CounterCancel, VoidAndReturn, Refund, ReturnClosed
<1>5. CASE Phone
  BY <1>1, <1>5 DEF Phone, PhoneCancel, PhoneSetQty
<1>6. CASE Days
  BY <1>1, <1>6 DEF Days, Midnight, SwitchClosing, CloseDay, ReopenDay
<1>7. CASE Stop \/ UNCHANGED vars
  BY <1>1, <1>7 DEF Stop, vars
<1>. QED  BY <1>2, <1>3, <1>4, <1>5, <1>6, <1>7 DEF Next

(* It holds from the start.                                                *)
LEMMA BehindHolds == Spec => []Behind
<1>1. Init => Behind
  BY DEF Init, Behind, None, Coins
<1>2. MoneyInv /\ Behind /\ [Next]_vars => Behind'
  BY BehindStep DEF MoneyInv
<1>. QED  BY <1>1, <1>2, MoneyHolds, PTL DEF Spec

(* The shop never has more money than its books and the counter say, and   *)
(* never less unless a failed completion left an order behind that says it *)
(* took the receipts of the cart too.                                      *)
THEOREM MoneyIsThere == Spec => []MoneyIsAccounted
<1>1. ASSUME MoneyInv, Behind PROVE MoneyIsAccounted
  <2>. SUFFICES ASSUME order.state # "cancelled"
                PROVE Within(hand, Said) /\ (strays.open = 0 => hand = Said)
    BY DEF MoneyIsAccounted
  <2>1. ASSUME NEW m \in Tenders
        PROVE Said[m] = hand[m] + strays.paid[m] /\ hand[m] \in Int /\ strays.paid[m] \in Nat
    <3>1. hand[m] = Recorded[m] - Refunded[m] + Unsaved[m] + lost[m]
      BY <1>1 DEF MoneyInv, Accounted
    <3>2. /\ Recorded[m] \in Int /\ Unsaved[m] \in Int /\ Refunded[m] \in Int
          /\ hand[m] \in Int /\ lost[m] \in Int /\ strays.paid[m] \in Nat
      BY <1>1, MoneyTypes DEF MoneyInv, Behind, Counted, Purse, Coins
    <3>3. Said[m] = Recorded[m] - Refunded[m] + strays.paid[m] + Unsaved[m] + lost[m]
      BY DEF Said
    <3>. QED  BY <3>1, <3>2, <3>3
  <2>2. Within(hand, Said)
    BY <2>1 DEF Within
  <2>3. ASSUME strays.open = 0 PROVE hand = Said
    <3>1. \A m \in Tenders : strays.paid[m] = 0
      BY <1>1, <2>3 DEF Behind, None
    <3>2. \A m \in Tenders : hand[m] = Said[m]
      BY <2>1, <3>1
    <3>3. Said = [m \in Tenders |-> Said[m]] /\ hand = [m \in Tenders |-> hand[m]]
      BY <1>1 DEF Said, MoneyInv, Counted, Purse
    <3>. QED  BY <3>2, <3>3
  <2>. QED  BY <2>2, <2>3
<1>. QED  BY <1>1, MoneyHolds, BehindHolds, PTL

(* No tender gives back more than it took, whatever is asked again.        *)
THEOREM BackHolds == Spec => []NeverGivesBackMore
<1>1. MoneyInv => NeverGivesBackMore
  BY DEF MoneyInv
<1>. QED  BY <1>1, MoneyHolds, PTL
==============================================================================
