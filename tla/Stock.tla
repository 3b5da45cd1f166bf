-------------------------------- MODULE Stock --------------------------------
(* The stock ledger of a shop. Every movement is a row that is written once *)
(* and never changed, with a balance kept beside the rows (the book).       *)
(* Bills draw from it through the recipes, making what a recipe is short    *)
(* of; deliveries and returns bring and take goods; a count of the shelf    *)
(* corrects the book. Undoing writes opposite rows.                         *)
EXTENDS Integers, FiniteSets, Functions, Sequences

CONSTANTS
    Raw, Made,          \* materials that are bought, and made in the kitchen
    Dishes,
    Bills, Papers,      \* the orders; the supplier's invoices and returns
    NoPaper,            \* what a delivery returns
    Carts,              \* what a bill may sell: sequences of [dish, qty]
    Menus,              \* the recipes the shop may start with, by owner
    Recipes,            \* what may be saved as a recipe: quantities by material
    Slips,              \* what a paper may carry: quantities by material on its first
                        \* line of each, and again on a second one
    Openings,           \* what the shop may have had when it was first written down
    MaxRev,             \* bound: corrections of a bill
    MaxCounts,          \* bound: counts opened
    MaxByHand,          \* bound: movements entered by hand, the opening one too
    MaxSteps            \* bound: what happens to the stock in all

Materials == Raw \cup Made
Owners == Dishes \cup Made
Nothing == [m \in Materials |-> 0]

(* A recipe of a made material draws on bought ones: one level of making.   *)
ASSUME StockAssumption ==
    /\ Raw \cap Made = {} /\ Dishes \cap Made = {} /\ Bills \cap Papers = {}
    /\ NoPaper \notin Papers /\ {"hand", "count"} \cap (Bills \cup Papers) = {}
    /\ IsFiniteSet(Materials) /\ IsFiniteSet(Papers)
    /\ Recipes \subseteq [Materials -> Nat]
    /\ Slips \subseteq [first : [Materials -> Nat], again : [Materials -> Nat]]
    /\ Openings \subseteq [Materials -> Nat] \ {Nothing}
    /\ \A menu \in Menus : /\ DOMAIN menu \subseteq Owners
                           /\ \A o \in DOMAIN menu : menu[o] \in [Materials -> Nat]
                           /\ \A o \in Made \cap DOMAIN menu, m \in Made : menu[o][m] = 0
    /\ \A c \in Carts : c \in Seq([dish : Dishes, qty : Nat])

VARIABLES
    recipes,    \* by owner
    bills,      \* state and revision of each order
    claimed,    \* applied_events: which bill at which revision has drawn
    papers,     \* each invoice or return: its state, its lines, and what it returns
    ledger,     \* stock_movements: row id -> quantities
    book,       \* material_balances
    shelf,      \* what is really there
    count,      \* the count being taken, or the last one
    lost,       \* left unwritten since the material's line was counted
    steps       \* what has happened so far

vars == <<recipes, bills, claimed, papers, ledger, book, shelf, count, lost, steps>>
sheet == <<count, lost>>

----------------------------------------------------------------------------
(* Rows. *)

Both(f, g) == [m \in Materials |-> f[m] + g[m]]
Negated(f) == [m \in Materials |-> -f[m]]
Put(f, x, y) == [z \in DOMAIN f \cup {x} |-> IF z = x THEN y ELSE f[z]]
Step == steps < MaxSteps /\ steps' = steps + 1

Row(of, rev, part) == [of |-> of, rev |-> rev, part |-> part, undoes |-> FALSE]
Opposite(id) == [id EXCEPT !.undoes = TRUE]
Originals(of) == {id \in DOMAIN ledger : id.of = of /\ ~id.undoes}

Total(rows) == [m \in Materials |-> SumFunction([id \in DOMAIN rows |-> rows[id][m]])]

(* `record`: a row that is there already moves nothing.                     *)
Fresh(rows) == [id \in DOMAIN rows \ DOMAIN ledger |-> rows[id]]
With(rows, more) ==
    [id \in DOMAIN rows \cup DOMAIN more |-> IF id \in DOMAIN rows THEN rows[id] ELSE more[id]]
NoRows == [id \in {} |-> Nothing]
OneRow(row, qty) == [id \in {row} |-> qty]
Written(rows) == ledger' = With(ledger, rows) /\ book' = Both(book, Total(Fresh(rows)))
(* Goods that moved with the row.                                           *)
Moved(rows) == Written(rows) /\ shelf' = Both(shelf, Total(Fresh(rows)))

\* Mutant: what was made, and what went into it, is left.
UndoneSales(of) == {id \in Originals(of) : Opposite(id) \notin DOMAIN ledger /\ id.part = "sale"}
(* `reverse_for_bill`: each row of the order that has no opposite yet.      *)
UndoneRows(of) == {id \in Originals(of) : Opposite(id) \notin DOMAIN ledger}
Undo(of) ==
    [id \in {Opposite(i) : i \in UndoneRows(of)} |-> Negated(ledger[[id EXCEPT !.undoes = FALSE]])]

----------------------------------------------------------------------------
(* The recipe walk (mb-core recipe.rs), one line of the bill after another. *)

Wanted(line, m) == line.qty * recipes[line.dish][m]

\* Mutant: a line does not see what the lines before it took.
ShortOfBook(run, line, m) ==
    IF m \in Made \cap DOMAIN recipes /\ Wanted(line, m) > book[m] THEN Wanted(line, m) - book[m] ELSE 0
(* `take` makes exactly what is missing.                                    *)
Short(run, line, m) ==
    IF m \in Made \cap DOMAIN recipes /\ Wanted(line, m) > 0 /\ Wanted(line, m) > run[m]
    THEN Wanted(line, m) - run[m] ELSE 0

Inputs(run, line, m) ==
    SumFunction([made \in Made \cap DOMAIN recipes |-> Short(run, line, made) * recipes[made][m]])

Walk(run, line) ==
    [m \in Materials |-> run[m] + Short(run, line, m) - Inputs(run, line, m) - Wanted(line, m)]

(* `explode`: a dish with no recipe takes nothing.                          *)
Begun(from) == [run |-> from, inputs |-> Nothing, made |-> Nothing, sale |-> Nothing]
After(s, line) ==
    IF line.dish \notin DOMAIN recipes THEN s
    ELSE [run |-> Walk(s.run, line),
          inputs |-> [m \in Materials |-> s.inputs[m] - Inputs(s.run, line, m)],
          made |-> [m \in Materials |-> s.made[m] + Short(s.run, line, m)],
          sale |-> [m \in Materials |-> s.sale[m] - Wanted(line, m)]]
Explode(cart, from) ==
    LET walk[n \in 0 .. Len(cart)] == IF n = 0 THEN Begun(from) ELSE After(walk[n - 1], cart[n])
    IN walk[Len(cart)]

(* `deduct_for_bill`: behind the gate, once for an order at a revision.     *)
Draws(b, rev) == DOMAIN recipes # {} /\ <<b, rev>> \notin claimed
Drawn(b, rev, cart, from) ==
    LET e == Explode(cart, from)
        drawing == {part \in {"inputs", "made", "sale"} : e[part] # Nothing}
    IN [id \in {Row(b, rev, part) : part \in drawing} |-> e[id.part]]

(* What a settle writes: the opposites of what the bill drew before it was  *)
(* corrected, then what it draws now.                                       *)
Settles(b, rev, cart) ==
    LET undo == IF rev > 0 THEN Undo(b) ELSE NoRows
        from == Both(book, Total(undo))
        draw == Drawn(b, rev, cart, from)
        rows == IF Draws(b, rev) THEN With(draw, undo) ELSE undo
    IN /\ Moved(rows)
       /\ claimed' = IF Draws(b, rev) THEN claimed \cup {<<b, rev>>} ELSE claimed

----------------------------------------------------------------------------
(* Bills. *)

Settle(b, cart) ==
    /\ Step /\ bills[b].state = "open"
    /\ bills' = [bills EXCEPT ![b].state = "settled"]
    /\ Settles(b, 0, cart)
    /\ UNCHANGED <<recipes, papers, sheet>>

Correct(b, cart) ==
    /\ Step /\ bills[b].state = "settled" /\ bills[b].rev < MaxRev
    /\ bills' = [bills EXCEPT ![b].rev = @ + 1]
    /\ Settles(b, bills[b].rev + 1, cart)
    /\ UNCHANGED <<recipes, papers, sheet>>

(* Food a guest gives back stays used; a sale that never was is undone.     *)
Void(b, eaten) ==
    /\ Step /\ bills[b].state = "settled"
    /\ bills' = [bills EXCEPT ![b].state = IF eaten THEN "returned" ELSE "voided"]
    /\ Moved(IF eaten THEN NoRows ELSE Undo(b))
    /\ UNCHANGED <<recipes, claimed, papers, sheet>>

----------------------------------------------------------------------------
(* Recipes, and movements by hand (`record_movement`). *)

SaveRecipe(o, r) ==
    /\ Step /\ r # Nothing
    /\ o \in Made => \A m \in Made : r[m] = 0
    /\ recipes' = Put(recipes, o, r)
    /\ UNCHANGED <<bills, claimed, papers, ledger, book, shelf, sheet>>

DeleteRecipe(o) ==
    /\ Step /\ o \in DOMAIN recipes
    /\ recipes' = [p \in DOMAIN recipes \ {o} |-> recipes[p]]
    /\ UNCHANGED <<bills, claimed, papers, ledger, book, shelf, sheet>>

Move(m, qty) ==
    /\ Step /\ Cardinality(Originals("hand")) < MaxByHand
    /\ Moved(OneRow(Row("hand", Cardinality(Originals("hand")), "hand"), [Nothing EXCEPT ![m] = qty]))
    /\ UNCHANGED <<recipes, bills, claimed, papers, sheet>>

----------------------------------------------------------------------------
(* Buying. *)

Write(p, of, lines) ==
    /\ papers[p].state = "none" /\ lines.first # Nothing
    /\ papers' = [papers EXCEPT ![p] = [state |-> "standing", of |-> of,
                                        first |-> lines.first, again |-> lines.again]]

(* Any paper on file may be sent back on, a cancelled one and a return too. *)
OnFile == {p \in Papers : papers[p].state # "none"}
ReturnsOf(d) == {p \in Papers : papers[p].state = "standing" /\ papers[p].of = d}
FirstBack(d, m) == SumFunctionOnSet([p \in Papers |-> papers[p].first[m]], ReturnsOf(d))
AgainBack(d, m) == SumFunctionOnSet([p \in Papers |-> papers[p].again[m]], ReturnsOf(d))
SentBack(d, m) == FirstBack(d, m) + AgainBack(d, m)

\* Mutant: what went back before is forgotten.
ReturnableAgain(d, m) == papers[d].first[m]
(* `returnable`: every return is held against the first line of a material. *)
Returnable(d, m) == papers[d].first[m] - SentBack(d, m)

(* `record_purchase`: a delivery, or a return of one, on the counter's word.*)
Deliver(p, lines) ==
    /\ Step /\ Write(p, NoPaper, lines)
    /\ Moved(OneRow(Row(p, 0, "goods"), Both(lines.first, lines.again)))
    /\ UNCHANGED <<recipes, bills, claimed, sheet>>

(* Each line of a return is held against what is left before the paper.     *)
SendBack(p, d, lines) ==
    /\ Step /\ d \in OnFile /\ Write(p, d, lines)
    /\ \A qty \in {lines.first, lines.again}, m \in Materials :
           qty[m] > 0 => qty[m] <= Returnable(d, m)
    /\ Moved(OneRow(Row(p, 0, "goods"), Negated(Both(lines.first, lines.again))))
    /\ UNCHANGED <<recipes, bills, claimed, sheet>>

(* `cancel_purchase` asks only whether it was cancelled before.             *)
Cancel(p) ==
    /\ Step /\ papers[p].state = "standing"
    /\ papers' = [papers EXCEPT ![p].state = "cancelled"]
    /\ Moved(Undo(p))
    /\ UNCHANGED <<recipes, bills, claimed, sheet>>

----------------------------------------------------------------------------
(* Counting: one count of a place at a time. *)

Lose(m) ==
    /\ Step /\ shelf[m] > 0
    /\ shelf' = [shelf EXCEPT ![m] = @ - 1]
    /\ lost' = [lost EXCEPT ![m] = @ + 1]
    /\ UNCHANGED <<recipes, bills, claimed, papers, ledger, book, count>>

OpenCount ==
    /\ Step /\ count.state # "draft" /\ count.no < MaxCounts
    /\ count' = [state |-> "draft", no |-> count.no + 1, lines |-> <<>>]
    /\ UNCHANGED <<recipes, bills, claimed, papers, ledger, book, shelf, lost>>

(* `record_line` freezes the book against what was counted; counting again  *)
(* corrects the line.                                                       *)
RecordLine(m) ==
    /\ Step /\ count.state = "draft" /\ shelf[m] >= 0
    /\ count' = [count EXCEPT !.lines = Put(@, m, [counted |-> shelf[m], book |-> book[m]])]
    /\ lost' = [lost EXCEPT ![m] = 0]
    /\ UNCHANGED <<recipes, bills, claimed, papers, ledger, book, shelf>>

RemoveLine(m) ==
    /\ Step /\ count.state = "draft" /\ m \in DOMAIN count.lines
    /\ count' = [count EXCEPT !.lines = [n \in DOMAIN @ \ {m} |-> @[n]]]
    /\ UNCHANGED <<recipes, bills, claimed, papers, ledger, book, shelf, lost>>

\* Mutant: what was counted is compared with the book of the approval.
VarianceToday(m) == count.lines[m].counted - book[m]
Variance(m) == count.lines[m].counted - count.lines[m].book
(* `approve` posts the differences as they were frozen.                     *)
Approve ==
    /\ Step /\ count.state = "draft" /\ DOMAIN count.lines # {}
    /\ count' = [count EXCEPT !.state = "approved"]
    /\ LET found == [m \in Materials |-> IF m \in DOMAIN count.lines THEN Variance(m) ELSE 0]
       IN Written(IF found = Nothing THEN NoRows ELSE OneRow(Row("count", count.no, "count"), found))
    /\ UNCHANGED <<recipes, bills, claimed, papers, shelf, lost>>

Abandon ==
    /\ Step /\ count.state = "draft"
    /\ count' = [count EXCEPT !.state = "abandoned"]
    /\ UNCHANGED <<recipes, bills, claimed, papers, ledger, book, shelf, lost>>

----------------------------------------------------------------------------

Init ==
    /\ recipes \in Menus
    /\ bills = [b \in Bills |-> [state |-> "open", rev |-> 0]]
    /\ claimed = {}
    /\ papers = [p \in Papers |-> [state |-> "none", of |-> NoPaper, first |-> Nothing, again |-> Nothing]]
    /\ book \in Openings /\ shelf = book /\ ledger = OneRow(Row("hand", 0, "hand"), book)
    /\ count = [state |-> "none", no |-> 0, lines |-> <<>>] /\ lost = Nothing
    /\ steps = 0

Selling ==
    \E b \in Bills : \/ \E c \in Carts : Settle(b, c) \/ Correct(b, c)
                     \/ \E eaten \in BOOLEAN : Void(b, eaten)

Buying ==
    \E p \in Papers : \/ Cancel(p)
                      \/ \E l \in Slips : Deliver(p, l) \/ \E d \in Papers : SendBack(p, d, l)

Keeping ==
    \/ \E o \in Owners : DeleteRecipe(o) \/ \E r \in Recipes : SaveRecipe(o, r)
    \/ \E m \in Materials : Lose(m) \/ \E qty \in {-1, 1} : Move(m, qty)

Counting ==
    \/ OpenCount \/ Approve \/ Abandon
    \/ \E m \in Materials : RecordLine(m) \/ RemoveLine(m)

Next == Selling \/ Buying \/ Keeping \/ Counting

Spec == Init /\ [][Next]_vars

----------------------------------------------------------------------------
(* Properties. *)

Undone(id) == Opposite(id) \in DOMAIN ledger /\ ledger[Opposite(id)] = Negated(ledger[id])
(* What a voided bill drew, and what a bill drew before it was corrected,   *)
(* is put back row by row - the materials that were made for it and what    *)
(* went into them too, whatever became of the recipes since - and what it   *)
(* draws now is not, nor what a guest has eaten.                            *)
OnlyTheStandingBillDraws ==
    \A b \in Bills : \A id \in Originals(b) :
        IF bills[b].state = "voided" \/ id.rev < bills[b].rev
        THEN Undone(id) ELSE Opposite(id) \notin DOMAIN ledger

(* A bill that draws a made material with a recipe never leaves it below    *)
(* nothing, and one that had to make some leaves none over, however many    *)
(* of its lines shared what was there.                                      *)
MadeAsNeeded ==
    [][\A b \in Bills, m \in Made \cap DOMAIN recipes :
         LET drew(part) == Row(b, bills'[b].rev, part)
         IN drew("sale") \in DOMAIN ledger' \ DOMAIN ledger /\ ledger'[drew("sale")][m] # 0
            => /\ book'[m] >= 0
               /\ (drew("made") \in DOMAIN ledger' /\ ledger'[drew("made")][m] # 0) => book'[m] = 0]_vars

(* Approving a count leaves the book of what was counted at what is on the  *)
(* shelf, whatever was sold, bought or undone between the counting and the  *)
(* approval; only what was lost since is still in the book.                 *)
CountSettlesTheBook ==
    [][count.state = "draft" /\ count'.state = "approved"
         => \A m \in DOMAIN count.lines : book'[m] - shelf'[m] = lost[m]]_vars

(* The returns on a paper that stand never come to more of a material than  *)
(* the line they are held against brought, however they and their           *)
(* cancellations follow one another - except by what is on second lines: a  *)
(* return that names a material twice has both lines held against the same  *)
(* remainder. Even so no more than twice as much goes back.                 *)
NoMoreThanItBrought ==
    \A d \in OnFile, m \in Materials :
        /\ SentBack(d, m) <= papers[d].first[m] + AgainBack(d, m)
        /\ SentBack(d, m) <= 2 * papers[d].first[m]

=============================================================================
