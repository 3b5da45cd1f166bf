----------------------------- MODULE BooksProofs -----------------------------
(***************************************************************************)
(* The books of a shop: its stock (Stock) and the figures of its papers    *)
(* (Sums), which share nothing but arithmetic.                             *)
(*                                                                         *)
(* The stock ledger, for any number of bills, corrections, papers, counts, *)
(* materials and recipes: what a bill draws and what is put back of it,    *)
(* that no delivery goes back twice, that a count settles the book, and    *)
(* that no more is made than a bill is short of. The recipe walk is a      *)
(* recursive function over the lines of the bill: it exists because the    *)
(* walk of a longer bill extends that of a shorter one, and what holds     *)
(* after every line holds at its end (WalkEnds).                           *)
(*                                                                         *)
(* The papers, for any lines, discounts, taxes, payments and movements:    *)
(* that what is printed on a bill, what is kept of its payments, what the  *)
(* goods of an invoice carry and what an account is aged to come to the    *)
(* same money. Each of these is a fold over a sequence: it exists as the   *)
(* walk does, and is unfolded from its last element.                       *)
(*                                                                         *)
(* Sums are reasoned about by the lemmas of MoneyProofs; folds over sets   *)
(* and sequences, and tallies, by those that stand before the papers.      *)
(***************************************************************************)
EXTENDS Stock, Sums, MoneyProofs, SequenceTheorems

----------------------------------------------------------------------------
(* The ids of rows. *)

\* The ids of a row and its opposite.
Ids(of, rev, part) == [of : {of}, rev : {rev}, part : {part}, undoes : BOOLEAN]
IsId(id) == id \in Ids(id.of, id.rev, id.part)

\* A row carries what it was written with, and undoes nothing.
LEMMA RowId ==
    ASSUME NEW of, NEW rev, NEW part
    PROVE /\ IsId(Row(of, rev, part)) /\ ~Row(of, rev, part).undoes
          /\ Row(of, rev, part).of = of /\ Row(of, rev, part).rev = rev
BY DEF IsId, Ids, Row

\* The two ids are told apart by what they undo.
LEMMA SameId ==
    ASSUME NEW of, NEW rev, NEW part, NEW i \in Ids(of, rev, part), NEW j \in Ids(of, rev, part),
           i.undoes <=> j.undoes
    PROVE i = j
<1>1. i.undoes \in BOOLEAN /\ j.undoes \in BOOLEAN
  BY DEF Ids
<1>2. i.undoes = j.undoes
  BY <1>1
<1>. QED  BY <1>2 DEF Ids

\* The opposite of a row belongs to the same bill, and to that row alone.
LEMMA OppositeId ==
    ASSUME NEW id, IsId(id)
    PROVE /\ IsId(Opposite(id)) /\ Opposite(id).undoes
          /\ Opposite(id).of = id.of /\ Opposite(id).rev = id.rev
          /\ ~id.undoes => [Opposite(id) EXCEPT !.undoes = FALSE] = id
<1>. DEFINE of == id.of  rev == id.rev  part == id.part
<1>1. id \in Ids(of, rev, part)
  BY DEF IsId
<1>. HIDE DEF of, rev, part
<1>2. Opposite(id) \in Ids(of, rev, part) /\ Opposite(id).undoes
  BY <1>1 DEF Opposite, Ids
<1>3. /\ [Opposite(id) EXCEPT !.undoes = FALSE] \in Ids(of, rev, part)
      /\ ~[Opposite(id) EXCEPT !.undoes = FALSE].undoes
  BY <1>2 DEF Ids
<1>4. ~id.undoes => [Opposite(id) EXCEPT !.undoes = FALSE] = id
  BY <1>1, <1>3, SameId
<1>5. Opposite(id).of = of /\ Opposite(id).rev = rev /\ Opposite(id).part = part
  BY <1>2 DEF Ids
<1>. QED  BY <1>2, <1>4, <1>5 DEF IsId, of, rev

\* Two rows with the same opposite are the same row.
LEMMA OneOpposite ==
    ASSUME NEW i, NEW j, IsId(i), IsId(j), ~i.undoes, ~j.undoes, Opposite(i) = Opposite(j)
    PROVE i = j
<1>1. [Opposite(i) EXCEPT !.undoes = FALSE] = i
  BY OppositeId
<1>2. [Opposite(j) EXCEPT !.undoes = FALSE] = j
  BY OppositeId
<1>. QED  BY <1>1, <1>2

----------------------------------------------------------------------------
(* The rows of the ledger. *)

\* Rows are only added, and one that is there keeps its quantities.
LEMMA OnlyAdded ==
    ASSUME NEW rows, Written(rows)
    PROVE /\ DOMAIN ledger' = DOMAIN ledger \cup DOMAIN rows
          /\ \A id \in DOMAIN ledger : ledger'[id] = ledger[id]
          /\ \A id \in DOMAIN rows \ DOMAIN ledger : ledger'[id] = rows[id]
BY DEF Written, With

\* What writing rows does to a ledger whose ids they do not use.
LEMMA WithRows ==
    ASSUME NEW rows, NEW more
    PROVE /\ DOMAIN With(rows, more) = DOMAIN rows \cup DOMAIN more
          /\ \A id \in DOMAIN rows : With(rows, more)[id] = rows[id]
          /\ \A id \in DOMAIN more \ DOMAIN rows : With(rows, more)[id] = more[id]
BY DEF With

\* What a bill draws are rows of its own at its revision.
LEMMA DrawnRows ==
    ASSUME NEW b, NEW rev, NEW sold, NEW from, NEW id \in DOMAIN Drawn(b, rev, sold, from)
    PROVE IsId(id) /\ ~id.undoes /\ id.of = b /\ id.rev = rev
<1>1. PICK part : id = Row(b, rev, part)
  BY DEF Drawn
<1>. QED  BY <1>1, RowId

----------------------------------------------------------------------------
(* The invariant: the ids are ids, and a bill has rows of its own revisions *)
(* only, and none before it is settled.                                     *)

Typed ==
    /\ bills \in [Bills -> [state : {"open", "settled", "returned", "voided"}, rev : Nat]]
    /\ \A b \in Bills : bills[b].state = "open" => bills[b].rev = 0
    /\ \A id \in DOMAIN ledger : IsId(id)

OwnRevisions ==
    \A id \in DOMAIN ledger :
        id.of \in Bills => id.rev \in Nat /\ id.rev <= bills[id.of].rev /\ bills[id.of].state # "open"

\* The part of OnlyTheStandingBillDraws that is about one bill.
Stands(b) ==
    \A id \in Originals(b) :
        IF bills[b].state = "voided" \/ id.rev < bills[b].rev
        THEN Undone(id) ELSE Opposite(id) \notin DOMAIN ledger

AllStand == \A b \in Bills : Stands(b)

Inv == Typed /\ OwnRevisions /\ AllStand

\* What is undone of an order are the opposites of its rows.
LEMMA UndoRows ==
    ASSUME Typed, NEW of
    PROVE /\ \A id \in DOMAIN Undo(of) :
                \E i \in UndoneRows(of) : id = Opposite(i) /\ Undo(of)[id] = Negated(ledger[i])
          /\ \A i \in UndoneRows(of) :
                Opposite(i) \in DOMAIN Undo(of) /\ Undo(of)[Opposite(i)] = Negated(ledger[i])
<1>1. ASSUME NEW i \in UndoneRows(of)
      PROVE [Opposite(i) EXCEPT !.undoes = FALSE] = i
  BY OppositeId DEF UndoneRows, Originals, Typed
<1>2. DOMAIN Undo(of) = {Opposite(i) : i \in UndoneRows(of)}
  BY DEF Undo
<1>3. ASSUME NEW i \in UndoneRows(of)
      PROVE Opposite(i) \in DOMAIN Undo(of) /\ Undo(of)[Opposite(i)] = Negated(ledger[i])
  BY <1>1 DEF Undo
<1>. QED  BY <1>2, <1>3

----------------------------------------------------------------------------
(* What a step that writes rows keeps. *)

\* Rows may be of bills that are no longer open, at their revisions so far.
Allowed(rows) ==
    \A id \in DOMAIN rows :
        /\ IsId(id)
        /\ id.of \in Bills => id.rev \in Nat /\ id.rev <= bills'[id.of].rev /\ bills'[id.of].state # "open"

\* A bill's revision grows, and it is not opened again.
BillsMoveOn ==
    /\ bills' \in [Bills -> [state : {"open", "settled", "returned", "voided"}, rev : Nat]]
    /\ \A b \in Bills : /\ bills'[b].state = "open" => bills'[b].rev = 0
                        /\ bills[b].rev <= bills'[b].rev
                        /\ bills[b].state # "open" => bills'[b].state # "open"

\* Allowed rows keep the shape of the ledger while bills only move on.
LEMMA ShapeKept ==
    ASSUME Typed, OwnRevisions, NEW rows, Written(rows), Allowed(rows), BillsMoveOn
    PROVE Typed' /\ OwnRevisions'
<1>1. DOMAIN ledger' = DOMAIN ledger \cup DOMAIN rows
  BY OnlyAdded
<1>2. \A id \in DOMAIN ledger' : IsId(id)
  BY <1>1 DEF Typed, Allowed
<1>3. ASSUME NEW id \in DOMAIN ledger', id.of \in Bills
      PROVE id.rev \in Nat /\ id.rev <= bills'[id.of].rev /\ bills'[id.of].state # "open"
  <2>1. CASE id \in DOMAIN ledger
    <3>1. id.rev \in Nat /\ id.rev <= bills[id.of].rev /\ bills[id.of].state # "open"
      BY <1>3, <2>1 DEF OwnRevisions
    <3>2. /\ bills[id.of].rev \in Nat /\ bills'[id.of].rev \in Nat
          /\ bills[id.of].rev <= bills'[id.of].rev /\ bills'[id.of].state # "open"
      BY <1>3, <3>1 DEF Typed, BillsMoveOn
    <3>. QED  BY <3>1, <3>2
  <2>2. CASE id \in DOMAIN rows
    BY <1>3, <2>2 DEF Allowed
  <2>. QED  BY <1>1, <2>1, <2>2
<1>. QED  BY <1>2, <1>3 DEF Typed, OwnRevisions, BillsMoveOn

\* Rows of other orders do not touch what a bill drew.
LEMMA OthersKeep ==
    ASSUME Typed, NEW b \in Bills, NEW rows, Written(rows), bills'[b] = bills[b], Stands(b),
           \A id \in DOMAIN rows : IsId(id) /\ id.of # b
    PROVE Stands(b)'
<1>1. /\ DOMAIN ledger' = DOMAIN ledger \cup DOMAIN rows
      /\ \A id \in DOMAIN ledger : ledger'[id] = ledger[id]
  BY OnlyAdded
<1>2. SUFFICES ASSUME NEW id \in Originals(b)'
               PROVE IF bills'[b].state = "voided" \/ id.rev < bills'[b].rev
                     THEN Undone(id)' ELSE Opposite(id) \notin DOMAIN ledger'
  BY DEF Stands
<1>3. id \in DOMAIN ledger' /\ id.of = b /\ ~id.undoes
  BY <1>2 DEF Originals
<1>4. id \in DOMAIN ledger /\ id \in Originals(b) /\ IsId(id)
  BY <1>1, <1>3 DEF Originals, Typed
<1>5. Opposite(id).of = b
  BY <1>3, <1>4, OppositeId
<1>6. Opposite(id) \in DOMAIN ledger' <=> Opposite(id) \in DOMAIN ledger
  BY <1>1, <1>5
<1>7. Undone(id) => Undone(id)'
  BY <1>1, <1>4 DEF Undone
<1>. QED  BY <1>4, <1>6, <1>7 DEF Stands

\* Nothing of the bills changes, and rows of no bill are written.
LEMMA ForeignRows ==
    ASSUME Inv, NEW rows, Written(rows), bills' = bills,
           \A id \in DOMAIN rows : IsId(id) /\ id.of \notin Bills
    PROVE Inv'
<1>1. Allowed(rows)
  BY DEF Allowed
<1>2. BillsMoveOn
  BY DEF BillsMoveOn, Inv, Typed
<1>3. Typed' /\ OwnRevisions'
  BY <1>1, <1>2, ShapeKept DEF Inv
<1>4. ASSUME NEW b \in Bills PROVE Stands(b)'
  <2>1. Typed /\ Stands(b) /\ bills'[b] = bills[b]
    BY DEF Inv, AllStand
  <2>2. \A id \in DOMAIN rows : IsId(id) /\ id.of # b
    OBVIOUS
  <2>. QED  BY <2>1, <2>2, OthersKeep
<1>. QED  BY <1>3, <1>4 DEF Inv, AllStand

\* A step that writes no rows and leaves the bills alone.
LEMMA Untouched == Inv /\ bills' = bills /\ ledger' = ledger => Inv'
BY DEF Inv, Typed, OwnRevisions, AllStand, Stands, Originals, Undone

\* Undoing a bill leaves none of its earlier rows without its opposite.
LEMMA AllUndone ==
    ASSUME Inv, NEW b \in Bills, bills[b].state = "settled", NEW rows, Written(rows),
           \A i \in UndoneRows(b) : Opposite(i) \in DOMAIN rows /\ rows[Opposite(i)] = Negated(ledger[i]),
           NEW id \in Originals(b)
    PROVE Undone(id)'
<1>1. /\ DOMAIN ledger' = DOMAIN ledger \cup DOMAIN rows
      /\ \A i \in DOMAIN ledger : ledger'[i] = ledger[i]
      /\ \A i \in DOMAIN rows \ DOMAIN ledger : ledger'[i] = rows[i]
  BY OnlyAdded
<1>2. id \in DOMAIN ledger
  BY DEF Originals
<1>3. CASE Opposite(id) \notin DOMAIN ledger
  <2>1. id \in UndoneRows(b)
    BY <1>3 DEF UndoneRows
  <2>. QED  BY <1>1, <1>2, <1>3, <2>1 DEF Undone
<1>4. CASE Opposite(id) \in DOMAIN ledger
  <2>1. Undone(id)
    BY <1>4 DEF Inv, AllStand, Stands
  <2>. QED  BY <1>1, <1>2, <2>1 DEF Undone
<1>. QED  BY <1>3, <1>4

----------------------------------------------------------------------------
(* The steps. *)

\* A bill that is settled draws at revision 0, where it had drawn nothing.
LEMMA SettleKeeps ==
    ASSUME Inv, NEW b \in Bills, NEW sold, Settle(b, sold)
    PROVE Inv'
<1>1. /\ bills[b].state = "open" /\ bills[b].rev = 0
      /\ bills' = [bills EXCEPT ![b].state = "settled"]
  BY DEF Settle, Inv, Typed
<1>2. PICK rows : /\ Written(rows)
                  /\ \A id \in DOMAIN rows : IsId(id) /\ ~id.undoes /\ id.of = b /\ id.rev = 0
  <2>. DEFINE undo == IF 0 > 0 THEN Undo(b) ELSE NoRows
              from == Both(book, Total(undo))
              draw == Drawn(b, 0, sold, from)
              rows == IF Draws(b, 0) THEN With(draw, undo) ELSE undo
  <2>1. Written(rows)
    BY DEF Settle, Settles, Moved
  <2>2. DOMAIN undo = {}
    BY DEF NoRows
  <2>3. \A id \in DOMAIN draw : IsId(id) /\ ~id.undoes /\ id.of = b /\ id.rev = 0
    BY DrawnRows
  <2>. HIDE DEF undo, draw
  <2>4. DOMAIN rows \subseteq DOMAIN draw
    <3>1. DOMAIN With(draw, undo) = DOMAIN draw \cup DOMAIN undo
      BY WithRows
    <3>2. rows = With(draw, undo) \/ rows = undo
      OBVIOUS
    <3>. QED  BY <2>2, <3>1, <3>2
  <2>. QED  BY <2>1, <2>3, <2>4
<1>3. BillsMoveOn
  BY <1>1 DEF BillsMoveOn, Inv, Typed
<1>4. Allowed(rows)
  <2>1. bills'[b].rev = 0 /\ bills'[b].state = "settled"
    BY <1>1 DEF Inv, Typed
  <2>. QED  BY <1>2, <2>1 DEF Allowed
<1>5. Typed' /\ OwnRevisions'
  BY <1>2, <1>3, <1>4, ShapeKept DEF Inv
<1>6. Stands(b)'
  <2>1. DOMAIN ledger' = DOMAIN ledger \cup DOMAIN rows
    BY <1>2, OnlyAdded
  <2>2. \A id \in DOMAIN ledger : id.of # b
    BY <1>1 DEF Inv, OwnRevisions
  <2>3. SUFFICES ASSUME NEW id \in Originals(b)'
                 PROVE /\ bills'[b].state # "voided" /\ ~(id.rev < bills'[b].rev)
                       /\ Opposite(id) \notin DOMAIN ledger'
    BY DEF Stands
  <2>4. id \in DOMAIN rows /\ IsId(id) /\ id.of = b /\ id.rev = 0
    BY <1>2, <2>1, <2>2, <2>3 DEF Originals
  <2>5. Opposite(id).of = b /\ Opposite(id).undoes
    BY <2>4, OppositeId
  <2>6. Opposite(id) \notin DOMAIN ledger'
    BY <1>2, <2>1, <2>2, <2>5
  <2>7. bills'[b].state # "voided" /\ bills'[b].rev = 0
    BY <1>1 DEF Inv, Typed
  <2>. QED  BY <2>4, <2>6, <2>7
<1>7. ASSUME NEW o \in Bills, o # b PROVE Stands(o)'
  <2>1. Typed /\ Stands(o) /\ bills'[o] = bills[o]
    BY <1>1, <1>7 DEF Inv, AllStand, Typed
  <2>2. \A id \in DOMAIN rows : IsId(id) /\ id.of # o
    BY <1>2, <1>7
  <2>. QED  BY <1>2, <2>1, <2>2, OthersKeep
<1>. QED  BY <1>5, <1>6, <1>7 DEF Inv, AllStand

\* What is undone of a settled bill are opposites, of its revisions so far.
LEMMA UndoIds ==
    ASSUME Inv, NEW b \in Bills
    PROVE \A id \in DOMAIN Undo(b) :
             IsId(id) /\ id.undoes /\ id.of = b /\ id.rev \in Nat /\ id.rev <= bills[b].rev
<1>1. SUFFICES ASSUME NEW id \in DOMAIN Undo(b)
               PROVE IsId(id) /\ id.undoes /\ id.of = b /\ id.rev \in Nat /\ id.rev <= bills[b].rev
  OBVIOUS
<1>2. PICK i \in UndoneRows(b) : id = Opposite(i)
  BY <1>1, UndoRows DEF Inv
<1>3. i \in DOMAIN ledger /\ i.of = b /\ IsId(i)
  BY DEF UndoneRows, Originals, Inv, Typed
<1>4. i.rev \in Nat /\ i.rev <= bills[b].rev
  BY <1>3 DEF Inv, OwnRevisions
<1>. QED  BY <1>2, <1>3, <1>4, OppositeId

\* A correction puts back the older draw and draws anew.
LEMMA CorrectKeeps ==
    ASSUME Inv, NEW b \in Bills, NEW sold, Correct(b, sold)
    PROVE Inv'
<1>. DEFINE rev == bills[b].rev + 1
<1>1. /\ bills[b].state = "settled" /\ bills[b].rev \in Nat
      /\ bills' = [bills EXCEPT ![b].rev = @ + 1]
  BY DEF Correct, Inv, Typed
<1>2. rev \in Nat /\ bills'[b].rev = rev /\ bills'[b].state = "settled"
  BY <1>1 DEF Inv, Typed
<1>3. PICK rows : /\ Written(rows)
                  /\ \A id \in DOMAIN rows : /\ IsId(id) /\ id.of = b /\ id.rev \in Nat
                                             /\ id.undoes => id.rev <= bills[b].rev
                                             /\ ~id.undoes => id.rev = rev
                  /\ \A i \in UndoneRows(b) : /\ Opposite(i) \in DOMAIN rows
                                              /\ rows[Opposite(i)] = Negated(ledger[i])
  <2>. DEFINE undo == IF rev > 0 THEN Undo(b) ELSE NoRows
              from == Both(book, Total(undo))
              draw == Drawn(b, rev, sold, from)
              rows == IF Draws(b, rev) THEN With(draw, undo) ELSE undo
  <2>1. Written(rows)
    BY DEF Correct, Settles, Moved
  <2>2. undo = Undo(b)
    BY <1>1
  <2>3. \A id \in DOMAIN draw : IsId(id) /\ ~id.undoes /\ id.of = b /\ id.rev = rev
    BY DrawnRows
  <2>4. \A id \in DOMAIN undo :
           IsId(id) /\ id.undoes /\ id.of = b /\ id.rev \in Nat /\ id.rev <= bills[b].rev
    BY <2>2, UndoIds
  <2>5. \A i \in UndoneRows(b) : Opposite(i) \in DOMAIN undo /\ undo[Opposite(i)] = Negated(ledger[i])
    BY <2>2, UndoRows DEF Inv
  <2>. HIDE DEF undo, draw, rev
  <2>6. /\ DOMAIN undo \subseteq DOMAIN rows
        /\ DOMAIN rows \subseteq DOMAIN draw \cup DOMAIN undo
        /\ \A id \in DOMAIN undo \ DOMAIN draw : rows[id] = undo[id]
    <3>1. /\ DOMAIN With(draw, undo) = DOMAIN draw \cup DOMAIN undo
          /\ \A id \in DOMAIN undo \ DOMAIN draw : With(draw, undo)[id] = undo[id]
      BY WithRows
    <3>2. rows = With(draw, undo) \/ rows = undo
      OBVIOUS
    <3>. HIDE DEF rows
    <3>. QED  BY <3>1, <3>2
  <2>7. ASSUME NEW i \in UndoneRows(b)
        PROVE Opposite(i) \in DOMAIN rows /\ rows[Opposite(i)] = Negated(ledger[i])
    <3>1. Opposite(i) \in DOMAIN undo /\ Opposite(i) \notin DOMAIN draw
      BY <2>3, <2>4, <2>5
    <3>. QED  BY <2>5, <2>6, <3>1
  <2>. HIDE DEF rows
  <2>8. ASSUME NEW id \in DOMAIN rows
        PROVE /\ IsId(id) /\ id.of = b /\ id.rev \in Nat
              /\ id.undoes => id.rev <= bills[b].rev
              /\ ~id.undoes => id.rev = rev
    BY <1>2, <2>3, <2>4, <2>6
  <2>. QED  BY <2>1, <2>7, <2>8
<1>. HIDE DEF rev
<1>4. BillsMoveOn
  BY <1>1 DEF BillsMoveOn, Inv, Typed
<1>5. Allowed(rows)
  <2>1. \A id \in DOMAIN rows : id.rev <= rev
    BY <1>1, <1>2, <1>3 DEF rev
  <2>. QED  BY <1>2, <1>3, <2>1 DEF Allowed
<1>6. Typed' /\ OwnRevisions'
  BY <1>3, <1>4, <1>5, ShapeKept DEF Inv
<1>7. Stands(b)'
  <2>1. DOMAIN ledger' = DOMAIN ledger \cup DOMAIN rows
    BY <1>3, OnlyAdded
  <2>2. SUFFICES ASSUME NEW id \in Originals(b)'
                 PROVE IF id.rev < rev THEN Undone(id)' ELSE Opposite(id) \notin DOMAIN ledger'
    BY <1>2 DEF Stands
  <2>3. id \in DOMAIN ledger' /\ id.of = b /\ ~id.undoes
    BY <2>2 DEF Originals
  <2>4. \A i \in DOMAIN ledger : i.of = b => i.rev \in Nat /\ i.rev < rev
    BY <1>1 DEF Inv, OwnRevisions, rev
  <2>5. CASE id \in DOMAIN ledger
    <3>1. id \in Originals(b)
      BY <2>3, <2>5 DEF Originals
    <3>2. Undone(id)'
      BY <1>1, <1>3, <3>1, AllUndone
    <3>. QED  BY <2>3, <2>4, <2>5, <3>2
  <2>6. CASE id \notin DOMAIN ledger
    <3>1. id \in DOMAIN rows /\ id.rev = rev /\ IsId(id)
      BY <1>3, <2>1, <2>3, <2>6
    <3>2. Opposite(id).of = b /\ Opposite(id).rev = rev /\ Opposite(id).undoes
      BY <2>3, <3>1, OppositeId
    <3>3. Opposite(id) \notin DOMAIN ledger
      BY <1>2, <2>4, <3>2
    <3>4. Opposite(id) \notin DOMAIN rows
      BY <1>1, <1>3, <3>2 DEF rev
    <3>5. ~(id.rev < rev)
      BY <1>2, <3>1
    <3>. QED  BY <2>1, <3>3, <3>4, <3>5
  <2>. QED  BY <2>5, <2>6
<1>8. ASSUME NEW o \in Bills, o # b PROVE Stands(o)'
  <2>1. Typed /\ Stands(o) /\ bills'[o] = bills[o]
    BY <1>1, <1>8 DEF Inv, AllStand, Typed
  <2>2. \A id \in DOMAIN rows : IsId(id) /\ id.of # o
    BY <1>3, <1>8
  <2>. QED  BY <1>3, <2>1, <2>2, OthersKeep
<1>. QED  BY <1>6, <1>7, <1>8 DEF Inv, AllStand

\* Voiding undoes what still stands, unless the food was eaten.
LEMMA VoidKeeps ==
    ASSUME Inv, NEW b \in Bills, NEW eaten \in BOOLEAN, Void(b, eaten)
    PROVE Inv'
<1>. DEFINE rows == IF eaten THEN NoRows ELSE Undo(b)
<1>1. /\ bills[b].state = "settled" /\ bills[b].rev \in Nat
      /\ bills' = [bills EXCEPT ![b].state = IF eaten THEN "returned" ELSE "voided"]
      /\ Written(rows)
  BY DEF Void, Moved, Inv, Typed
<1>2. /\ bills'[b].state = (IF eaten THEN "returned" ELSE "voided")
      /\ bills'[b].rev = bills[b].rev
  BY <1>1 DEF Inv, Typed
<1>3. \A id \in DOMAIN rows : ~eaten /\ id \in DOMAIN Undo(b)
  BY DEF NoRows
<1>4. \A id \in DOMAIN rows :
         IsId(id) /\ id.undoes /\ id.of = b /\ id.rev \in Nat /\ id.rev <= bills[b].rev
  BY <1>3, UndoIds
<1>5. ~eaten => \A i \in UndoneRows(b) : /\ Opposite(i) \in DOMAIN rows
                                         /\ rows[Opposite(i)] = Negated(ledger[i])
  BY UndoRows DEF Inv
<1>. HIDE DEF rows
<1>6. BillsMoveOn
  BY <1>1 DEF BillsMoveOn, Inv, Typed
<1>7. Allowed(rows)
  BY <1>2, <1>4 DEF Allowed
<1>8. Typed' /\ OwnRevisions'
  BY <1>1, <1>6, <1>7, ShapeKept DEF Inv
<1>9. Stands(b)'
  <2>1. /\ DOMAIN ledger' = DOMAIN ledger \cup DOMAIN rows
        /\ \A id \in DOMAIN ledger : ledger'[id] = ledger[id]
    BY <1>1, OnlyAdded
  <2>2. \A id \in Originals(b)' : id \in Originals(b)
    BY <1>4, <2>1 DEF Originals
  <2>3. CASE eaten
    <3>1. DOMAIN ledger' = DOMAIN ledger
      BY <1>3, <2>1, <2>3
    <3>2. Stands(b)
      BY DEF Inv, AllStand
    <3>3. ASSUME NEW id \in Originals(b)'
          PROVE IF id.rev < bills'[b].rev THEN Undone(id)' ELSE Opposite(id) \notin DOMAIN ledger'
      <4>1. id \in Originals(b) /\ id \in DOMAIN ledger
        BY <2>2, <3>3 DEF Originals
      <4>2. IF id.rev < bills[b].rev THEN Undone(id) ELSE Opposite(id) \notin DOMAIN ledger
        BY <1>1, <3>2, <4>1 DEF Stands
      <4>3. Undone(id) => Undone(id)'
        BY <2>1, <3>1, <4>1 DEF Undone
      <4>. QED  BY <1>2, <3>1, <4>2, <4>3
    <3>. QED  BY <1>2, <2>3, <3>3 DEF Stands
  <2>4. CASE ~eaten
    <3>1. \A id \in Originals(b) : Undone(id)'
      BY <1>1, <1>5, <2>4, AllUndone
    <3>. QED  BY <1>2, <2>2, <2>4, <3>1 DEF Stands
  <2>. QED  BY <2>3, <2>4
<1>10. ASSUME NEW o \in Bills, o # b PROVE Stands(o)'
  <2>1. Typed /\ Stands(o) /\ bills'[o] = bills[o]
    BY <1>1, <1>10 DEF Inv, AllStand, Typed
  <2>2. \A id \in DOMAIN rows : IsId(id) /\ id.of # o
    BY <1>4, <1>10
  <2>. QED  BY <1>1, <2>1, <2>2, OthersKeep
<1>. QED  BY <1>8, <1>9, <1>10 DEF Inv, AllStand

\* One row of no bill.
LEMMA OneForeignRow ==
    ASSUME Inv, NEW of, of \notin Bills, NEW rev, NEW part, NEW qty,
           Written(OneRow(Row(of, rev, part), qty)), bills' = bills
    PROVE Inv'
<1>1. \A id \in DOMAIN OneRow(Row(of, rev, part), qty) : IsId(id) /\ id.of \notin Bills
  BY RowId DEF OneRow
<1>. QED  BY <1>1, ForeignRows

\* Cancelling a paper undoes rows of the paper, and of no bill.
LEMMA CancelKeeps ==
    ASSUME Inv, NEW p \in Papers, Cancel(p)
    PROVE Inv'
<1>1. Written(Undo(p)) /\ bills' = bills
  BY DEF Cancel, Moved
<1>2. ASSUME NEW id \in DOMAIN Undo(p) PROVE IsId(id) /\ id.of \notin Bills
  <2>1. PICK i \in UndoneRows(p) : id = Opposite(i)
    BY <1>2, UndoRows DEF Inv
  <2>2. i \in DOMAIN ledger /\ i.of = p /\ IsId(i)
    BY DEF UndoneRows, Originals, Inv, Typed
  <2>. QED  BY <2>1, <2>2, OppositeId, StockAssumption
<1>. QED  BY <1>1, <1>2, ForeignRows

\* Approving a count writes rows of the count, and of no bill.
LEMMA ApproveKeeps ==
    ASSUME Inv, Approve
    PROVE Inv'
<1>1. bills' = bills
  BY DEF Approve
<1>2. PICK found : Written(IF found = Nothing THEN NoRows
                           ELSE OneRow(Row("count", count.no, "count"), found))
  BY DEF Approve
<1>3. "count" \notin Bills
  BY StockAssumption
<1>4. CASE found = Nothing
  <2>1. \A id \in DOMAIN NoRows : IsId(id) /\ id.of \notin Bills
    BY DEF NoRows
  <2>. QED  BY <1>1, <1>2, <1>4, <2>1, ForeignRows
<1>5. CASE found # Nothing
  BY <1>1, <1>2, <1>3, <1>5, OneForeignRow
<1>. QED  BY <1>4, <1>5

\* No bill has drawn anything at the start.
LEMMA StartsSo == Init => Inv
<1>. SUFFICES ASSUME Init PROVE Inv
  OBVIOUS
<1>1. ledger = OneRow(Row("hand", 0, "hand"), book) /\ bills = [b \in Bills |-> [state |-> "open", rev |-> 0]]
  BY DEF Init
<1>2. \A id \in DOMAIN ledger : IsId(id) /\ id.of \notin Bills
  BY <1>1, RowId, StockAssumption DEF OneRow
<1>3. Typed
  BY <1>1, <1>2 DEF Typed
<1>. QED  BY <1>2, <1>3 DEF Inv, OwnRevisions, AllStand, Stands, Originals

\* Every step keeps what the ledger says of the bills.
LEMMA StepKeeps == Inv /\ [Next]_vars => Inv'
<1>. SUFFICES ASSUME Inv, [Next]_vars PROVE Inv'
  OBVIOUS
<1>1. CASE UNCHANGED vars
  BY <1>1, Untouched DEF vars
<1>2. ASSUME NEW b \in Bills, NEW sold \in Carts, Settle(b, sold) PROVE Inv'
  BY <1>2, SettleKeeps
<1>3. ASSUME NEW b \in Bills, NEW sold \in Carts, Correct(b, sold) PROVE Inv'
  BY <1>3, CorrectKeeps
<1>4. ASSUME NEW b \in Bills, NEW eaten \in BOOLEAN, Void(b, eaten) PROVE Inv'
  BY <1>4, VoidKeeps
<1>5. ASSUME NEW p \in Papers, Cancel(p) PROVE Inv'
  BY <1>5, CancelKeeps
<1>6. ASSUME NEW p \in Papers, NEW lines \in Slips, Deliver(p, lines) PROVE Inv'
  <2>1. /\ Written(OneRow(Row(p, 0, "goods"), Both(lines.first, lines.again)))
        /\ bills' = bills /\ p \notin Bills
    BY <1>6, StockAssumption DEF Deliver, Moved
  <2>. QED  BY <2>1, OneForeignRow
<1>7. ASSUME NEW p \in Papers, NEW d \in Papers, NEW lines \in Slips, SendBack(p, d, lines) PROVE Inv'
  <2>1. /\ Written(OneRow(Row(p, 0, "goods"), Negated(Both(lines.first, lines.again))))
        /\ bills' = bills /\ p \notin Bills
    BY <1>7, StockAssumption DEF SendBack, Moved
  <2>. QED  BY <2>1, OneForeignRow
<1>8. ASSUME NEW o \in Owners, NEW r \in Recipes, SaveRecipe(o, r) PROVE Inv'
  BY <1>8, Untouched DEF SaveRecipe
<1>9. ASSUME NEW o \in Owners, DeleteRecipe(o) PROVE Inv'
  BY <1>9, Untouched DEF DeleteRecipe
<1>10. ASSUME NEW m \in Materials, Lose(m) PROVE Inv'
  BY <1>10, Untouched DEF Lose
<1>11. ASSUME NEW m \in Materials, NEW qty, Move(m, qty) PROVE Inv'
  <2>1. PICK rev, moved : Written(OneRow(Row("hand", rev, "hand"), moved))
    BY <1>11 DEF Move, Moved
  <2>2. bills' = bills /\ "hand" \notin Bills
    BY <1>11, StockAssumption DEF Move
  <2>. QED  BY <2>1, <2>2, OneForeignRow
<1>12. CASE OpenCount \/ Abandon \/ \E m \in Materials : RecordLine(m) \/ RemoveLine(m)
  BY <1>12, Untouched DEF OpenCount, Abandon, RecordLine, RemoveLine
<1>13. CASE Approve
  BY <1>13, ApproveKeeps
<1>14. CASE Selling
  BY <1>14, <1>2, <1>3, <1>4 DEF Selling
<1>15. CASE Buying
  BY <1>15, <1>5, <1>6, <1>7 DEF Buying
<1>16. CASE Keeping
  BY <1>16, <1>8, <1>9, <1>10, <1>11 DEF Keeping
<1>17. CASE Counting
  BY <1>17, <1>12, <1>13 DEF Counting
<1>. QED  BY <1>1, <1>14, <1>15, <1>16, <1>17 DEF Next

\* Only the standing version of a bill holds what it drew (`reverse_for_bill`
\* and `deduct_for_bill` together), whatever is bought, counted, saved as a
\* recipe or deleted in between.
THEOREM OnlyStandingDraws == Spec => []OnlyTheStandingBillDraws
<1>1. Inv => OnlyTheStandingBillDraws
  BY DEF Inv, AllStand, Stands, OnlyTheStandingBillDraws
<1>. QED  BY <1>1, StartsSo, StepKeeps, PTL DEF Spec

----------------------------------------------------------------------------
(* Papers and what goes back on them. *)

Paper == [state : {"none", "standing", "cancelled"}, of : Papers \cup {NoPaper},
          first : [Materials -> Nat], again : [Materials -> Nat]]

\* A paper that is not written returns nothing, and one that goes back on
\* another goes back on one that is written.
PapersTyped ==
    /\ papers \in [Papers -> Paper]
    /\ \A p \in Papers : papers[p].state = "none" => papers[p].of = NoPaper
    /\ \A p \in Papers : papers[p].of # NoPaper => papers[papers[p].of].state # "none"

ReturnsInv == PapersTyped /\ NoMoreThanItBrought

FirstOf(ps, m) == [p \in Papers |-> ps[p].first[m]]
AgainOf(ps, m) == [p \in Papers |-> ps[p].again[m]]

\* What went back on a paper are two sums over its returns.
LEMMA SentBackIs ==
    ASSUME NEW d, NEW m
    PROVE /\ FirstBack(d, m) = SumFunctionOnSet(FirstOf(papers, m), ReturnsOf(d))
          /\ AgainBack(d, m) = SumFunctionOnSet(AgainOf(papers, m), ReturnsOf(d))
          /\ FirstBack(d, m)' = SumFunctionOnSet(FirstOf(papers', m), ReturnsOf(d)')
          /\ AgainBack(d, m)' = SumFunctionOnSet(AgainOf(papers', m), ReturnsOf(d)')
BY DEF FirstBack, AgainBack, FirstOf, AgainOf

\* The returns on a paper are finitely many, each of natural quantities.
LEMMA ReturnsAreFew ==
    ASSUME PapersTyped, NEW d, NEW m \in Materials
    PROVE /\ IsFiniteSet(ReturnsOf(d)) /\ ReturnsOf(d) \subseteq Papers
          /\ \A p \in ReturnsOf(d) : FirstOf(papers, m)[p] \in Nat /\ AgainOf(papers, m)[p] \in Nat
<1>1. ReturnsOf(d) \subseteq Papers
  BY DEF ReturnsOf
<1>. QED  BY <1>1, FS_Subset, StockAssumption DEF PapersTyped, Paper, FirstOf, AgainOf

\* What went back is a natural number.
LEMMA SentBackIsNat ==
    ASSUME PapersTyped, NEW d, NEW m \in Materials
    PROVE FirstBack(d, m) \in Nat /\ AgainBack(d, m) \in Nat
<1>1. /\ IsFiniteSet(ReturnsOf(d))
      /\ \A p \in ReturnsOf(d) : FirstOf(papers, m)[p] \in Nat /\ AgainOf(papers, m)[p] \in Nat
  BY ReturnsAreFew
<1>. QED  BY <1>1, SumIsNat, SentBackIs

\* The bound of NoMoreThanItBrought for one line.
Within(brought, first, again) == first <= brought /\ first + again <= 2 * brought

\* That the returns on a paper are within its line, said of the two sums.
LEMMA WithinSaid ==
    ASSUME PapersTyped, NEW d \in Papers, NEW m \in Materials
    PROVE Within(papers[d].first[m], FirstBack(d, m), AgainBack(d, m)) <=>
              /\ SentBack(d, m) <= papers[d].first[m] + AgainBack(d, m)
              /\ SentBack(d, m) <= 2 * papers[d].first[m]
<1>1. PICK x \in Nat, y \in Nat, z \in Nat :
          x = papers[d].first[m] /\ y = FirstBack(d, m) /\ z = AgainBack(d, m)
  BY SentBackIsNat DEF PapersTyped, Paper
<1>2. SentBack(d, m) = y + z
  BY <1>1 DEF SentBack
<1>. QED  BY <1>1, <1>2 DEF Within

AllWithin == \A d \in OnFile, m \in Materials :
    Within(papers[d].first[m], FirstBack(d, m), AgainBack(d, m))

\* The invariant is that bound for every paper and material.
LEMMA WithinIs == PapersTyped => (NoMoreThanItBrought <=> AllWithin)
BY WithinSaid DEF NoMoreThanItBrought, AllWithin, OnFile

\* The same returns with the same lines are the same sums.
LEMMA SameReturns ==
    ASSUME PapersTyped, NEW d, NEW m \in Materials, ReturnsOf(d)' = ReturnsOf(d),
           \A p \in ReturnsOf(d) : papers'[p].first = papers[p].first /\ papers'[p].again = papers[p].again
    PROVE FirstBack(d, m)' = FirstBack(d, m) /\ AgainBack(d, m)' = AgainBack(d, m)
<1>1. IsFiniteSet(ReturnsOf(d)) /\ ReturnsOf(d) \subseteq Papers
  BY ReturnsAreFew
<1>2. \A p \in ReturnsOf(d) : /\ FirstOf(papers', m)[p] = FirstOf(papers, m)[p]
                              /\ AgainOf(papers', m)[p] = AgainOf(papers, m)[p]
  BY <1>1 DEF FirstOf, AgainOf
<1>3. /\ SumFunctionOnSet(FirstOf(papers', m), ReturnsOf(d)) = SumFunctionOnSet(FirstOf(papers, m), ReturnsOf(d))
      /\ SumFunctionOnSet(AgainOf(papers', m), ReturnsOf(d)) = SumFunctionOnSet(AgainOf(papers, m), ReturnsOf(d))
  BY <1>1, <1>2, SumOfSame
<1>. QED  BY <1>3, SentBackIs

\* One more return adds its lines to the sums.
LEMMA OneMoreReturn ==
    ASSUME NEW f, NEW g, NEW S, IsFiniteSet(S), NEW q, q \notin S, g[q] \in Nat,
           \A p \in S : f[p] \in Nat /\ g[p] = f[p]
    PROVE SumFunctionOnSet(g, S \cup {q}) = g[q] + SumFunctionOnSet(f, S)
<1>1. \A p \in S : g[p] \in Int
  OBVIOUS
<1>2. SumFunctionOnSet(g, S \cup {q}) = g[q] + SumFunctionOnSet(g, S)
  BY <1>1, SumAdd
<1>3. SumFunctionOnSet(g, S) = SumFunctionOnSet(f, S)
  BY SumOfSame
<1>. QED  BY <1>2, <1>3

\* One return less leaves no more in the sum.
LEMMA OneReturnLess ==
    ASSUME NEW f, NEW S, IsFiniteSet(S), \A p \in S : f[p] \in Nat, NEW q \in S
    PROVE SumFunctionOnSet(f, S \ {q}) \in Nat /\ SumFunctionOnSet(f, S \ {q}) <= SumFunctionOnSet(f, S)
<1>1. SumFunctionOnSet(f, S) = f[q] + SumFunctionOnSet(f, S \ {q})
  BY SumRemove
<1>2. IsFiniteSet(S \ {q}) /\ \A p \in S \ {q} : f[p] \in Nat
  BY FS_RemoveElement
<1>3. SumFunctionOnSet(f, S \ {q}) \in Nat
  BY <1>2, SumIsNat
<1>4. PICK x \in Nat, y \in Nat : x = f[q] /\ y = SumFunctionOnSet(f, S \ {q})
  BY <1>3
<1>. QED  BY <1>1, <1>4

\* Writing a paper writes it alone, and its kind stays what a paper is.
LEMMA WritingTyped ==
    ASSUME PapersTyped, NEW q \in Papers, NEW of \in Papers \cup {NoPaper}, NEW lines \in Slips,
           Write(q, of, lines), of # NoPaper => of \in OnFile
    PROVE /\ papers[q].state = "none" /\ papers[q].of = NoPaper
          /\ papers'[q] = [state |-> "standing", of |-> of, first |-> lines.first, again |-> lines.again]
          /\ \A p \in Papers \ {q} : papers'[p] = papers[p]
          /\ lines.first \in [Materials -> Nat] /\ lines.again \in [Materials -> Nat]
          /\ PapersTyped'
<1>. DEFINE new == [state |-> "standing", of |-> of, first |-> lines.first, again |-> lines.again]
<1>1. papers[q].state = "none" /\ papers' = [papers EXCEPT ![q] = new]
  BY DEF Write
<1>2. papers[q].of = NoPaper /\ papers'[q] = new /\ \A p \in Papers \ {q} : papers'[p] = papers[p]
  BY <1>1 DEF PapersTyped
<1>3. lines.first \in [Materials -> Nat] /\ lines.again \in [Materials -> Nat]
  BY StockAssumption
<1>4. papers' \in [Papers -> Paper]
  BY <1>1, <1>3 DEF PapersTyped, Paper
<1>5. \A p \in Papers : papers'[p].state = "none" => papers'[p].of = NoPaper
  BY <1>2 DEF PapersTyped
<1>6. of # NoPaper => of \in Papers /\ of # q /\ papers[of].state # "none"
  BY <1>1 DEF OnFile
<1>7. \A p \in Papers : papers'[p].of # NoPaper => papers'[papers'[p].of].state # "none"
  BY <1>2, <1>6 DEF PapersTyped, Paper
<1>. QED  BY <1>1, <1>2, <1>3, <1>4, <1>5, <1>7 DEF PapersTyped

\* A new delivery has no returns yet.
LEMMA DeliverKeepsReturns ==
    ASSUME ReturnsInv, NEW q \in Papers, NEW lines \in Slips, Deliver(q, lines)
    PROVE ReturnsInv'
<1>1. PapersTyped /\ AllWithin /\ Write(q, NoPaper, lines)
  BY WithinIs DEF ReturnsInv, Deliver
<1>2. /\ papers[q].state = "none"
      /\ papers'[q] = [state |-> "standing", of |-> NoPaper, first |-> lines.first, again |-> lines.again]
      /\ \A p \in Papers \ {q} : papers'[p] = papers[p]
      /\ lines.first \in [Materials -> Nat] /\ PapersTyped'
  BY <1>1, WritingTyped
<1>3. ASSUME NEW d \in OnFile', NEW m \in Materials
      PROVE Within(papers[d].first[m], FirstBack(d, m), AgainBack(d, m))'
  <2>1. d \in Papers /\ d # NoPaper
    BY StockAssumption DEF OnFile
  <2>2. ReturnsOf(d)' = ReturnsOf(d)
    BY <1>2, <2>1 DEF ReturnsOf
  <2>3. \A p \in ReturnsOf(d) : papers'[p].first = papers[p].first /\ papers'[p].again = papers[p].again
    BY <1>2 DEF ReturnsOf
  <2>4. FirstBack(d, m)' = FirstBack(d, m) /\ AgainBack(d, m)' = AgainBack(d, m)
    BY <1>1, <2>2, <2>3, SameReturns
  <2>5. CASE d # q
    <3>1. d \in OnFile /\ papers'[d] = papers[d]
      BY <1>2, <2>1, <2>5 DEF OnFile
    <3>2. Within(papers[d].first[m], FirstBack(d, m), AgainBack(d, m))
      BY <1>1, <3>1 DEF AllWithin
    <3>. QED  BY <2>4, <3>1, <3>2
  <2>6. CASE d = q
    <3>1. ReturnsOf(d) = {}
      BY <1>1, <1>2, <2>1, <2>6 DEF ReturnsOf, PapersTyped
    <3>2. FirstBack(d, m) = 0 /\ AgainBack(d, m) = 0
      BY <3>1, SentBackIs, SumOfNone
    <3>3. papers'[d].first[m] \in Nat
      BY <1>2, <2>6
    <3>. QED  BY <2>4, <3>2, <3>3 DEF Within
  <2>. QED  BY <2>5, <2>6
<1>4. AllWithin'
  BY <1>3 DEF AllWithin
<1>. QED  BY <1>2, <1>4, WithinIs, PTL DEF ReturnsInv

\* The lines of a return are held against what is left of its paper's line.
LEMMA SendBackKeepsReturns ==
    ASSUME ReturnsInv, NEW q \in Papers, NEW e \in Papers, NEW lines \in Slips, SendBack(q, e, lines)
    PROVE ReturnsInv'
<1>1. PapersTyped /\ AllWithin /\ Write(q, e, lines) /\ e \in OnFile /\ e # NoPaper
  BY WithinIs, StockAssumption DEF ReturnsInv, SendBack
<1>2. /\ papers[q].state = "none"
      /\ papers'[q] = [state |-> "standing", of |-> e, first |-> lines.first, again |-> lines.again]
      /\ \A p \in Papers \ {q} : papers'[p] = papers[p]
      /\ lines.first \in [Materials -> Nat] /\ lines.again \in [Materials -> Nat] /\ PapersTyped'
  BY <1>1, WritingTyped
<1>3. ASSUME NEW d \in OnFile', NEW m \in Materials
      PROVE Within(papers[d].first[m], FirstBack(d, m), AgainBack(d, m))'
  <2>1. d \in Papers
    BY DEF OnFile
  <2>2. \A p \in ReturnsOf(d) : p # q /\ papers'[p].first = papers[p].first /\ papers'[p].again = papers[p].again
    BY <1>2 DEF ReturnsOf
  <2>3. CASE d # e
    <3>1. ReturnsOf(d)' = ReturnsOf(d)
      BY <1>2, <2>3 DEF ReturnsOf
    <3>2. FirstBack(d, m)' = FirstBack(d, m) /\ AgainBack(d, m)' = AgainBack(d, m)
      BY <1>1, <2>2, <3>1, SameReturns
    <3>3. CASE d # q
      <4>1. d \in OnFile /\ papers'[d] = papers[d]
        BY <1>2, <2>1, <3>3 DEF OnFile
      <4>2. Within(papers[d].first[m], FirstBack(d, m), AgainBack(d, m))
        BY <1>1, <4>1 DEF AllWithin
      <4>. QED  BY <3>2, <4>1, <4>2
    <3>4. CASE d = q
      <4>1. d # NoPaper
        BY <2>1, StockAssumption
      <4>2. ReturnsOf(d) = {}
        BY <1>1, <1>2, <2>1, <3>4, <4>1 DEF ReturnsOf, PapersTyped
      <4>3. FirstBack(d, m) = 0 /\ AgainBack(d, m) = 0
        BY <4>2, SentBackIs, SumOfNone
      <4>4. papers'[d].first[m] \in Nat
        BY <1>2, <3>4
      <4>. QED  BY <3>2, <4>3, <4>4 DEF Within
    <3>. QED  BY <3>3, <3>4
  <2>4. CASE d = e
    <3>. DEFINE S == ReturnsOf(e)
    <3>1. ReturnsOf(e)' = S \cup {q} /\ q \notin S
      BY <1>2, <2>2, <2>4 DEF ReturnsOf
    <3>2. /\ IsFiniteSet(S) /\ S \subseteq Papers
          /\ \A p \in S : FirstOf(papers, m)[p] \in Nat /\ AgainOf(papers, m)[p] \in Nat
      BY <1>1, ReturnsAreFew
    <3>3. \A p \in S : /\ FirstOf(papers', m)[p] = FirstOf(papers, m)[p]
                       /\ AgainOf(papers', m)[p] = AgainOf(papers, m)[p]
      BY <2>2, <2>4, <3>2 DEF FirstOf, AgainOf
    <3>4. /\ FirstOf(papers', m)[q] = lines.first[m] /\ lines.first[m] \in Nat
          /\ AgainOf(papers', m)[q] = lines.again[m] /\ lines.again[m] \in Nat
      BY <1>2 DEF FirstOf, AgainOf
    <3>. HIDE DEF S
    <3>5. /\ SumFunctionOnSet(FirstOf(papers', m), S \cup {q}) = lines.first[m] + SumFunctionOnSet(FirstOf(papers, m), S)
          /\ SumFunctionOnSet(AgainOf(papers', m), S \cup {q}) = lines.again[m] + SumFunctionOnSet(AgainOf(papers, m), S)
      BY <3>1, <3>2, <3>3, <3>4, OneMoreReturn
    <3>6. /\ FirstBack(e, m)' = lines.first[m] + FirstBack(e, m)
          /\ AgainBack(e, m)' = lines.again[m] + AgainBack(e, m)
      BY <3>1, <3>5, SentBackIs DEF S
    <3>7. PICK x \in Nat, y \in Nat, z \in Nat, f \in Nat, a \in Nat :
             /\ x = papers[e].first[m] /\ y = FirstBack(e, m) /\ z = AgainBack(e, m)
             /\ f = lines.first[m] /\ a = lines.again[m]
      BY <1>1, <3>4, SentBackIsNat DEF PapersTyped, Paper
    <3>8. Within(x, y, z)
      BY <1>1, <3>7 DEF AllWithin
    <3>9. (f > 0 => f <= x - (y + z)) /\ (a > 0 => a <= x - (y + z))
      BY <3>7 DEF SendBack, Returnable, SentBack
    <3>10. Within(x, f + y, a + z)
      BY <3>8, <3>9 DEF Within
    <3>11. papers'[e].first = papers[e].first
      BY <1>1, <1>2 DEF OnFile
    <3>. QED  BY <2>4, <3>6, <3>7, <3>10, <3>11
  <2>. QED  BY <2>3, <2>4
<1>4. AllWithin'
  BY <1>3 DEF AllWithin
<1>. QED  BY <1>2, <1>4, WithinIs, PTL DEF ReturnsInv

\* Cancelling a paper takes no returns away and adds none.
LEMMA CancelKeepsReturns ==
    ASSUME ReturnsInv, NEW q \in Papers, Cancel(q)
    PROVE ReturnsInv'
<1>1. PapersTyped /\ AllWithin
  BY WithinIs DEF ReturnsInv
<1>2. papers[q].state = "standing" /\ papers' = [papers EXCEPT ![q].state = "cancelled"]
  BY DEF Cancel
<1>3. /\ papers'[q].of = papers[q].of /\ papers'[q].state = "cancelled"
      /\ papers'[q].first = papers[q].first /\ papers'[q].again = papers[q].again
      /\ \A p \in Papers \ {q} : papers'[p] = papers[p]
  BY <1>1, <1>2 DEF PapersTyped, Paper
<1>4. PapersTyped'
  <2>1. papers' \in [Papers -> Paper]
    BY <1>1, <1>2 DEF PapersTyped, Paper
  <2>2. \A p \in Papers : papers'[p].state = "none" => papers'[p].of = NoPaper
    BY <1>1, <1>3 DEF PapersTyped
  <2>3. \A p \in Papers : papers'[p].of # NoPaper => papers'[papers'[p].of].state # "none"
    BY <1>1, <1>3 DEF PapersTyped, Paper
  <2>. QED  BY <2>1, <2>2, <2>3 DEF PapersTyped
<1>5. \A p \in Papers : /\ papers'[p].of = papers[p].of
                        /\ papers'[p].first = papers[p].first /\ papers'[p].again = papers[p].again
  BY <1>3
<1>6. ASSUME NEW d \in OnFile', NEW m \in Materials
      PROVE Within(papers[d].first[m], FirstBack(d, m), AgainBack(d, m))'
  <2>1. d \in Papers /\ d \in OnFile /\ papers'[d].first = papers[d].first
    BY <1>2, <1>3, <1>5 DEF OnFile
  <2>2. Within(papers[d].first[m], FirstBack(d, m), AgainBack(d, m))
    BY <1>1, <2>1 DEF AllWithin
  <2>3. CASE papers[q].of # d
    <3>1. ReturnsOf(d)' = ReturnsOf(d)
      BY <1>2, <1>3, <2>3 DEF ReturnsOf
    <3>2. \A p \in ReturnsOf(d) : papers'[p].first = papers[p].first /\ papers'[p].again = papers[p].again
      BY <1>5 DEF ReturnsOf
    <3>. QED  BY <1>1, <2>1, <2>2, <3>1, <3>2, SameReturns
  <2>4. CASE papers[q].of = d
    <3>. DEFINE f == FirstOf(papers, m)  g == AgainOf(papers, m)  S == ReturnsOf(d)
    <3>1. ReturnsOf(d)' = S \ {q} /\ q \in S
      BY <1>2, <1>3, <2>4 DEF ReturnsOf
    <3>2. IsFiniteSet(S) /\ (\A p \in S : f[p] \in Nat) /\ \A p \in S : g[p] \in Nat
      BY <1>1, ReturnsAreFew
    <3>3. FirstOf(papers', m) = f /\ AgainOf(papers', m) = g
      BY <1>5 DEF FirstOf, AgainOf
    <3>. HIDE DEF f, g, S
    <3>4. /\ SumFunctionOnSet(f, S \ {q}) \in Nat
          /\ SumFunctionOnSet(f, S \ {q}) <= SumFunctionOnSet(f, S)
      BY <3>1, <3>2, OneReturnLess
    <3>5. /\ SumFunctionOnSet(g, S \ {q}) \in Nat
          /\ SumFunctionOnSet(g, S \ {q}) <= SumFunctionOnSet(g, S)
      BY <3>1, <3>2, OneReturnLess
    <3>6. /\ FirstBack(d, m)' = SumFunctionOnSet(f, S \ {q}) /\ FirstBack(d, m) = SumFunctionOnSet(f, S)
          /\ AgainBack(d, m)' = SumFunctionOnSet(g, S \ {q}) /\ AgainBack(d, m) = SumFunctionOnSet(g, S)
      BY <3>1, <3>3, SentBackIs DEF f, g, S
    <3>7. PICK x \in Nat, y \in Nat, z \in Nat, u \in Nat, v \in Nat :
             /\ x = papers[d].first[m] /\ y = FirstBack(d, m) /\ z = AgainBack(d, m)
             /\ u = FirstBack(d, m)' /\ v = AgainBack(d, m)'
      BY <1>1, <2>1, <3>4, <3>5, <3>6, SentBackIsNat DEF PapersTyped, Paper
    <3>8. Within(x, y, z) /\ u <= y /\ v <= z
      BY <2>2, <3>4, <3>5, <3>6, <3>7
    <3>9. Within(x, u, v)
      BY <3>8 DEF Within
    <3>. QED  BY <2>1, <3>7, <3>9
  <2>. QED  BY <2>3, <2>4
<1>7. AllWithin'
  BY <1>6 DEF AllWithin
<1>. QED  BY <1>4, <1>7, WithinIs, PTL DEF ReturnsInv

\* What writes no paper keeps the returns as they are.
LEMMA PapersUntouched == ReturnsInv /\ papers' = papers => ReturnsInv'
BY DEF ReturnsInv, PapersTyped, NoMoreThanItBrought, OnFile, SentBack, FirstBack, AgainBack, ReturnsOf

\* Every step keeps the returns within what was delivered.
LEMMA ReturnsStep == ReturnsInv /\ [Next]_vars => ReturnsInv'
<1>. SUFFICES ASSUME ReturnsInv, [Next]_vars PROVE ReturnsInv'
  OBVIOUS
<1>1. CASE UNCHANGED vars
  BY <1>1, PapersUntouched DEF vars
<1>2. CASE Selling
  BY <1>2, PapersUntouched DEF Selling, Settle, Correct, Void
<1>3. CASE Buying
  <2>1. PICK p \in Papers : \/ Cancel(p)
                            \/ \E l \in Slips : Deliver(p, l) \/ \E d \in Papers : SendBack(p, d, l)
    BY <1>3 DEF Buying
  <2>2. CASE Cancel(p)
    BY <2>2, CancelKeepsReturns
  <2>3. CASE \E l \in Slips : Deliver(p, l)
    BY <2>3, DeliverKeepsReturns
  <2>4. CASE \E l \in Slips : \E d \in Papers : SendBack(p, d, l)
    BY <2>4, SendBackKeepsReturns
  <2>. QED  BY <2>1, <2>2, <2>3, <2>4
<1>4. CASE Keeping
  BY <1>4, PapersUntouched DEF Keeping, DeleteRecipe, SaveRecipe, Lose, Move
<1>5. CASE Counting
  BY <1>5, PapersUntouched DEF Counting, OpenCount, Approve, Abandon, RecordLine, RemoveLine, sheet
<1>. QED  BY <1>1, <1>2, <1>3, <1>4, <1>5 DEF Next

\* The returns on a paper that stand never come to more than the line they
\* are held against brought, but for second lines (`returnable`), and never
\* to more than twice that: for any number of papers, whatever they carry
\* and however they and their cancellations follow one another.
THEOREM ReturnsHold == Spec => []NoMoreThanItBrought
<1>1. Init => ReturnsInv
  <2>. SUFFICES ASSUME Init PROVE ReturnsInv
    OBVIOUS
  <2>1. papers = [p \in Papers |-> [state |-> "none", of |-> NoPaper, first |-> Nothing, again |-> Nothing]]
    BY DEF Init
  <2>2. PapersTyped
    BY <2>1 DEF PapersTyped, Paper, Nothing
  <2>3. OnFile = {}
    BY <2>1 DEF OnFile
  <2>. QED  BY <2>2, <2>3 DEF ReturnsInv, NoMoreThanItBrought
<1>2. ReturnsInv => NoMoreThanItBrought
  BY DEF ReturnsInv
<1>. QED  BY <1>1, <1>2, ReturnsStep, PTL DEF Spec

----------------------------------------------------------------------------
(* The recipe walk. Its length is a natural, and what holds when it begins  *)
(* and after every line of the bill holds when it ends.                     *)

\* Induction over 0..n, for a set in the place of a predicate.
LEMMA CountingUp ==
    ASSUME NEW T, 0 \in T, \A n \in Nat : n \in T => n + 1 \in T
    PROVE  Nat \subseteq T
<1>1. SUFFICES ASSUME NEW n \in Nat PROVE n \in T
  OBVIOUS
<1>. DEFINE S == 1 .. n
            A == {s \in SUBSET S : Cardinality(s) \in T}
<1>2. IsFiniteSet(S) /\ Cardinality(S) = n
  BY FS_Interval
<1>3. ASSUME NEW s \in SUBSET S, \A x \in s : s \ {x} \in A
      PROVE  s \in A
  <2>1. CASE s = {}
    BY <2>1, FS_EmptySet
  <2>2. CASE s # {}
    <3>1. PICK x \in s : TRUE
      BY <2>2
    <3>2. IsFiniteSet(s)
      BY <1>2, FS_Subset
    <3>3. /\ Cardinality(s \ {x}) = Cardinality(s) - 1 /\ Cardinality(s) \in Nat
          /\ Cardinality(s \ {x}) \in Nat
      BY <3>1, <3>2, FS_RemoveElement, FS_CardinalityType
    <3>4. Cardinality(s \ {x}) \in T
      BY <1>3, <3>1
    <3>5. Cardinality(s) = Cardinality(s \ {x}) + 1
      BY <3>3
    <3>. QED  BY <3>3, <3>4, <3>5
  <2>. QED  BY <2>1, <2>2
<1>4. SUBSET S \subseteq A
  <2>. HIDE DEF A, S
  <2>. QED  BY <1>2, <1>3, SubsetInduction
<1>5. S \in A
  BY <1>4
<1>. QED  BY <1>2, <1>5

\* What the walk through the first `k` lines is.
Walking(sold, from, k, g) ==
    g = [n \in 0 .. k |-> IF n = 0 THEN Begun(from) ELSE After(g[n - 1], sold[n])]

\* The explosion of a bill is the end of its recipe walk.
LEMMA ExplodeIs ==
    ASSUME NEW sold, NEW from
    PROVE Explode(sold, from) = (CHOOSE g : Walking(sold, from, Len(sold), g))[Len(sold)]
BY Zenon DEF Explode, Walking

\* A walk of n lines is one of n + 1 lines when the next one follows.
LEMMA WalkStep ==
    ASSUME NEW sold, NEW from, NEW k \in Nat, NEW g, Walking(sold, from, k, g)
    PROVE \E h : Walking(sold, from, k + 1, h)
<1>. DEFINE h == [n \in 0 .. (k + 1) |-> IF n = k + 1 THEN After(g[k], sold[k + 1]) ELSE g[n]]
<1>1. ASSUME NEW n \in 0 .. (k + 1)
      PROVE h[n] = IF n = 0 THEN Begun(from) ELSE After(h[n - 1], sold[n])
  <2>1. CASE n = k + 1
    BY <2>1
  <2>2. CASE n # k + 1
    <3>1. n \in 0 .. k /\ (n # 0 => n - 1 \in 0 .. k /\ n - 1 # k + 1)
      BY <2>2
    <3>2. g[n] = IF n = 0 THEN Begun(from) ELSE After(g[n - 1], sold[n])
      BY <3>1 DEF Walking
    <3>3. h[n] = g[n] /\ (n # 0 => h[n - 1] = g[n - 1])
      BY <2>2, <3>1
    <3>. HIDE DEF h
    <3>. QED  BY <3>2, <3>3
  <2>. QED  BY <2>1, <2>2
<1>2. Walking(sold, from, k + 1, h)
  <2>1. h = [n \in 0 .. (k + 1) |-> h[n]]
    OBVIOUS
  <2>. HIDE DEF h
  <2>. QED  BY <1>1, <2>1 DEF Walking
<1>. QED  BY <1>2

\* The recipe walk of a bill exists, whatever its length.
LEMMA WalkExists ==
    ASSUME NEW sold, NEW from, NEW k \in Nat
    PROVE \E g : Walking(sold, from, k, g)
<1>. DEFINE T == {n \in Nat : \E g : Walking(sold, from, n, g)}
<1>1. 0 \in T
  <2>. DEFINE g == [n \in 0 .. 0 |-> Begun(from)]
  <2>1. Walking(sold, from, 0, g)
    BY DEF Walking
  <2>. QED  BY <2>1
<1>2. \A n \in Nat : n \in T => n + 1 \in T
  BY WalkStep
<1>3. Nat \subseteq T
  <2>. HIDE DEF T
  <2>. QED  BY <1>1, <1>2, CountingUp
<1>. QED  BY <1>3

\* What holds at the start and after every line holds at the end.
LEMMA WalkEnds ==
    ASSUME NEW sold, Len(sold) \in Nat, NEW from, NEW T, Begun(from) \in T,
           \A s \in T : \A n \in 1 .. Len(sold) : After(s, sold[n]) \in T
    PROVE Explode(sold, from) \in T
<1>. DEFINE k == Len(sold)
            g == CHOOSE h : Walking(sold, from, k, h)
            A == {n \in Nat : n <= k => g[n] \in T}
<1>1. Walking(sold, from, k, g)
  BY WalkExists
<1>. HIDE DEF g
<1>2. 0 \in A
  BY <1>1 DEF Walking
<1>3. ASSUME NEW n \in Nat, n \in A PROVE n + 1 \in A
  <2>1. SUFFICES ASSUME n + 1 <= k PROVE g[n + 1] \in T
    OBVIOUS
  <2>2. n \in 0 .. k /\ n + 1 \in 0 .. k /\ n + 1 \in 1 .. k /\ (n + 1) - 1 = n /\ n + 1 # 0
    BY <2>1
  <2>3. g[n] \in T
    BY <1>3, <2>2
  <2>4. g[n + 1] = After(g[n], sold[n + 1])
    BY <1>1, <2>2 DEF Walking
  <2>. QED  BY <2>2, <2>3, <2>4
<1>4. Nat \subseteq A
  <2>. HIDE DEF A
  <2>. QED  BY <1>2, <1>3, CountingUp
<1>5. g[k] \in T
  BY <1>4
<1>. QED  BY <1>5, ExplodeIs DEF g

----------------------------------------------------------------------------
(* Quantities: what rows add up to. *)

Quantities == [Materials -> Int]
RowsTyped(rows) == IsFiniteSet(DOMAIN rows) /\ \A id \in DOMAIN rows : rows[id] \in Quantities
QuantitiesOf(rows, m) == [id \in DOMAIN rows |-> rows[id][m]]

\* The amounts of typed rows are integers.
LEMMA AmountsAreInt ==
    ASSUME NEW rows, RowsTyped(rows), NEW m \in Materials
    PROVE  /\ IsFiniteSet(DOMAIN rows) /\ \A id \in DOMAIN rows : QuantitiesOf(rows, m)[id] \in Int
           /\ Total(rows)[m] = SumFunctionOnSet(QuantitiesOf(rows, m), DOMAIN rows)
<1>1. IsFiniteSet(DOMAIN rows) /\ \A id \in DOMAIN rows : QuantitiesOf(rows, m)[id] \in Int
  BY DEF RowsTyped, Quantities, QuantitiesOf
<1>2. Total(rows)[m] = SumFunction(QuantitiesOf(rows, m)) /\ DOMAIN QuantitiesOf(rows, m) = DOMAIN rows
  BY DEF Total, QuantitiesOf
<1>. QED  BY <1>1, <1>2 DEF SumFunction

\* The total of typed rows is an integer for every material.
LEMMA TotalIsTyped ==
    ASSUME NEW rows, RowsTyped(rows)
    PROVE Total(rows) \in Quantities
<1>1. ASSUME NEW m \in Materials PROVE Total(rows)[m] \in Int
  <2>1. /\ IsFiniteSet(DOMAIN rows) /\ \A id \in DOMAIN rows : QuantitiesOf(rows, m)[id] \in Int
        /\ Total(rows)[m] = SumFunctionOnSet(QuantitiesOf(rows, m), DOMAIN rows)
    BY AmountsAreInt
  <2>. QED  BY <2>1, SumIsInt
<1>2. Total(rows) = [m \in Materials |-> Total(rows)[m]]
  BY DEF Total
<1>. QED  BY <1>1, <1>2 DEF Quantities

\* Rows of two kinds add up to both.
LEMMA TotalOfBoth ==
    ASSUME NEW rows, NEW more, RowsTyped(rows), RowsTyped(more), DOMAIN rows \cap DOMAIN more = {},
           NEW m \in Materials
    PROVE  RowsTyped(With(rows, more)) /\ Total(With(rows, more))[m] = Total(rows)[m] + Total(more)[m]
<1>. DEFINE all == With(rows, more)
            f == QuantitiesOf(all, m)
<1>1. /\ DOMAIN all = DOMAIN rows \cup DOMAIN more
      /\ \A id \in DOMAIN rows : all[id] = rows[id]
      /\ \A id \in DOMAIN more : all[id] = more[id]
  <2>1. \A id \in DOMAIN more : id \in DOMAIN more \ DOMAIN rows
    OBVIOUS
  <2>2. /\ DOMAIN With(rows, more) = DOMAIN rows \cup DOMAIN more
        /\ \A id \in DOMAIN rows : With(rows, more)[id] = rows[id]
        /\ \A id \in DOMAIN more \ DOMAIN rows : With(rows, more)[id] = more[id]
    BY WithRows
  <2>. HIDE DEF all
  <2>. QED  BY <2>1, <2>2 DEF all
<1>. HIDE DEF all
<1>2. RowsTyped(all)
  <2>1. IsFiniteSet(DOMAIN all)
    BY <1>1, FS_Union DEF RowsTyped
  <2>. QED  BY <1>1, <2>1 DEF RowsTyped
<1>3. /\ \A id \in DOMAIN rows : f[id] = QuantitiesOf(rows, m)[id]
      /\ \A id \in DOMAIN more : f[id] = QuantitiesOf(more, m)[id]
  BY <1>1 DEF QuantitiesOf
<1>4. /\ IsFiniteSet(DOMAIN rows) /\ IsFiniteSet(DOMAIN more)
      /\ \A id \in DOMAIN rows \cup DOMAIN more : f[id] \in Int
  BY <1>1, <1>2, AmountsAreInt DEF RowsTyped
<1>. HIDE DEF f
<1>5. SumFunctionOnSet(f, DOMAIN rows \cup DOMAIN more)
        = SumFunctionOnSet(f, DOMAIN rows) + SumFunctionOnSet(f, DOMAIN more)
  BY <1>4, SumOfBoth
<1>6. /\ SumFunctionOnSet(f, DOMAIN rows) = SumFunctionOnSet(QuantitiesOf(rows, m), DOMAIN rows)
      /\ SumFunctionOnSet(f, DOMAIN more) = SumFunctionOnSet(QuantitiesOf(more, m), DOMAIN more)
  BY <1>3, <1>4, SumOfSame
<1>7. Total(all)[m] = SumFunctionOnSet(f, DOMAIN rows \cup DOMAIN more)
  BY <1>1, <1>2, AmountsAreInt DEF f
<1>8. /\ Total(rows)[m] = SumFunctionOnSet(QuantitiesOf(rows, m), DOMAIN rows)
      /\ Total(more)[m] = SumFunctionOnSet(QuantitiesOf(more, m), DOMAIN more)
  BY AmountsAreInt
<1>. QED  BY <1>2, <1>5, <1>6, <1>7, <1>8 DEF all

\* No rows are typed rows that add up to nothing.
LEMMA NoRowsTyped == RowsTyped(NoRows) /\ \A m \in Materials : Total(NoRows)[m] = 0
<1>1. DOMAIN NoRows = {}
  BY DEF NoRows
<1>2. RowsTyped(NoRows)
  BY <1>1, FS_EmptySet DEF RowsTyped
<1>3. ASSUME NEW m \in Materials PROVE Total(NoRows)[m] = 0
  BY <1>1, <1>2, AmountsAreInt, SumOfNone
<1>. QED  BY <1>2, <1>3

\* One row with an integer amount is a typed set of rows.
LEMMA OneRowTyped ==
    ASSUME NEW row, NEW qty \in Quantities
    PROVE RowsTyped(OneRow(row, qty)) /\ \A m \in Materials : Total(OneRow(row, qty))[m] = qty[m]
<1>1. DOMAIN OneRow(row, qty) = {row} /\ OneRow(row, qty)[row] = qty
  BY DEF OneRow
<1>2. RowsTyped(OneRow(row, qty))
  BY <1>1, FS_Singleton DEF RowsTyped
<1>3. ASSUME NEW m \in Materials PROVE Total(OneRow(row, qty))[m] = qty[m]
  <2>. DEFINE f == QuantitiesOf(OneRow(row, qty), m)
  <2>1. f[row] = qty[m] /\ f[row] \in Int /\ Total(OneRow(row, qty))[m] = SumFunctionOnSet(f, {row})
    BY <1>1, <1>2, AmountsAreInt DEF QuantitiesOf
  <2>. HIDE DEF f
  <2>2. SumFunctionOnSet(f, {row}) = f[row] + SumFunctionOnSet(f, {row} \ {row})
    <3>1. IsFiniteSet({row}) /\ row \in {row} /\ \A x \in {row} : f[x] \in Int
      BY <2>1, FS_Singleton
    <3>. QED  BY <3>1, SumRemove
  <2>3. {row} \ {row} = {}
    OBVIOUS
  <2>. QED  BY <2>1, <2>2, <2>3, SumOfNone
<1>. QED  BY <1>2, <1>3

\* Rows that are new are all written.
LEMMA AllFresh ==
    ASSUME NEW rows, rows = [id \in DOMAIN rows |-> rows[id]], DOMAIN rows \cap DOMAIN ledger = {}
    PROVE Fresh(rows) = rows
<1>1. DOMAIN rows \ DOMAIN ledger = DOMAIN rows
  OBVIOUS
<1>. QED  BY <1>1 DEF Fresh

\* The rows a document writes are typed.
LEMMA FreshTyped ==
    ASSUME NEW rows, RowsTyped(rows)
    PROVE RowsTyped(Fresh(rows)) /\ DOMAIN Fresh(rows) = DOMAIN rows \ DOMAIN ledger
<1>1. DOMAIN Fresh(rows) = DOMAIN rows \ DOMAIN ledger
  BY DEF Fresh
<1>2. IsFiniteSet(DOMAIN rows \ DOMAIN ledger)
  BY FS_Subset DEF RowsTyped
<1>. QED  BY <1>1, <1>2 DEF RowsTyped, Fresh

\* The recipes that are there, and quantities everywhere.
RecipesTyped ==
    /\ DOMAIN recipes \subseteq Owners
    /\ \A o \in DOMAIN recipes : recipes[o] \in [Materials -> Nat]
    /\ \A o \in Made \cap DOMAIN recipes, m \in Made : recipes[o][m] = 0

BooksTyped ==
    /\ RowsTyped(ledger) /\ book \in Quantities /\ shelf \in Quantities /\ lost \in Quantities

\* The opposites of typed rows are typed, with the opposite total.
LEMMA UndoTyped ==
    ASSUME Typed, BooksTyped, NEW of
    PROVE RowsTyped(Undo(of)) /\ DOMAIN Undo(of) \cap DOMAIN ledger = {}
<1>1. DOMAIN Undo(of) = {Opposite(i) : i \in UndoneRows(of)}
  BY DEF Undo
<1>2. UndoneRows(of) \subseteq DOMAIN ledger
  BY DEF UndoneRows, Originals
<1>3. IsFiniteSet(UndoneRows(of))
  BY <1>2, FS_Subset DEF BooksTyped, RowsTyped
<1>4. IsFiniteSet(DOMAIN Undo(of))
  <2>. DEFINE f == [i \in UndoneRows(of) |-> Opposite(i)]
  <2>1. f \in Surjection(UndoneRows(of), DOMAIN Undo(of))
    BY <1>1 DEF Surjection
  <2>. QED  BY <1>3, <2>1, FS_Surjection
<1>5. ASSUME NEW id \in DOMAIN Undo(of) PROVE Undo(of)[id] \in Quantities /\ id \notin DOMAIN ledger
  <2>1. PICK i \in UndoneRows(of) : id = Opposite(i) /\ Undo(of)[id] = Negated(ledger[i])
    BY <1>5, UndoRows
  <2>2. ledger[i] \in Quantities /\ Opposite(i) \notin DOMAIN ledger
    BY <1>2 DEF BooksTyped, RowsTyped, UndoneRows
  <2>. QED  BY <2>1, <2>2 DEF Negated, Quantities
<1>. QED  BY <1>4, <1>5 DEF RowsTyped

----------------------------------------------------------------------------
(* What a bill draws. *)

\* A walk whose run is what it began with and what it drew, and which leaves
\* of a made material it took from nothing below nothing, and nothing at all
\* where some had to be made.
Drawing(s, from, m) ==
    /\ s.run[m] = from[m] + s.inputs[m] + s.made[m] + s.sale[m]
    /\ m \in Made \cap DOMAIN recipes => /\ s.sale[m] # 0 => s.run[m] >= 0
                                         /\ s.made[m] # 0 => s.run[m] = 0

GoodWalks(from) ==
    {s \in [run : Quantities, inputs : Quantities, made : Quantities, sale : Quantities] :
        \A m \in Materials : Drawing(s, from, m)}

\* What a line wants of a material is a natural number.
LEMMA WantedIsNat ==
    ASSUME RecipesTyped, NEW line \in [dish : Dishes, qty : Nat], line.dish \in DOMAIN recipes,
           NEW m \in Materials
    PROVE  Wanted(line, m) \in Nat
<1>1. line.qty \in Nat /\ recipes[line.dish][m] \in Nat
  BY DEF RecipesTyped
<1>2. line.qty * recipes[line.dish][m] \in Nat
  BY <1>1, Z3
<1>. QED  BY <1>2 DEF Wanted

\* What the shelf is short of is an integer.
LEMMA ShortIsInt ==
    ASSUME RecipesTyped, NEW line \in [dish : Dishes, qty : Nat], line.dish \in DOMAIN recipes,
           NEW run \in Quantities, NEW m \in Materials
    PROVE  Short(run, line, m) \in Int
BY WantedIsNat DEF Short, Quantities

\* What goes into the made materials is none of the made ones.
LEMMA InputsAreInt ==
    ASSUME RecipesTyped, NEW line \in [dish : Dishes, qty : Nat], line.dish \in DOMAIN recipes,
           NEW run \in Quantities, NEW m \in Materials
    PROVE  /\ Inputs(run, line, m) \in Int
           /\ m \in Made => Inputs(run, line, m) = 0
<1>. DEFINE S == Made \cap DOMAIN recipes
            f == [made \in S |-> Short(run, line, made) * recipes[made][m]]
<1>1. IsFiniteSet(S)
  <2>1. S \subseteq Materials
    BY DEF Materials
  <2>. QED  BY <2>1, FS_Subset, StockAssumption
<1>2. ASSUME NEW made \in S
      PROVE /\ Short(run, line, made) \in Int /\ recipes[made][m] \in Nat
            /\ m \in Made => recipes[made][m] = 0
  <2>1. made \in Materials
    BY DEF Materials
  <2>. QED  BY <2>1, ShortIsInt DEF RecipesTyped
<1>3. ASSUME NEW made \in S PROVE f[made] \in Int /\ (m \in Made => f[made] = 0)
  <2>1. Short(run, line, made) * recipes[made][m] \in Int
    BY <1>2, Z3
  <2>2. m \in Made => Short(run, line, made) * recipes[made][m] = 0
    BY <1>2
  <2>. QED  BY <2>1, <2>2
<1>4. Inputs(run, line, m) = SumFunctionOnSet(f, S)
  BY DEF Inputs, SumFunction
<1>. HIDE DEF f, S
<1>. QED  BY <1>1, <1>3, <1>4, SumIsInt, SumOfZeros

\* The recipe walk begins with nothing made and nothing taken.
LEMMA GoodBegin ==
    ASSUME NEW from \in Quantities
    PROVE  Begun(from) \in GoodWalks(from)
<1>1. Nothing \in Quantities /\ \A m \in Materials : Nothing[m] = 0
  BY DEF Nothing, Quantities
<1>2. /\ Begun(from) \in [run : Quantities, inputs : Quantities, made : Quantities, sale : Quantities]
      /\ Begun(from).run = from /\ Begun(from).inputs = Nothing
      /\ Begun(from).made = Nothing /\ Begun(from).sale = Nothing
  BY <1>1 DEF Begun
<1>3. ASSUME NEW m \in Materials PROVE Drawing(Begun(from), from, m)
  <2>1. from[m] \in Int
    BY DEF Quantities
  <2>. QED  BY <1>1, <1>2, <2>1 DEF Drawing
<1>. QED  BY <1>2, <1>3 DEF GoodWalks

\* A line of the bill keeps the walk good.
LEMMA GoodStep ==
    ASSUME RecipesTyped, NEW from \in Quantities, NEW s \in GoodWalks(from),
           NEW line \in [dish : Dishes, qty : Nat]
    PROVE  After(s, line) \in GoodWalks(from)
<1>1. CASE line.dish \notin DOMAIN recipes
  BY <1>1 DEF After
<1>2. CASE line.dish \in DOMAIN recipes
  <2>. DEFINE t == After(s, line)
  <2>1. /\ s \in [run : Quantities, inputs : Quantities, made : Quantities, sale : Quantities]
        /\ \A m \in Materials : Drawing(s, from, m)
    BY DEF GoodWalks
  <2>2. s.run \in Quantities /\ s.inputs \in Quantities /\ s.made \in Quantities /\ s.sale \in Quantities
    BY <2>1
  <2>3. t = [run |-> Walk(s.run, line),
             inputs |-> [m \in Materials |-> s.inputs[m] - Inputs(s.run, line, m)],
             made |-> [m \in Materials |-> s.made[m] + Short(s.run, line, m)],
             sale |-> [m \in Materials |-> s.sale[m] - Wanted(line, m)]]
    BY <1>2 DEF After
  <2>. HIDE DEF t
  <2>4. ASSUME NEW m \in Materials
        PROVE  /\ Short(s.run, line, m) \in Int /\ Inputs(s.run, line, m) \in Int
               /\ Wanted(line, m) \in Nat
               /\ m \in Made => Inputs(s.run, line, m) = 0
               /\ s.run[m] \in Int /\ s.inputs[m] \in Int /\ s.made[m] \in Int /\ s.sale[m] \in Int
               /\ from[m] \in Int
    BY <1>2, <2>2, ShortIsInt, InputsAreInt, WantedIsNat DEF Quantities
  <2>5. ASSUME NEW m \in Materials
        PROVE  /\ t.run[m] = s.run[m] + Short(s.run, line, m) - Inputs(s.run, line, m) - Wanted(line, m)
               /\ t.inputs[m] = s.inputs[m] - Inputs(s.run, line, m)
               /\ t.made[m] = s.made[m] + Short(s.run, line, m)
               /\ t.sale[m] = s.sale[m] - Wanted(line, m)
    BY <2>3 DEF Walk
  <2>6. t \in [run : Quantities, inputs : Quantities, made : Quantities, sale : Quantities]
    <3>1. /\ Walk(s.run, line) \in Quantities
          /\ [m \in Materials |-> s.inputs[m] - Inputs(s.run, line, m)] \in Quantities
          /\ [m \in Materials |-> s.made[m] + Short(s.run, line, m)] \in Quantities
          /\ [m \in Materials |-> s.sale[m] - Wanted(line, m)] \in Quantities
      BY <2>4 DEF Walk, Quantities
    <3>. QED  BY <2>3, <3>1
  <2>7. ASSUME NEW m \in Materials PROVE Drawing(t, from, m)
    <3>. DEFINE short == Short(s.run, line, m)  want == Wanted(line, m)  in == Inputs(s.run, line, m)
    <3>1. Drawing(s, from, m)
      BY <2>1
    <3>2. short \in Int /\ in \in Int /\ want \in Nat /\ (m \in Made => in = 0)
      BY <2>4
    <3>3. m \in Made \cap DOMAIN recipes =>
              /\ (want > 0 /\ want > s.run[m]) => short = want - s.run[m]
              /\ ~(want > 0 /\ want > s.run[m]) => short = 0
      BY DEF Short
    <3>4. /\ t.run[m] = s.run[m] + short - in - want /\ t.inputs[m] = s.inputs[m] - in
          /\ t.made[m] = s.made[m] + short /\ t.sale[m] = s.sale[m] - want
      BY <2>5
    <3>5. s.run[m] \in Int /\ s.inputs[m] \in Int /\ s.made[m] \in Int /\ s.sale[m] \in Int /\ from[m] \in Int
      BY <2>4
    <3>. HIDE DEF short, want, in
    <3>6. t.run[m] = from[m] + t.inputs[m] + t.made[m] + t.sale[m]
      BY <3>1, <3>2, <3>4, <3>5 DEF Drawing
    <3>7. m \in Made \cap DOMAIN recipes => (t.sale[m] # 0 => t.run[m] >= 0) /\ (t.made[m] # 0 => t.run[m] = 0)
      <4>1. SUFFICES ASSUME m \in Made \cap DOMAIN recipes
                     PROVE  (t.sale[m] # 0 => t.run[m] >= 0) /\ (t.made[m] # 0 => t.run[m] = 0)
        OBVIOUS
      <4>2. in = 0 /\ (s.sale[m] # 0 => s.run[m] >= 0) /\ (s.made[m] # 0 => s.run[m] = 0)
        BY <3>1, <3>2, <4>1 DEF Drawing
      <4>3. CASE want > 0 /\ want > s.run[m]
        <5>1. t.run[m] = 0
          BY <3>2, <3>3, <3>4, <3>5, <4>1, <4>2, <4>3
        <5>. QED  BY <5>1
      <4>4. CASE ~(want > 0 /\ want > s.run[m])
        <5>1. short = 0
          BY <3>3, <4>1, <4>4
        <5>. QED  BY <3>2, <3>4, <3>5, <4>2, <4>4, <5>1
      <4>. QED  BY <4>3, <4>4
    <3>. QED  BY <3>6, <3>7 DEF Drawing
  <2>. QED  BY <2>6, <2>7 DEF GoodWalks, t
<1>. QED  BY <1>1, <1>2

\* The lines of a bill as the walk reads them.
LEMMA LinesOf ==
    ASSUME NEW S, NEW sold \in Seq(S)
    PROVE  Len(sold) \in Nat /\ \A n \in 1 .. Len(sold) : sold[n] \in S
OBVIOUS

\* What an exploded bill takes and makes is typed.
LEMMA ExplodeIsGood ==
    ASSUME RecipesTyped, NEW sold \in Carts, NEW from \in Quantities
    PROVE  Explode(sold, from) \in GoodWalks(from)
<1>1. sold \in Seq([dish : Dishes, qty : Nat])
  BY StockAssumption
<1>2. Len(sold) \in Nat /\ \A n \in 1 .. Len(sold) : sold[n] \in [dish : Dishes, qty : Nat]
  BY <1>1, LinesOf
<1>3. \A s \in GoodWalks(from) : \A n \in 1 .. Len(sold) : After(s, sold[n]) \in GoodWalks(from)
  BY <1>2, GoodStep
<1>. QED  BY <1>2, <1>3, GoodBegin, WalkEnds

\* The rows a bill draws are the parts of its walk that are not nothing, and
\* they add up to what the walk took.
LEMMA DrawnTotal ==
    ASSUME RecipesTyped, NEW b, NEW rev, NEW sold \in Carts, NEW from \in Quantities
    PROVE  /\ RowsTyped(Drawn(b, rev, sold, from))
           /\ \A part \in {"inputs", "made", "sale"} :
                 Row(b, rev, part) \in DOMAIN Drawn(b, rev, sold, from) =>
                     Drawn(b, rev, sold, from)[Row(b, rev, part)] = Explode(sold, from)[part]
           /\ \A m \in Materials :
                 from[m] + Total(Drawn(b, rev, sold, from))[m] = Explode(sold, from).run[m]
<1>. DEFINE e == Explode(sold, from)
            drawn == Drawn(b, rev, sold, from)
            SaleParts == {"inputs", "made", "sale"}
            drawing == {part \in SaleParts : e[part] # Nothing}
            all == {Row(b, rev, part) : part \in SaleParts}
<1>1. e \in GoodWalks(from)
  BY ExplodeIsGood
<1>2. drawn = [id \in {Row(b, rev, part) : part \in drawing} |-> e[id.part]]
  BY DEF Drawn
<1>. HIDE DEF e, drawn
<1>3. /\ e.run \in Quantities /\ e.inputs \in Quantities /\ e.made \in Quantities /\ e.sale \in Quantities
      /\ \A part \in SaleParts : e[part] \in Quantities
  BY <1>1 DEF GoodWalks
<1>4. \A part \in SaleParts : Row(b, rev, part).part = part
  BY DEF Row
<1>5. /\ DOMAIN drawn \subseteq all
      /\ \A id \in DOMAIN drawn : id.part \in SaleParts /\ drawn[id] = e[id.part]
      /\ \A id \in all \ DOMAIN drawn : id.part \in SaleParts /\ e[id.part] = Nothing
  BY <1>2, <1>4
<1>6. IsFiniteSet(all) /\ IsFiniteSet(DOMAIN drawn) /\ IsFiniteSet(all \ DOMAIN drawn)
  <2>. DEFINE i == Row(b, rev, "inputs")  j == Row(b, rev, "made")  k == Row(b, rev, "sale")
  <2>1. all = ({i} \cup {j}) \cup {k}
    OBVIOUS
  <2>. HIDE DEF i, j, k, all
  <2>2. IsFiniteSet(all)
    BY <2>1, FS_Singleton, FS_Union
  <2>. QED  BY <1>5, <2>2, FS_Subset
<1>7. RowsTyped(drawn)
  BY <1>3, <1>5, <1>6 DEF RowsTyped
<1>8. ASSUME NEW part \in SaleParts, Row(b, rev, part) \in DOMAIN drawn
      PROVE drawn[Row(b, rev, part)] = e[part]
  BY <1>4, <1>5, <1>8
<1>9. ASSUME NEW m \in Materials PROVE from[m] + Total(drawn)[m] = e.run[m]
  <2>. DEFINE f == [id \in all |-> e[id.part][m]]
              i == Row(b, rev, "inputs")  j == Row(b, rev, "made")  k == Row(b, rev, "sale")
  <2>1. f[i] = e.inputs[m] /\ f[j] = e.made[m] /\ f[k] = e.sale[m]
    BY <1>4
  <2>2. \A id \in all : f[id] \in Int
    BY <1>3, <1>4 DEF Quantities
  <2>3. \A id \in all \ DOMAIN drawn : f[id] = 0
    BY <1>5 DEF Nothing
  <2>4. \A id \in DOMAIN drawn : f[id] = QuantitiesOf(drawn, m)[id]
    BY <1>5 DEF QuantitiesOf
  <2>5. all = {i, j, k} /\ i # j /\ i # k /\ j # k
    BY <1>4
  <2>. HIDE DEF f, i, j, k, all
  <2>6. SumFunctionOnSet(f, all) = e.inputs[m] + e.made[m] + e.sale[m]
    <3>1. SumFunctionOnSet(f, all) = f[i] + SumFunctionOnSet(f, all \ {i})
      BY <1>6, <2>2, <2>5, SumRemove
    <3>2. /\ all \ {i} = {j, k} /\ {j, k} \ {j} = {k} /\ {k} \ {k} = {}
          /\ i \in all /\ j \in {j, k} /\ k \in {k}
      BY <2>5
    <3>6. IsFiniteSet({j, k}) /\ IsFiniteSet({k})
      <4>1. {j, k} \subseteq all /\ {k} \subseteq all
        BY <2>5
      <4>. QED  BY <1>6, <4>1, FS_Subset
    <3>3. /\ f[i] \in Int /\ f[j] \in Int /\ f[k] \in Int
          /\ \A x \in {j, k} : f[x] \in Int
          /\ \A x \in {k} : f[x] \in Int
      BY <2>2, <2>5
    <3>4. SumFunctionOnSet(f, {j, k}) = f[j] + SumFunctionOnSet(f, {k})
      BY <3>2, <3>3, <3>6, SumRemove
    <3>5. SumFunctionOnSet(f, {k}) = f[k] + SumFunctionOnSet(f, {})
      BY <3>2, <3>3, <3>6, SumRemove
    <3>7. SumFunctionOnSet(f, all) = f[i] + (f[j] + (f[k] + 0))
      BY <3>1, <3>2, <3>4, <3>5, SumOfNone
    <3>. QED  BY <2>1, <3>3, <3>7
  <2>7. SumFunctionOnSet(f, all \ DOMAIN drawn) = 0
    BY <1>6, <2>3, SumOfZeros
  <2>8. Total(drawn)[m] = SumFunctionOnSet(f, DOMAIN drawn)
    <3>1. SumFunctionOnSet(f, DOMAIN drawn) = SumFunctionOnSet(QuantitiesOf(drawn, m), DOMAIN drawn)
      BY <1>6, <2>4, SumOfSame
    <3>. QED  BY <1>7, <3>1, AmountsAreInt
  <2>9. SumFunctionOnSet(f, all) = SumFunctionOnSet(f, DOMAIN drawn) + SumFunctionOnSet(f, all \ DOMAIN drawn)
    <3>. DEFINE D == DOMAIN drawn
    <3>1. D \cup (all \ D) = all /\ D \cap (all \ D) = {} /\ IsFiniteSet(D) /\ IsFiniteSet(all \ D)
      BY <1>5, <1>6
    <3>2. \A x \in D \cup (all \ D) : f[x] \in Int
      BY <2>2, <3>1
    <3>. HIDE DEF D
    <3>3. SumFunctionOnSet(f, D \cup (all \ D)) = SumFunctionOnSet(f, D) + SumFunctionOnSet(f, all \ D)
      BY <3>1, <3>2, SumOfBoth
    <3>. QED  BY <3>1, <3>3 DEF D
  <2>10. SumFunctionOnSet(f, DOMAIN drawn) \in Int
    BY <1>5, <1>6, <2>2, SumIsInt
  <2>11. Drawing(e, from, m) /\ e.run[m] \in Int /\ e.inputs[m] \in Int /\ e.made[m] \in Int /\ e.sale[m] \in Int
    BY <1>1, <1>3 DEF GoodWalks, Quantities
  <2>12. from[m] \in Int
    BY DEF Quantities
  <2>. QED  BY <2>6, <2>7, <2>8, <2>9, <2>10, <2>11, <2>12 DEF Drawing
<1>. QED  BY <1>7, <1>8, <1>9 DEF e, drawn

\* A settle writes rows of its bill alone, all of them new, and where it drew
\* a made material it leaves of it what the walk leaves.
LEMMA SettlesWrites ==
    ASSUME Typed, RecipesTyped, BooksTyped, NEW b \in Bills, NEW rev \in Nat, NEW sold \in Carts,
           Settles(b, rev, sold), \A id \in DOMAIN ledger : id.of = b => id.rev # rev
    PROVE  \E rows : /\ Moved(rows) /\ RowsTyped(rows) /\ \A id \in DOMAIN rows : id.of = b
                     /\ \A m \in Made \cap DOMAIN recipes :
                           LET drew(part) == Row(b, rev, part)
                           IN drew("sale") \in DOMAIN rows /\ rows[drew("sale")][m] # 0 =>
                                 /\ book'[m] >= 0
                                 /\ drew("made") \in DOMAIN rows /\ rows[drew("made")][m] # 0 => book'[m] = 0
<1>. DEFINE undo == IF rev > 0 THEN Undo(b) ELSE NoRows
            from == Both(book, Total(undo))
            draw == Drawn(b, rev, sold, from)
            rows == IF Draws(b, rev) THEN With(draw, undo) ELSE undo
            e == Explode(sold, from)
<1>1. Moved(rows)
  BY DEF Settles
<1>2. /\ RowsTyped(undo) /\ DOMAIN undo \cap DOMAIN ledger = {}
      /\ undo = [id \in DOMAIN undo |-> undo[id]]
      /\ \A id \in DOMAIN undo : id.of = b /\ id.undoes
  <2>1. CASE rev > 0
    <3>1. ASSUME NEW id \in DOMAIN Undo(b) PROVE id.of = b /\ id.undoes
      <4>1. PICK i \in UndoneRows(b) : id = Opposite(i)
        BY <3>1, UndoRows
      <4>2. IsId(i) /\ i.of = b
        BY DEF UndoneRows, Originals, Typed
      <4>. QED  BY <4>1, <4>2, OppositeId
    <3>2. Undo(b) = [id \in DOMAIN Undo(b) |-> Undo(b)[id]]
      BY DEF Undo
    <3>3. RowsTyped(Undo(b)) /\ DOMAIN Undo(b) \cap DOMAIN ledger = {}
      BY UndoTyped
    <3>. QED  BY <2>1, <3>1, <3>2, <3>3
  <2>2. CASE ~(rev > 0)
    <3>1. DOMAIN NoRows = {} /\ NoRows = [id \in DOMAIN NoRows |-> NoRows[id]]
      BY DEF NoRows
    <3>. QED  BY <2>2, <3>1, NoRowsTyped
  <2>. QED  BY <2>1, <2>2
<1>. HIDE DEF undo
<1>3. Total(undo) \in Quantities
  BY <1>2, TotalIsTyped
<1>4. from \in Quantities /\ \A m \in Materials : from[m] = book[m] + Total(undo)[m]
  BY <1>3 DEF Both, BooksTyped, Quantities
<1>. HIDE DEF from
<1>5. /\ RowsTyped(draw)
      /\ \A part \in {"inputs", "made", "sale"} :
            Row(b, rev, part) \in DOMAIN draw => draw[Row(b, rev, part)] = e[part]
      /\ \A m \in Materials : from[m] + Total(draw)[m] = e.run[m]
  <2>1. /\ RowsTyped(Drawn(b, rev, sold, from))
        /\ \A part \in {"inputs", "made", "sale"} :
              Row(b, rev, part) \in DOMAIN Drawn(b, rev, sold, from) =>
                  Drawn(b, rev, sold, from)[Row(b, rev, part)] = Explode(sold, from)[part]
        /\ \A m \in Materials :
              from[m] + Total(Drawn(b, rev, sold, from))[m] = Explode(sold, from).run[m]
    <3>. HIDE DEF draw, e, rows
    <3>1. from \in Quantities
      BY <1>4
    <3>. QED  BY <3>1, DrawnTotal
  <2>. HIDE DEF draw, e, rows
  <2>. QED  BY <2>1 DEF draw, e
<1>6. \A id \in DOMAIN draw : id.of = b /\ ~id.undoes /\ id.rev = rev
  BY DrawnRows
<1>7. e \in GoodWalks(from)
  BY <1>4, ExplodeIsGood
<1>. HIDE DEF draw, e
<1>8. DOMAIN draw \cap DOMAIN undo = {} /\ DOMAIN draw \cap DOMAIN ledger = {}
  BY <1>2, <1>6
<1>9. CASE ~Draws(b, rev)
  <2>1. rows = undo
    BY <1>9
  <2>2. \A part : Row(b, rev, part) \notin DOMAIN undo
    BY <1>2, RowId
  <2>. HIDE DEF rows
  <2>. QED  BY <1>1, <1>2, <2>1, <2>2
<1>10. CASE Draws(b, rev)
  <2>1. rows = With(draw, undo)
    BY <1>10
  <2>. HIDE DEF rows
  <2>2. /\ DOMAIN rows = DOMAIN draw \cup DOMAIN undo
        /\ \A id \in DOMAIN draw : rows[id] = draw[id]
        /\ rows = [id \in DOMAIN rows |-> rows[id]]
    BY <2>1 DEF With
  <2>3. RowsTyped(rows) /\ \A m \in Materials : Total(rows)[m] = Total(draw)[m] + Total(undo)[m]
    <3>1. RowsTyped(draw) /\ RowsTyped(undo) /\ DOMAIN draw \cap DOMAIN undo = {}
      BY <1>2, <1>5, <1>8
    <3>2. ASSUME NEW m \in Materials
          PROVE  RowsTyped(rows) /\ Total(rows)[m] = Total(draw)[m] + Total(undo)[m]
      BY <2>1, <3>1, TotalOfBoth
    <3>3. RowsTyped(rows)
      <4>1. IsFiniteSet(DOMAIN rows)
        <5>1. IsFiniteSet(DOMAIN draw) /\ IsFiniteSet(DOMAIN undo)
          BY <3>1 DEF RowsTyped
        <5>2. IsFiniteSet(DOMAIN draw \cup DOMAIN undo)
          BY <5>1, FS_Union
        <5>. QED  BY <2>2, <5>2
      <4>2. \A id \in DOMAIN undo : rows[id] = undo[id]
        BY <2>1, <3>1 DEF With
      <4>. QED  BY <2>2, <3>1, <4>1, <4>2 DEF RowsTyped
    <3>. QED  BY <3>2, <3>3
  <2>4. \A id \in DOMAIN rows : id.of = b
    BY <1>2, <1>6, <2>2
  <2>5. Fresh(rows) = rows
    <3>1. DOMAIN rows \cap DOMAIN ledger = {}
      BY <1>2, <1>8, <2>2
    <3>. QED  BY <2>2, <3>1, AllFresh
  <2>6. ASSUME NEW m \in Materials PROVE book'[m] = e.run[m]
    <3>1. book'[m] = book[m] + Total(rows)[m]
      BY <1>1, <2>5 DEF Moved, Written, Both
    <3>2. book[m] \in Int /\ Total(draw)[m] \in Int /\ Total(undo)[m] \in Int
      BY <1>2, <1>5, TotalIsTyped DEF BooksTyped, Quantities
    <3>. QED  BY <1>4, <1>5, <2>3, <3>1, <3>2
  <2>7. ASSUME NEW m \in Made \cap DOMAIN recipes,
               Row(b, rev, "sale") \in DOMAIN rows, rows[Row(b, rev, "sale")][m] # 0
        PROVE  /\ book'[m] >= 0
               /\ Row(b, rev, "made") \in DOMAIN rows /\ rows[Row(b, rev, "made")][m] # 0 => book'[m] = 0
    <3>1. m \in Materials
      BY DEF Materials
    <3>2. Drawing(e, from, m)
      BY <1>7, <3>1 DEF GoodWalks
    <3>3. \A part \in {"inputs", "made", "sale"} :
             Row(b, rev, part) \in DOMAIN rows => rows[Row(b, rev, part)] = e[part]
      <4>1. \A part : Row(b, rev, part) \notin DOMAIN undo
        BY <1>2, RowId
      <4>. QED  BY <1>5, <2>2, <4>1
    <3>4. e.sale[m] # 0
      BY <2>7, <3>3
    <3>5. Row(b, rev, "made") \in DOMAIN rows /\ rows[Row(b, rev, "made")][m] # 0 => e.made[m] # 0
      BY <3>3
    <3>6. e.run[m] >= 0 /\ (e.made[m] # 0 => e.run[m] = 0)
      BY <2>7, <3>2, <3>4 DEF Drawing
    <3>. QED  BY <2>6, <3>1, <3>5, <3>6
  <2>. QED  BY <1>1, <2>3, <2>4, <2>7
<1>. QED  BY <1>9, <1>10

----------------------------------------------------------------------------
(* The count: its lines froze the book against the shelf, and what moved    *)
(* since moved both; only what was lost did not.                            *)

CountTyped ==
    /\ count = [state |-> count.state, no |-> count.no, lines |-> count.lines]
    /\ count.state \in {"none", "draft", "approved", "abandoned"} /\ count.no \in Nat
    /\ DOMAIN count.lines \subseteq Materials
    /\ \A m \in DOMAIN count.lines : count.lines[m].counted \in Int /\ count.lines[m].book \in Int

\* The rows of the counts so far; a count that is open has none.
CountRows ==
    \A id \in DOMAIN ledger :
        id.of = "count" => /\ id.rev \in Nat /\ id.rev <= count.no
                           /\ count.state = "draft" => id.rev < count.no

Frozen ==
    count.state = "draft" =>
        \A m \in DOMAIN count.lines :
            book[m] - shelf[m] = count.lines[m].book - count.lines[m].counted + lost[m]

ShelfInv == RecipesTyped /\ BooksTyped /\ CountTyped /\ CountRows /\ Frozen

\* Every step writes typed rows.
LEMMA LedgerStaysTyped ==
    ASSUME RowsTyped(ledger), NEW rows, RowsTyped(rows), Written(rows)
    PROVE  RowsTyped(ledger')
<1>1. /\ DOMAIN ledger' = DOMAIN ledger \cup DOMAIN rows
      /\ \A id \in DOMAIN ledger : ledger'[id] = ledger[id]
      /\ \A id \in DOMAIN rows \ DOMAIN ledger : ledger'[id] = rows[id]
  BY OnlyAdded
<1>2. IsFiniteSet(DOMAIN ledger) /\ IsFiniteSet(DOMAIN rows)
  BY DEF RowsTyped
<1>3. IsFiniteSet(DOMAIN ledger \cup DOMAIN rows)
  BY <1>2, FS_Union
<1>4. ASSUME NEW id \in DOMAIN ledger' PROVE ledger'[id] \in Quantities
  <2>1. CASE id \in DOMAIN ledger
    BY <1>1, <2>1 DEF RowsTyped
  <2>2. CASE id \notin DOMAIN ledger
    BY <1>1, <2>2 DEF RowsTyped
  <2>. QED  BY <2>1, <2>2
<1>. QED  BY <1>1, <1>3, <1>4 DEF RowsTyped

\* Goods that move with their rows move the book and the shelf alike.
LEMMA MovesBoth ==
    ASSUME BooksTyped, NEW rows, RowsTyped(rows), Moved(rows), lost' = lost
    PROVE  BooksTyped' /\ \A m \in Materials : book'[m] - shelf'[m] = book[m] - shelf[m]
<1>. DEFINE moved == Total(Fresh(rows))
<1>1. moved \in Quantities
  <2>1. RowsTyped(Fresh(rows))
    BY FreshTyped
  <2>. QED  BY <2>1, TotalIsTyped
<1>2. book' = Both(book, moved) /\ shelf' = Both(shelf, moved) /\ Written(rows)
  BY DEF Moved, Written
<1>. HIDE DEF moved
<1>3. RowsTyped(ledger')
  BY <1>2, LedgerStaysTyped DEF BooksTyped
<1>4. \A m \in Materials : /\ book[m] \in Int /\ shelf[m] \in Int /\ moved[m] \in Int
                           /\ book'[m] = book[m] + moved[m] /\ shelf'[m] = shelf[m] + moved[m]
  BY <1>1, <1>2 DEF Both, BooksTyped, Quantities
<1>5. book' \in Quantities /\ shelf' \in Quantities
  BY <1>1, <1>2 DEF Both, BooksTyped, Quantities
<1>. QED  BY <1>3, <1>4, <1>5 DEF BooksTyped, RowsTyped

\* Goods moved by anything but a count leave it as it was.
LEMMA MovesKeepTheCount ==
    ASSUME ShelfInv, NEW rows, RowsTyped(rows), Moved(rows), UNCHANGED <<recipes, sheet>>,
           \A id \in DOMAIN rows : id.of # "count"
    PROVE  ShelfInv'
<1>1. recipes' = recipes /\ count' = count /\ lost' = lost
  BY DEF sheet
<1>2. BooksTyped' /\ \A m \in Materials : book'[m] - shelf'[m] = book[m] - shelf[m]
  BY <1>1, MovesBoth DEF ShelfInv
<1>3. RecipesTyped' /\ CountTyped'
  BY <1>1 DEF ShelfInv, RecipesTyped, CountTyped
<1>4. CountRows'
  <2>1. DOMAIN ledger' = DOMAIN ledger \cup DOMAIN rows
    BY OnlyAdded DEF Moved
  <2>. QED  BY <1>1, <2>1 DEF ShelfInv, CountRows
<1>5. Frozen'
  BY <1>1, <1>2 DEF ShelfInv, Frozen, CountTyped
<1>. QED  BY <1>2, <1>3, <1>4, <1>5 DEF ShelfInv

\* Steps that write no rows.
LEMMA ShelfUntouched ==
    ShelfInv /\ UNCHANGED <<recipes, ledger, book, shelf, sheet>> => ShelfInv'
BY DEF ShelfInv, RecipesTyped, BooksTyped, RowsTyped, CountTyped, CountRows, Frozen, sheet

\* A row moves book and shelf by the same amount.
LEMMA OneRowKeepsTheCount ==
    ASSUME ShelfInv, NEW of, of # "count", NEW rev, NEW part, NEW qty \in Quantities,
           Moved(OneRow(Row(of, rev, part), qty)), UNCHANGED <<recipes, sheet>>
    PROVE  ShelfInv'
<1>1. RowsTyped(OneRow(Row(of, rev, part), qty))
  BY OneRowTyped
<1>2. \A id \in DOMAIN OneRow(Row(of, rev, part), qty) : id.of # "count"
  BY RowId DEF OneRow
<1>. QED  BY <1>1, <1>2, MovesKeepTheCount

\* The opposites of rows move book and shelf alike.
LEMMA UndoKeepsTheCount ==
    ASSUME Typed, ShelfInv, NEW of, of # "count", Moved(Undo(of)), UNCHANGED <<recipes, sheet>>
    PROVE  ShelfInv'
<1>1. RowsTyped(Undo(of))
  BY UndoTyped DEF ShelfInv
<1>2. ASSUME NEW id \in DOMAIN Undo(of) PROVE id.of # "count"
  <2>1. PICK i \in UndoneRows(of) : id = Opposite(i)
    BY <1>2, UndoRows
  <2>2. IsId(i) /\ i.of = of
    BY DEF UndoneRows, Originals, Typed
  <2>. QED  BY <2>1, <2>2, OppositeId
<1>. QED  BY <1>1, <1>2, MovesKeepTheCount

\* Drawing for a bill moves book and shelf alike.
LEMMA SettlesKeepsTheCount ==
    ASSUME Typed, ShelfInv, NEW b \in Bills, NEW rev \in Nat, NEW sold \in Carts, Settles(b, rev, sold),
           \A id \in DOMAIN ledger : id.of = b => id.rev # rev, UNCHANGED <<recipes, sheet>>
    PROVE  ShelfInv'
<1>1. RecipesTyped /\ BooksTyped
  BY DEF ShelfInv
<1>2. PICK rows : Moved(rows) /\ RowsTyped(rows) /\ \A id \in DOMAIN rows : id.of = b
  BY <1>1, SettlesWrites
<1>3. b # "count"
  BY StockAssumption
<1>. QED  BY <1>2, <1>3, MovesKeepTheCount

\* A bill that settles has no rows at its revision yet.
LEMMA NewRevision ==
    ASSUME Inv, NEW b \in Bills
    PROVE  /\ bills[b].state = "open" => \A id \in DOMAIN ledger : id.of # b
           /\ \A id \in DOMAIN ledger : id.of = b => id.rev # bills[b].rev + 1
           /\ bills[b].rev \in Nat
<1>1. bills[b].rev \in Nat
  BY DEF Inv, Typed
<1>2. \A id \in DOMAIN ledger : id.of = b => id.rev \in Nat /\ id.rev <= bills[b].rev /\ bills[b].state # "open"
  BY DEF Inv, OwnRevisions
<1>. QED  BY <1>1, <1>2

\* Settling, correcting and voiding keep what a count saw.
LEMMA SellingKeepsTheCount ==
    ASSUME Inv, ShelfInv, Selling
    PROVE  ShelfInv'
<1>1. PICK b \in Bills : \/ \E c \in Carts : Settle(b, c) \/ Correct(b, c)
                         \/ \E eaten \in BOOLEAN : Void(b, eaten)
  BY DEF Selling
<1>2. Typed /\ b # "count"
  BY StockAssumption DEF Inv
<1>3. ASSUME NEW c \in Carts, Settle(b, c) PROVE ShelfInv'
  <2>1. \A id \in DOMAIN ledger : id.of = b => id.rev # 0
    BY <1>3, NewRevision DEF Settle
  <2>2. Settles(b, 0, c) /\ UNCHANGED <<recipes, sheet>>
    BY <1>3 DEF Settle
  <2>. QED  BY <1>2, <2>1, <2>2, SettlesKeepsTheCount
<1>4. ASSUME NEW c \in Carts, Correct(b, c) PROVE ShelfInv'
  <2>1. bills[b].rev + 1 \in Nat /\ \A id \in DOMAIN ledger : id.of = b => id.rev # bills[b].rev + 1
    BY NewRevision
  <2>2. Settles(b, bills[b].rev + 1, c) /\ UNCHANGED <<recipes, sheet>>
    BY <1>4 DEF Correct
  <2>. QED  BY <1>2, <2>1, <2>2, SettlesKeepsTheCount
<1>5. ASSUME NEW eaten \in BOOLEAN, Void(b, eaten) PROVE ShelfInv'
  <2>1. UNCHANGED <<recipes, sheet>>
    BY <1>5 DEF Void
  <2>2. CASE eaten
    <3>1. Moved(NoRows)
      BY <1>5, <2>2 DEF Void
    <3>2. RowsTyped(NoRows) /\ \A id \in DOMAIN NoRows : id.of # "count"
      BY NoRowsTyped DEF NoRows
    <3>. QED  BY <2>1, <3>1, <3>2, MovesKeepTheCount
  <2>3. CASE ~eaten
    <3>1. Moved(Undo(b))
      BY <1>5, <2>3 DEF Void
    <3>. QED  BY <1>2, <2>1, <3>1, UndoKeepsTheCount
  <2>. QED  BY <2>2, <2>3
<1>. QED  BY <1>1, <1>3, <1>4, <1>5

\* Buying, sending back and cancelling keep what a count saw.
LEMMA BuyingKeepsTheCount ==
    ASSUME Inv, ShelfInv, Buying
    PROVE  ShelfInv'
<1>1. PICK p \in Papers : \/ Cancel(p)
                          \/ \E l \in Slips : Deliver(p, l) \/ \E d \in Papers : SendBack(p, d, l)
  BY DEF Buying
<1>2. Typed /\ p # "count"
  BY StockAssumption DEF Inv
<1>. DEFINE Load(l) == Both(l.first, l.again)
<1>3. ASSUME NEW l \in Slips PROVE Load(l) \in Quantities /\ Negated(Load(l)) \in Quantities
  <2>1. l.first \in [Materials -> Nat] /\ l.again \in [Materials -> Nat]
    BY StockAssumption
  <2>. QED  BY <2>1 DEF Quantities, Negated, Both
<1>4. CASE Cancel(p)
  BY <1>2, <1>4, UndoKeepsTheCount DEF Cancel
<1>5. ASSUME NEW l \in Slips, Deliver(p, l) PROVE ShelfInv'
  <2>1. Moved(OneRow(Row(p, 0, "goods"), Load(l))) /\ UNCHANGED <<recipes, sheet>>
    BY <1>5 DEF Deliver
  <2>. QED  BY <1>2, <1>3, <2>1, OneRowKeepsTheCount
<1>6. ASSUME NEW l \in Slips, NEW d \in Papers, SendBack(p, d, l) PROVE ShelfInv'
  <2>1. Moved(OneRow(Row(p, 0, "goods"), Negated(Load(l)))) /\ UNCHANGED <<recipes, sheet>>
    BY <1>6 DEF SendBack
  <2>. QED  BY <1>2, <1>3, <2>1, OneRowKeepsTheCount
<1>. QED  BY <1>1, <1>4, <1>5, <1>6

\* Recipes, losses and goods moved by hand keep what a count saw.
LEMMA KeepingKeepsTheCount ==
    ASSUME Inv, ShelfInv, Keeping
    PROVE  ShelfInv'
<1>1. ASSUME NEW o \in Owners, DeleteRecipe(o) PROVE ShelfInv'
  <2>1. /\ recipes' = [q \in DOMAIN recipes \ {o} |-> recipes[q]]
        /\ UNCHANGED <<ledger, book, shelf, sheet>>
    BY <1>1 DEF DeleteRecipe
  <2>2. RecipesTyped'
    BY <2>1 DEF ShelfInv, RecipesTyped
  <2>. QED  BY <2>1, <2>2
            DEF ShelfInv, BooksTyped, RowsTyped, CountTyped, CountRows, Frozen, sheet
<1>2. ASSUME NEW o \in Owners, NEW r \in Recipes, SaveRecipe(o, r) PROVE ShelfInv'
  <2>1. /\ recipes' = Put(recipes, o, r) /\ (o \in Made => \A m \in Made : r[m] = 0)
        /\ UNCHANGED <<ledger, book, shelf, sheet>>
    BY <1>2 DEF SaveRecipe
  <2>2. r \in [Materials -> Nat]
    BY StockAssumption
  <2>3. /\ DOMAIN recipes' = DOMAIN recipes \cup {o}
        /\ \A q \in DOMAIN recipes' : recipes'[q] = IF q = o THEN r ELSE recipes[q]
    BY <2>1 DEF Put
  <2>4. RecipesTyped'
    BY <2>1, <2>2, <2>3 DEF ShelfInv, RecipesTyped
  <2>. QED  BY <2>1, <2>4
            DEF ShelfInv, BooksTyped, RowsTyped, CountTyped, CountRows, Frozen, sheet
<1>3. ASSUME NEW m \in Materials, Lose(m) PROVE ShelfInv'
  <2>1. /\ shelf' = [shelf EXCEPT ![m] = @ - 1] /\ lost' = [lost EXCEPT ![m] = @ + 1]
        /\ UNCHANGED <<recipes, ledger, book, count>>
    BY <1>3 DEF Lose
  <2>2. BooksTyped'
    BY <2>1 DEF ShelfInv, BooksTyped, RowsTyped, Quantities
  <2>3. RecipesTyped' /\ CountTyped' /\ CountRows'
    BY <2>1 DEF ShelfInv, RecipesTyped, CountTyped, CountRows
  <2>4. ASSUME count.state = "draft", NEW n \in DOMAIN count.lines
        PROVE  book[n] - shelf'[n] = count.lines[n].book - count.lines[n].counted + lost'[n]
    <3>1. /\ n \in Materials /\ book[n] \in Int /\ shelf[n] \in Int /\ lost[n] \in Int
          /\ count.lines[n].counted \in Int /\ count.lines[n].book \in Int
      BY DEF ShelfInv, CountTyped, BooksTyped, Quantities
    <3>2. book[n] - shelf[n] = count.lines[n].book - count.lines[n].counted + lost[n]
      BY <2>4 DEF ShelfInv, Frozen
    <3>3. \/ shelf'[n] = shelf[n] - 1 /\ lost'[n] = lost[n] + 1
          \/ shelf'[n] = shelf[n] /\ lost'[n] = lost[n]
      BY <2>1, <3>1 DEF ShelfInv, BooksTyped, Quantities
    <3>. QED  BY <3>1, <3>2, <3>3
  <2>5. Frozen'
    BY <2>1, <2>4 DEF Frozen
  <2>. QED  BY <2>2, <2>3, <2>5 DEF ShelfInv
<1>4. ASSUME NEW m \in Materials, NEW qty \in {-1, 1}, Move(m, qty) PROVE ShelfInv'
  <2>1. PICK rev : Moved(OneRow(Row("hand", rev, "hand"), [Nothing EXCEPT ![m] = qty]))
    BY <1>4 DEF Move
  <2>2. [Nothing EXCEPT ![m] = qty] \in Quantities
    BY DEF Nothing, Quantities
  <2>3. UNCHANGED <<recipes, sheet>>
    BY <1>4 DEF Move
  <2>. QED  BY <2>1, <2>2, <2>3, OneRowKeepsTheCount
<1>. QED  BY <1>1, <1>2, <1>3, <1>4 DEF Keeping

\* What approving writes: the differences as they were frozen, in a row of a
\* count that has none yet.
LEMMA ApproveWrites ==
    ASSUME ShelfInv, Approve
    PROVE  /\ RowsTyped(ledger') /\ book' \in Quantities
           /\ \A id \in DOMAIN ledger' : id \in DOMAIN ledger \/ (id.of = "count" /\ id.rev = count.no)
           /\ \A m \in DOMAIN count.lines : book'[m] = book[m] + Variance(m)
<1>. DEFINE found == [m \in Materials |-> IF m \in DOMAIN count.lines THEN Variance(m) ELSE 0]
            row == Row("count", count.no, "count")
            rows == IF found = Nothing THEN NoRows ELSE OneRow(row, found)
<1>1. Written(rows) /\ count.state = "draft"
  BY DEF Approve
<1>2. found \in Quantities
  BY DEF ShelfInv, CountTyped, Variance, Quantities
<1>3. \A m \in DOMAIN count.lines : m \in Materials /\ found[m] = Variance(m)
  BY DEF ShelfInv, CountTyped
<1>. HIDE DEF found
<1>4. /\ RowsTyped(rows) /\ \A m \in Materials : Total(rows)[m] = found[m]
      /\ rows = [id \in DOMAIN rows |-> rows[id]]
      /\ DOMAIN rows \subseteq {row}
  <2>1. CASE found = Nothing
    <3>1. \A m \in Materials : found[m] = 0
      BY <2>1 DEF Nothing
    <3>2. DOMAIN NoRows = {} /\ NoRows = [id \in DOMAIN NoRows |-> NoRows[id]]
      BY DEF NoRows
    <3>. QED  BY <2>1, <3>1, <3>2, NoRowsTyped
  <2>2. CASE found # Nothing
    <3>1. DOMAIN OneRow(row, found) = {row} /\ OneRow(row, found) = [id \in {row} |-> OneRow(row, found)[id]]
      BY DEF OneRow
    <3>2. RowsTyped(OneRow(row, found)) /\ \A m \in Materials : Total(OneRow(row, found))[m] = found[m]
      BY <1>2, OneRowTyped
    <3>3. rows = OneRow(row, found)
      BY <2>2
    <3>. HIDE DEF rows, row
    <3>. QED  BY <3>1, <3>2, <3>3
  <2>. QED  BY <2>1, <2>2
<1>. HIDE DEF rows
<1>5. row.of = "count" /\ row.rev = count.no /\ row \notin DOMAIN ledger
  <2>1. row.of = "count" /\ row.rev = count.no
    BY RowId
  <2>. QED  BY <1>1, <2>1 DEF ShelfInv, CountRows, CountTyped
<1>. HIDE DEF row
<1>6. Fresh(rows) = rows
  <2>1. DOMAIN rows \cap DOMAIN ledger = {}
    BY <1>4, <1>5
  <2>. QED  BY <1>4, <2>1, AllFresh
<1>7. book' = Both(book, Total(rows)) /\ Total(rows) \in Quantities
  BY <1>1, <1>4, <1>6, TotalIsTyped DEF Written
<1>8. \A m \in Materials : book'[m] = book[m] + Total(rows)[m] /\ book[m] \in Int /\ Total(rows)[m] \in Int
  BY <1>7 DEF Both, ShelfInv, BooksTyped, Quantities
<1>9. book' \in Quantities
  BY <1>7 DEF Both, ShelfInv, BooksTyped, Quantities
<1>10. RowsTyped(ledger')
  BY <1>1, <1>4, LedgerStaysTyped DEF ShelfInv, BooksTyped
<1>11. DOMAIN ledger' = DOMAIN ledger \cup DOMAIN rows
  BY <1>1, OnlyAdded
<1>. QED  BY <1>3, <1>4, <1>5, <1>8, <1>9, <1>10, <1>11

\* Counting keeps it: a line freezes book and shelf, approving ends it.
LEMMA CountingKeepsTheCount ==
    ASSUME ShelfInv, Counting
    PROVE  ShelfInv'
<1>1. CASE OpenCount
  <2>1. /\ count' = [state |-> "draft", no |-> count.no + 1, lines |-> <<>>]
        /\ UNCHANGED <<recipes, ledger, book, shelf, lost>>
    BY <1>1 DEF OpenCount
  <2>2. count'.no = count.no + 1 /\ count'.lines = <<>> /\ DOMAIN count'.lines = {} /\ count.no \in Nat
    BY <2>1 DEF ShelfInv, CountTyped
  <2>3. CountTyped'
    BY <2>1, <2>2 DEF CountTyped
  <2>4. CountRows'
    BY <2>1, <2>2 DEF ShelfInv, CountRows
  <2>5. Frozen'
    BY <2>2 DEF Frozen
  <2>. QED  BY <2>1, <2>3, <2>4, <2>5 DEF ShelfInv, RecipesTyped, BooksTyped, RowsTyped
<1>2. CASE Approve
  <2>1. count' = [count EXCEPT !.state = "approved"] /\ UNCHANGED <<recipes, shelf, lost>>
    BY <1>2 DEF Approve
  <2>2. count'.state = "approved" /\ count'.no = count.no /\ count'.lines = count.lines /\ CountTyped'
    BY <2>1 DEF ShelfInv, CountTyped
  <2>3. /\ RowsTyped(ledger') /\ book' \in Quantities
        /\ \A id \in DOMAIN ledger' : id \in DOMAIN ledger \/ (id.of = "count" /\ id.rev = count.no)
    BY <1>2, ApproveWrites
  <2>4. BooksTyped' /\ RecipesTyped'
    BY <2>1, <2>3 DEF ShelfInv, BooksTyped, RowsTyped, RecipesTyped
  <2>5. CountRows'
    BY <2>2, <2>3 DEF ShelfInv, CountRows, CountTyped
  <2>. QED  BY <2>2, <2>4, <2>5 DEF ShelfInv, Frozen
<1>3. CASE Abandon
  <2>1. /\ count' = [count EXCEPT !.state = "abandoned"]
        /\ UNCHANGED <<recipes, ledger, book, shelf, lost>>
    BY <1>3 DEF Abandon
  <2>2. count'.state = "abandoned" /\ count'.no = count.no /\ count'.lines = count.lines /\ CountTyped'
    BY <2>1 DEF ShelfInv, CountTyped
  <2>. QED  BY <2>1, <2>2 DEF ShelfInv, RecipesTyped, BooksTyped, RowsTyped, CountRows, Frozen
<1>4. ASSUME NEW m \in Materials, RecordLine(m) PROVE ShelfInv'
  <2>. DEFINE line == [counted |-> shelf[m], book |-> book[m]]
              lines == Put(count.lines, m, line)
  <2>1. /\ count' = [count EXCEPT !.lines = lines] /\ lost' = [lost EXCEPT ![m] = 0]
        /\ UNCHANGED <<recipes, ledger, book, shelf>>
    BY <1>4 DEF RecordLine
  <2>2. /\ DOMAIN lines = DOMAIN count.lines \cup {m}
        /\ \A n \in DOMAIN lines : lines[n] = IF n = m THEN line ELSE count.lines[n]
    BY DEF Put
  <2>3. book[m] \in Int /\ shelf[m] \in Int
    BY DEF ShelfInv, BooksTyped, Quantities
  <2>. HIDE DEF lines
  <2>4. /\ count' = [state |-> count.state, no |-> count.no, lines |-> lines]
        /\ count'.state = count.state /\ count'.no = count.no /\ count'.lines = lines
    BY <2>1 DEF ShelfInv, CountTyped
  <2>5. CountTyped'
    BY <2>2, <2>3, <2>4 DEF ShelfInv, CountTyped
  <2>6. lost' \in Quantities /\ lost'[m] = 0 /\ \A n \in Materials \ {m} : lost'[n] = lost[n]
    BY <2>1 DEF ShelfInv, BooksTyped, Quantities
  <2>7. ASSUME count.state = "draft", NEW n \in DOMAIN lines
        PROVE  book[n] - shelf[n] = lines[n].book - lines[n].counted + lost'[n]
    <3>1. CASE n = m
      BY <2>2, <2>3, <2>6, <3>1
    <3>2. CASE n # m
      BY <2>2, <2>6, <2>7, <3>2 DEF ShelfInv, Frozen, CountTyped
    <3>. QED  BY <3>1, <3>2
  <2>8. Frozen'
    BY <2>1, <2>4, <2>7 DEF Frozen
  <2>. QED  BY <2>1, <2>4, <2>5, <2>6, <2>8
            DEF ShelfInv, RecipesTyped, BooksTyped, RowsTyped, CountRows
<1>5. ASSUME NEW m \in Materials, RemoveLine(m) PROVE ShelfInv'
  <2>. DEFINE lines == [n \in DOMAIN count.lines \ {m} |-> count.lines[n]]
  <2>1. /\ count' = [count EXCEPT !.lines = lines] /\ UNCHANGED <<recipes, ledger, book, shelf, lost>>
    BY <1>5 DEF RemoveLine
  <2>2. /\ DOMAIN lines \subseteq DOMAIN count.lines /\ \A n \in DOMAIN lines : lines[n] = count.lines[n]
    OBVIOUS
  <2>. HIDE DEF lines
  <2>3. /\ count' = [state |-> count.state, no |-> count.no, lines |-> lines]
        /\ count'.state = count.state /\ count'.no = count.no /\ count'.lines = lines
    BY <2>1 DEF ShelfInv, CountTyped
  <2>4. CountTyped'
    BY <2>2, <2>3 DEF ShelfInv, CountTyped
  <2>. QED  BY <2>1, <2>2, <2>3, <2>4
            DEF ShelfInv, RecipesTyped, BooksTyped, RowsTyped, CountRows, Frozen
<1>. QED  BY <1>1, <1>2, <1>3, <1>4, <1>5 DEF Counting

\* Every step keeps book, shelf and counts in step.
LEMMA ShelfStep == Inv /\ ShelfInv /\ [Next]_vars => ShelfInv'
<1>. SUFFICES ASSUME Inv, ShelfInv, [Next]_vars PROVE ShelfInv'
  OBVIOUS
<1>1. CASE UNCHANGED vars
  BY <1>1, ShelfUntouched DEF vars, sheet
<1>. QED  BY <1>1, SellingKeepsTheCount, BuyingKeepsTheCount, KeepingKeepsTheCount, CountingKeepsTheCount DEF Next

\* Book, shelf and counts agree at the start.
LEMMA ShelfStart == Init => ShelfInv
<1>. SUFFICES ASSUME Init PROVE ShelfInv
  OBVIOUS
<1>1. /\ recipes \in Menus /\ book \in Openings /\ shelf = book /\ lost = Nothing
      /\ ledger = OneRow(Row("hand", 0, "hand"), book)
      /\ count = [state |-> "none", no |-> 0, lines |-> <<>>]
  BY DEF Init
<1>2. RecipesTyped
  BY <1>1, StockAssumption DEF RecipesTyped
<1>3. book \in Quantities /\ lost \in Quantities
  <2>1. book \in [Materials -> Nat]
    BY <1>1, StockAssumption
  <2>. QED  BY <1>1, <2>1 DEF Quantities, Nothing
<1>4. RowsTyped(ledger)
  BY <1>1, <1>3, OneRowTyped
<1>5. count.lines = <<>> /\ DOMAIN count.lines = {} /\ count.state = "none" /\ count.no = 0
  BY <1>1
<1>6. CountTyped
  BY <1>1, <1>5 DEF CountTyped
<1>7. \A id \in DOMAIN ledger : id.of # "count"
  BY <1>1, RowId DEF OneRow
<1>. QED  BY <1>1, <1>2, <1>3, <1>4, <1>5, <1>6, <1>7 DEF ShelfInv, BooksTyped, CountRows, Frozen

\* Approving a count (`approve`) leaves the book of what was counted at what
\* is on the shelf, but for what was lost since, for any number of bills,
\* papers and counts and whatever happened between the two.
THEOREM CountHolds == Spec => CountSettlesTheBook
<1>. DEFINE Settled == count.state = "draft" /\ count'.state = "approved"
                          => \A m \in DOMAIN count.lines : book'[m] - shelf'[m] = lost[m]
<1>1. ShelfInv /\ [Next]_vars => [Settled]_vars
  <2>. SUFFICES ASSUME ShelfInv, Next, count.state = "draft", count'.state = "approved",
                       NEW m \in DOMAIN count.lines
                PROVE  book'[m] - shelf'[m] = lost[m]
    OBVIOUS
  <2>1. CASE Approve
    <3>1. book'[m] = book[m] + Variance(m) /\ shelf' = shelf
      BY <2>1, ApproveWrites DEF Approve
    <3>2. /\ m \in Materials /\ book[m] \in Int /\ shelf[m] \in Int /\ lost[m] \in Int
          /\ count.lines[m].counted \in Int /\ count.lines[m].book \in Int
      BY DEF ShelfInv, CountTyped, BooksTyped, Quantities
    <3>3. book[m] - shelf[m] = count.lines[m].book - count.lines[m].counted + lost[m]
      BY DEF ShelfInv, Frozen
    <3>. QED  BY <3>1, <3>2, <3>3 DEF Variance
  <2>2. CASE ~Approve
    <3>1. count'.state = count.state \/ count'.state \in {"draft", "abandoned"}
      <4>1. CASE Selling
        BY <4>1 DEF Selling, Settle, Correct, Void, sheet
      <4>2. CASE Buying
        BY <4>2 DEF Buying, Cancel, Deliver, SendBack, sheet
      <4>3. CASE Keeping
        BY <4>3 DEF Keeping, DeleteRecipe, SaveRecipe, Lose, Move, sheet
      <4>4. CASE Counting
        <5>1. CASE OpenCount
          BY <5>1 DEF OpenCount
        <5>2. CASE Abandon
          BY <5>2 DEF Abandon, ShelfInv, CountTyped
        <5>3. CASE \E n \in Materials : RecordLine(n) \/ RemoveLine(n)
          BY <5>3 DEF RecordLine, RemoveLine, ShelfInv, CountTyped
        <5>. QED  BY <2>2, <4>4, <5>1, <5>2, <5>3 DEF Counting
      <4>. QED  BY <4>1, <4>2, <4>3, <4>4 DEF Next
    <3>. QED  BY <3>1
  <2>. QED  BY <2>1, <2>2
<1>. QED  BY <1>1, StartsSo, StepKeeps, ShelfStart, ShelfStep, PTL DEF Spec, CountSettlesTheBook

----------------------------------------------------------------------------
(* What is made for a bill. *)

Drew(b, part) == Row(b, bills'[b].rev, part)

\* MadeAsNeeded of one bill and one material.
Needed(b, m) ==
    Drew(b, "sale") \in DOMAIN ledger' \ DOMAIN ledger /\ ledger'[Drew(b, "sale")][m] # 0
      => /\ book'[m] >= 0
         /\ Drew(b, "made") \in DOMAIN ledger' /\ ledger'[Drew(b, "made")][m] # 0 => book'[m] = 0

\* Settling makes what the bill is short of, and no more.
LEMMA SettlesAsNeeded ==
    ASSUME Typed, ShelfInv, NEW b \in Bills, NEW rev \in Nat, NEW sold \in Carts, Settles(b, rev, sold),
           \A id \in DOMAIN ledger : id.of = b => id.rev # rev, bills'[b].rev = rev,
           NEW m \in Made \cap DOMAIN recipes
    PROVE  Needed(b, m)
<1>. DEFINE sale == Row(b, rev, "sale")  made == Row(b, rev, "made")
<1>1. PICK rows : /\ Moved(rows)
                  /\ sale \in DOMAIN rows /\ rows[sale][m] # 0 =>
                        /\ book'[m] >= 0
                        /\ made \in DOMAIN rows /\ rows[made][m] # 0 => book'[m] = 0
  BY SettlesWrites DEF ShelfInv
<1>2. /\ DOMAIN ledger' = DOMAIN ledger \cup DOMAIN rows
      /\ \A id \in DOMAIN rows \ DOMAIN ledger : ledger'[id] = rows[id]
  BY <1>1, OnlyAdded DEF Moved
<1>3. sale \notin DOMAIN ledger /\ made \notin DOMAIN ledger
  BY RowId
<1>4. Drew(b, "sale") = sale /\ Drew(b, "made") = made
  BY DEF Drew
<1>. HIDE DEF sale, made
<1>. QED  BY <1>1, <1>2, <1>3, <1>4 DEF Needed

\* Rows of others, and opposites, are not what the bill drew.
LEMMA OthersNeedNothing ==
    ASSUME NEW b, NEW m, NEW rows, Written(rows), \A id \in DOMAIN rows : id.of # b \/ id.undoes
    PROVE  Needed(b, m)
<1>1. DOMAIN ledger' = DOMAIN ledger \cup DOMAIN rows
  BY OnlyAdded
<1>2. Drew(b, "sale").of = b /\ ~Drew(b, "sale").undoes
  BY RowId DEF Drew
<1>. QED  BY <1>1, <1>2 DEF Needed

\* What makes nothing makes no more than is needed.
LEMMA NothingNeeded ==
    ASSUME NEW b, NEW m, ledger' = ledger
    PROVE  Needed(b, m)
BY DEF Needed

\* Settling, correcting and voiding make only what is short.
LEMMA SellingAsNeeded ==
    ASSUME Inv, ShelfInv, Selling, NEW b \in Bills, NEW m \in Made \cap DOMAIN recipes
    PROVE  Needed(b, m)
<1>1. Typed /\ RecipesTyped /\ BooksTyped
  BY DEF Inv, ShelfInv
<1>2. PICK o \in Bills : \/ \E c \in Carts : Settle(o, c) \/ Correct(o, c)
                         \/ \E eaten \in BOOLEAN : Void(o, eaten)
  BY DEF Selling
<1>3. ASSUME NEW c \in Carts, NEW rev \in Nat, Settles(o, rev, c), bills'[o].rev = rev,
             \A id \in DOMAIN ledger : id.of = o => id.rev # rev
      PROVE  Needed(b, m)
  <2>1. CASE b = o
    BY <1>1, <1>3, <2>1, SettlesAsNeeded
  <2>2. CASE b # o
    <3>1. PICK rows : Moved(rows) /\ \A id \in DOMAIN rows : id.of = o
      BY <1>1, <1>3, SettlesWrites
    <3>. QED  BY <2>2, <3>1, OthersNeedNothing DEF Moved
  <2>. QED  BY <2>1, <2>2
<1>4. ASSUME NEW c \in Carts, Settle(o, c) PROVE Needed(b, m)
  <2>1. \A id \in DOMAIN ledger : id.of = o => id.rev # 0
    BY <1>4, NewRevision DEF Settle
  <2>2. Settles(o, 0, c) /\ bills'[o].rev = 0
    BY <1>1, <1>4 DEF Settle, Typed
  <2>. QED  BY <1>3, <2>1, <2>2
<1>5. ASSUME NEW c \in Carts, Correct(o, c) PROVE Needed(b, m)
  <2>1. bills[o].rev + 1 \in Nat /\ \A id \in DOMAIN ledger : id.of = o => id.rev # bills[o].rev + 1
    BY NewRevision
  <2>2. Settles(o, bills[o].rev + 1, c) /\ bills'[o].rev = bills[o].rev + 1
    BY <1>1, <1>5 DEF Correct, Typed
  <2>. QED  BY <1>3, <2>1, <2>2
<1>6. ASSUME NEW eaten \in BOOLEAN, Void(o, eaten) PROVE Needed(b, m)
  <2>. DEFINE rows == IF eaten THEN NoRows ELSE Undo(o)
  <2>1. Written(rows)
    BY <1>6 DEF Void, Moved
  <2>2. \A id \in DOMAIN rows : id \in DOMAIN Undo(o)
    BY DEF NoRows
  <2>3. \A id \in DOMAIN rows : id.undoes
    BY <2>2, UndoIds
  <2>. HIDE DEF rows
  <2>. QED  BY <2>1, <2>3, OthersNeedNothing
<1>. QED  BY <1>2, <1>4, <1>5, <1>6

\* A step that writes one row makes nothing.
LEMMA OneRowAsNeeded ==
    ASSUME NEW b, NEW m, NEW of, of # b, NEW rev, NEW part, NEW qty,
           Written(OneRow(Row(of, rev, part), qty))
    PROVE  Needed(b, m)
<1>1. \A id \in DOMAIN OneRow(Row(of, rev, part), qty) : id.of # b
  BY RowId DEF OneRow
<1>. QED  BY <1>1, OthersNeedNothing

\* No step but those of a bill makes anything.
LEMMA OthersAsNeeded ==
    ASSUME Inv, Buying \/ Keeping \/ Counting, NEW b \in Bills, NEW m
    PROVE  Needed(b, m)
<1>1. ASSUME NEW p \in Papers, Cancel(p) PROVE Needed(b, m)
  <2>1. Written(Undo(p))
    BY <1>1 DEF Cancel, Moved
  <2>2. ASSUME NEW id \in DOMAIN Undo(p) PROVE id.undoes
    <3>1. PICK i \in UndoneRows(p) : id = Opposite(i)
      BY <2>2, UndoRows DEF Inv
    <3>2. IsId(i)
      BY DEF UndoneRows, Originals, Inv, Typed
    <3>. QED  BY <3>1, <3>2, OppositeId
  <2>. QED  BY <2>1, <2>2, OthersNeedNothing
<1>2. ASSUME NEW p \in Papers, NEW l, Deliver(p, l) PROVE Needed(b, m)
  <2>1. Written(OneRow(Row(p, 0, "goods"), Both(l.first, l.again))) /\ p # b
    BY <1>2, StockAssumption DEF Deliver, Moved
  <2>. QED  BY <2>1, OneRowAsNeeded
<1>3. ASSUME NEW p \in Papers, NEW d, NEW l, SendBack(p, d, l) PROVE Needed(b, m)
  <2>1. Written(OneRow(Row(p, 0, "goods"), Negated(Both(l.first, l.again)))) /\ p # b
    BY <1>3, StockAssumption DEF SendBack, Moved
  <2>. QED  BY <2>1, OneRowAsNeeded
<1>4. CASE Buying
  BY <1>1, <1>2, <1>3, <1>4 DEF Buying
<1>5. ASSUME NEW n, NEW qty, Move(n, qty) PROVE Needed(b, m)
  <2>1. PICK rev, moved : Written(OneRow(Row("hand", rev, "hand"), moved))
    BY <1>5 DEF Move, Moved
  <2>2. "hand" # b
    BY StockAssumption
  <2>. QED  BY <2>1, <2>2, OneRowAsNeeded
<1>6. CASE Keeping
  <2>1. (\E n \in Materials : \E qty \in {-1, 1} : Move(n, qty)) \/ ledger' = ledger
    BY <1>6 DEF Keeping, DeleteRecipe, SaveRecipe, Lose
  <2>. QED  BY <1>5, <2>1, NothingNeeded
<1>7. CASE Approve
  <2>1. PICK found : Written(IF found = Nothing THEN NoRows
                             ELSE OneRow(Row("count", count.no, "count"), found))
    BY <1>7 DEF Approve
  <2>2. "count" # b
    BY StockAssumption
  <2>3. CASE found = Nothing
    <3>1. \A id \in DOMAIN NoRows : id.of # b
      BY DEF NoRows
    <3>. QED  BY <2>1, <2>3, <3>1, OthersNeedNothing
  <2>4. CASE found # Nothing
    BY <2>1, <2>2, <2>4, OneRowAsNeeded
  <2>. QED  BY <2>3, <2>4
<1>8. CASE Counting
  <2>1. Approve \/ ledger' = ledger
    BY <1>8 DEF Counting, OpenCount, Abandon, RecordLine, RemoveLine
  <2>. QED  BY <1>7, <2>1, NothingNeeded
<1>. QED  BY <1>4, <1>6, <1>8

\* A bill that draws a made material never leaves it below nothing, and where
\* some had to be made for it none is left over (`take` and `draw_from`), for
\* any recipes, carts and stock and however many of its lines shared what was
\* there.
THEOREM MadeHolds == Spec => MadeAsNeeded
<1>. DEFINE NeededNow == \A b \in Bills, m \in Made \cap DOMAIN recipes :
         LET drew(part) == Row(b, bills'[b].rev, part)
         IN drew("sale") \in DOMAIN ledger' \ DOMAIN ledger /\ ledger'[drew("sale")][m] # 0
            => /\ book'[m] >= 0
               /\ (drew("made") \in DOMAIN ledger' /\ ledger'[drew("made")][m] # 0) => book'[m] = 0
<1>1. Inv /\ ShelfInv /\ [Next]_vars => [NeededNow]_vars
  <2>. SUFFICES ASSUME Inv, ShelfInv, Next, NEW b \in Bills, NEW m \in Made \cap DOMAIN recipes
                PROVE  Needed(b, m)
    BY DEF Needed, Drew
  <2>. QED  BY SellingAsNeeded, OthersAsNeeded DEF Next
<1>. QED  BY <1>1, StartsSo, StepKeeps, ShelfStart, ShelfStep, PTL DEF Spec, MadeAsNeeded

----------------------------------------------------------------------------
(* Folds.  A fold takes the elements of a finite set one by one, as `pick` *)
(* says, and `step` adds each to what the others came to.                  *)

Folding(step, pick, base, S, g) ==
    g = [s \in SUBSET S |-> IF s = {} THEN base ELSE step[<<pick[s], g[s \ {pick[s]}]>>]]
Picks(pick, S) == \A s \in SUBSET S : s # {} => pick[s] \in s

\* The fold of nothing, and the fold unfolded once.
LEMMA FoldOfNone ==
    ASSUME NEW step, NEW pick, NEW base, NEW S, NEW g, Folding(step, pick, base, S, g)
    PROVE  g[{}] = base
<1>1. {} \in SUBSET S
  OBVIOUS
<1>2. g[{}] = IF {} = {} THEN base ELSE step[<<pick[{}], g[{} \ {pick[{}]}]>>]
  BY <1>1, Zenon DEF Folding
<1>. QED  BY <1>2

\* The fold unfolded once.
LEMMA FoldStep ==
    ASSUME NEW step, NEW pick, NEW base, NEW S, NEW g, Folding(step, pick, base, S, g),
           NEW s \in SUBSET S, s # {}
    PROVE  g[s] = step[<<pick[s], g[s \ {pick[s]}]>>]
BY Zenon DEF Folding

\* Folding a set folds its subsets.
LEMMA FoldBelow ==
    ASSUME NEW step, NEW pick, NEW base, NEW S, NEW g, Folding(step, pick, base, S, g), NEW T \in SUBSET S
    PROVE  Folding(step, pick, base, T, [t \in SUBSET T |-> g[t]])
<1>. DEFINE h == [t \in SUBSET T |-> g[t]]
<1>1. ASSUME NEW t \in SUBSET T
      PROVE  h[t] = IF t = {} THEN base ELSE step[<<pick[t], h[t \ {pick[t]}]>>]
  <2>1. t \in SUBSET S /\ t \ {pick[t]} \in SUBSET T
    OBVIOUS
  <2>2. h[t] = g[t] /\ h[t \ {pick[t]}] = g[t \ {pick[t]}]
    BY <2>1
  <2>3. g[{}] = base
    BY FoldOfNone
  <2>4. ASSUME t # {} PROVE g[t] = step[<<pick[t], g[t \ {pick[t]}]>>]
    BY <2>1, <2>4, FoldStep
  <2>. HIDE DEF h
  <2>. QED  BY <2>2, <2>3, <2>4
<1>2. h = [t \in SUBSET T |-> IF t = {} THEN base ELSE step[<<pick[t], h[t \ {pick[t]}]>>]]
  <2>. DEFINE k == [t \in SUBSET T |-> IF t = {} THEN base ELSE step[<<pick[t], h[t \ {pick[t]}]>>]]
  <2>1. \A t \in SUBSET T : h[t] = k[t]
    <3>. HIDE DEF h
    <3>. QED  BY <1>1
  <2>. QED  BY <2>1
<1>. HIDE DEF h
<1>. QED  BY <1>2 DEF Folding

\* Two folds agree where both are defined.
LEMMA FoldsAgree ==
    ASSUME NEW step, NEW pick, NEW base, NEW S, NEW T, IsFiniteSet(S), Picks(pick, S),
           NEW g, NEW h, Folding(step, pick, base, S, g), Folding(step, pick, base, T, h),
           NEW s \in SUBSET (S \cap T)
    PROVE  g[s] = h[s]
<1>. DEFINE U == S \cap T
            A == {t \in SUBSET U : g[t] = h[t]}
<1>1. IsFiniteSet(U)
  BY FS_Subset
<1>2. ASSUME NEW t \in SUBSET U, \A x \in t : t \ {x} \in A
      PROVE  t \in A
  <2>1. CASE t = {}
    <3>1. g[{}] = base /\ h[{}] = base
      BY FoldOfNone
    <3>. QED  BY <2>1, <3>1
  <2>2. CASE t # {}
    <3>1. t \ {pick[t]} \in A
      BY <1>2, <2>2 DEF Picks
    <3>2. g[t \ {pick[t]}] = h[t \ {pick[t]}]
      BY <3>1
    <3>3. t \in SUBSET S /\ t \in SUBSET T
      OBVIOUS
    <3>4. g[t] = step[<<pick[t], g[t \ {pick[t]}]>>] /\ h[t] = step[<<pick[t], h[t \ {pick[t]}]>>]
      BY <2>2, <3>3, FoldStep
    <3>. QED  BY <3>2, <3>4
  <2>. QED  BY <2>1, <2>2
<1>3. SUBSET U \subseteq A
  <2>. HIDE DEF A, U
  <2>. QED  BY <1>1, <1>2, SubsetInduction
<1>. QED  BY <1>3

\* Every finite set can be folded.
LEMMA FoldExists ==
    ASSUME NEW step, NEW pick, NEW base, NEW S, IsFiniteSet(S), Picks(pick, S)
    PROVE  \E g : Folding(step, pick, base, S, g)
<1>. DEFINE A == {t \in SUBSET S : \E g : Folding(step, pick, base, t, g)}
<1>1. ASSUME NEW s \in SUBSET S, \A x \in s : s \ {x} \in A
      PROVE  s \in A
  <2>. DEFINE C(t) == CHOOSE g : Folding(step, pick, base, t, g)
              G == [t \in SUBSET s |-> IF t = {} THEN base ELSE step[<<pick[t], C(t \ {pick[t]})[t \ {pick[t]}]>>]]
  <2>1. ASSUME NEW t \in SUBSET s, t # s PROVE Folding(step, pick, base, t, C(t))
    <3>1. PICK x \in s : x \notin t
      BY <2>1
    <3>2. PICK g : Folding(step, pick, base, s \ {x}, g)
      BY <1>1
    <3>3. t \in SUBSET (s \ {x})
      BY <3>1
    <3>4. Folding(step, pick, base, t, [u \in SUBSET t |-> g[u]])
      BY <3>2, <3>3, FoldBelow
    <3>. QED  BY <3>4, Zenon
  <2>2. ASSUME NEW t \in SUBSET s, t # s PROVE G[t] = C(t)[t]
    <3>1. Folding(step, pick, base, t, C(t))
      BY <2>1, <2>2
    <3>. HIDE DEF C
    <3>2. CASE t = {}
      <4>1. G[t] = base
        BY <3>2
      <4>2. C(t)[{}] = base
        BY <3>1, FoldOfNone
      <4>3. C(t)[t] = base
        BY <3>2, <4>2
      <4>. HIDE DEF G
      <4>. QED  BY <4>1, <4>3
    <3>3. CASE t # {}
      <4>. DEFINE u == t \ {pick[t]}
      <4>1. u \in SUBSET s /\ u # s /\ u \in SUBSET t /\ u \in SUBSET (t \cap u)
        BY <2>2
      <4>2. Folding(step, pick, base, u, C(u))
        BY <2>1, <4>1
      <4>3. IsFiniteSet(t) /\ Picks(pick, t)
        BY FS_Subset DEF Picks
      <4>. HIDE DEF u
      <4>4. C(t)[u] = C(u)[u]
        BY <3>1, <4>1, <4>2, <4>3, FoldsAgree
      <4>5. C(t)[t] = step[<<pick[t], C(t)[u]>>]
        BY <3>1, <3>3, FoldStep DEF u
      <4>6. G[t] = step[<<pick[t], C(u)[u]>>]
        BY <3>3 DEF u
      <4>. HIDE DEF G, C
      <4>. QED  BY <4>4, <4>5, <4>6, Zenon
    <3>. QED  BY <3>2, <3>3
  <2>3. ASSUME NEW t \in SUBSET s
        PROVE  G[t] = IF t = {} THEN base ELSE step[<<pick[t], G[t \ {pick[t]}]>>]
    <3>1. CASE t = {}
      BY <3>1
    <3>2. CASE t # {}
      <4>1. t \ {pick[t]} \in SUBSET s /\ t \ {pick[t]} # s
        BY <3>2 DEF Picks
      <4>2. G[t \ {pick[t]}] = C(t \ {pick[t]})[t \ {pick[t]}]
        <5>. HIDE DEF C, G
        <5>. QED  BY <2>2, <4>1
      <4>. HIDE DEF C
      <4>. QED  BY <3>2, <4>2
    <3>. QED  BY <3>1, <3>2
  <2>4. G = [t \in SUBSET s |-> IF t = {} THEN base ELSE step[<<pick[t], G[t \ {pick[t]}]>>]]
    <3>. DEFINE k == [t \in SUBSET s |-> IF t = {} THEN base ELSE step[<<pick[t], G[t \ {pick[t]}]>>]]
    <3>. HIDE DEF C
    <3>1. \A t \in SUBSET s : G[t] = k[t]
      <4>. HIDE DEF G
      <4>. QED  BY <2>3
    <3>. QED  BY <3>1
  <2>5. Folding(step, pick, base, s, G)
    <3>. HIDE DEF G
    <3>. QED  BY <2>4 DEF Folding
  <2>. QED  BY <2>5
<1>2. SUBSET S \subseteq A
  <2>. HIDE DEF A
  <2>. QED  BY <1>1, SubsetInduction
<1>. QED  BY <1>2

\* A fold whose steps stay within D stays within D.
LEMMA FoldTyped ==
    ASSUME NEW step, NEW pick, NEW base, NEW S, IsFiniteSet(S), Picks(pick, S), NEW g,
           Folding(step, pick, base, S, g), NEW D, base \in D,
           \A x \in S, d \in D : step[<<x, d>>] \in D
    PROVE  g \in [SUBSET S -> D]
<1>. DEFINE A == {s \in SUBSET S : g[s] \in D}
<1>1. ASSUME NEW s \in SUBSET S, \A x \in s : s \ {x} \in A
      PROVE  s \in A
  <2>1. CASE s = {}
    <3>1. g[{}] = base
      BY FoldOfNone
    <3>. QED  BY <2>1, <3>1
  <2>2. CASE s # {}
    <3>1. pick[s] \in s /\ g[s \ {pick[s]}] \in D
      BY <1>1, <2>2 DEF Picks
    <3>2. step[<<pick[s], g[s \ {pick[s]}]>>] \in D
      BY <3>1
    <3>. QED  BY <2>2, <3>2, FoldStep
  <2>. QED  BY <2>1, <2>2
<1>2. SUBSET S \subseteq A
  <2>. HIDE DEF A
  <2>. QED  BY <1>1, SubsetInduction
<1>3. \A s \in SUBSET S : g[s] \in D
  BY <1>2
<1>4. g = [s \in SUBSET S |-> g[s]]
  BY DEF Folding
<1>. QED  BY <1>3, <1>4

\* Of finitely many things in a total order one is the last.
Ranks(R, S) ==
    /\ \A x \in S : <<x, x>> \in R
    /\ \A x, y \in S : <<x, y>> \in R \/ <<y, x>> \in R
    /\ \A x, y, z \in S : <<x, y>> \in R /\ <<y, z>> \in R => <<x, z>> \in R

\* Of finitely many things in a total order one is the last.
LEMMA LastOfAll ==
    ASSUME NEW S, IsFiniteSet(S), NEW R, Ranks(R, S), NEW s \in SUBSET S, s # {}
    PROVE  \E x \in s : \A y \in s : <<y, x>> \in R
<1>. DEFINE A == {t \in SUBSET S : t # {} => \E x \in t : \A y \in t : <<y, x>> \in R}
<1>1. ASSUME NEW t \in SUBSET S, \A x \in t : t \ {x} \in A
      PROVE  t \in A
  <2>1. SUFFICES ASSUME t # {} PROVE \E x \in t : \A y \in t : <<y, x>> \in R
    OBVIOUS
  <2>2. PICK a \in t : TRUE
    BY <2>1
  <2>3. CASE t \ {a} = {}
    BY <2>2, <2>3 DEF Ranks
  <2>4. CASE t \ {a} # {}
    <3>1. PICK x \in t \ {a} : \A y \in t \ {a} : <<y, x>> \in R
      BY <1>1, <2>2, <2>4
    <3>2. CASE <<a, x>> \in R
      BY <3>1, <3>2
    <3>3. CASE <<x, a>> \in R
      <4>1. \A y \in t : <<y, a>> \in R
        BY <2>2, <3>1, <3>3 DEF Ranks
      <4>. QED  BY <2>2, <4>1
    <3>. QED  BY <2>2, <3>1, <3>2, <3>3 DEF Ranks
  <2>. QED  BY <2>3, <2>4
<1>2. SUBSET S \subseteq A
  <2>. HIDE DEF A
  <2>. QED  BY <1>1, SubsetInduction
<1>. QED  BY <1>2

\* The largest of some numbers is one of them.
LEMMA MaxIsIn ==
    ASSUME NEW S, IsFiniteSet(S), S \subseteq Int, NEW s \in SUBSET S, s # {}
    PROVE  Max(s) \in s
<1>. DEFINE R == {p \in S \X S : p[1] <= p[2]}
<1>1. Ranks(R, S)
  BY DEF Ranks
<1>2. \E x \in s : \A y \in s : <<y, x>> \in R
  <2>. HIDE DEF R
  <2>. QED  BY <1>1, LastOfAll
<1>3. PICK x \in s : \A y \in s : <<y, x>> \in R
  BY <1>2
<1>4. \A y \in s : x >= y
  BY <1>3
<1>. QED  BY <1>4 DEF Max

----------------------------------------------------------------------------
(* Sums over a sequence: what each of its elements is worth, added up.     *)

\* Renaming the parts of a sum leaves it as it is.
Renames(b, T, S) ==
    /\ b \in [T -> S] /\ \A z \in S : \E x \in T : b[x] = z
    /\ \A x, y \in T : b[x] = b[y] => x = y

\* Renaming the parts of a sum leaves it as it is.
LEMMA SumOfImage ==
    ASSUME NEW T, IsFiniteSet(T), NEW S, NEW b, Renames(b, T, S),
           NEW f, \A z \in S : f[z] \in Int, NEW h, \A x \in T : h[x] = f[b[x]]
    PROVE  SumFunctionOnSet(h, T) = SumFunctionOnSet(f, S)
<1>. DEFINE Im(t) == {b[x] : x \in t}
            A == {t \in SUBSET T : SumFunctionOnSet(h, t) = SumFunctionOnSet(f, Im(t)) /\ IsFiniteSet(Im(t))}
<1>1. ASSUME NEW t \in SUBSET T, \A x \in t : t \ {x} \in A
      PROVE  t \in A
  <2>1. CASE t = {}
    <3>1. Im({}) = {}
      OBVIOUS
    <3>2. SumFunctionOnSet(h, {}) = 0 /\ SumFunctionOnSet(f, {}) = 0 /\ IsFiniteSet({})
      BY SumOfNone, FS_EmptySet
    <3>. HIDE DEF Im
    <3>. QED  BY <2>1, <3>1, <3>2
  <2>2. CASE t # {}
    <3>1. PICK y \in t : TRUE
      BY <2>2
    <3>2. /\ SumFunctionOnSet(h, t \ {y}) = SumFunctionOnSet(f, Im(t \ {y}))
          /\ IsFiniteSet(Im(t \ {y}))
      BY <1>1
    <3>3. Im(t) = Im(t \ {y}) \cup {b[y]} /\ b[y] \notin Im(t \ {y}) /\ Im(t) \subseteq S
      BY DEF Renames
    <3>4. /\ IsFiniteSet(t)
          /\ \A x \in t : h[x] \in Int
          /\ h[y] = f[b[y]]
      BY FS_Subset DEF Renames
    <3>. HIDE DEF Im
    <3>5. SumFunctionOnSet(h, t) = h[y] + SumFunctionOnSet(h, t \ {y})
      BY <3>4, SumRemove
    <3>6. (\A z \in Im(t \ {y}) : f[z] \in Int) /\ f[b[y]] \in Int
      BY <3>3
    <3>7. SumFunctionOnSet(f, Im(t \ {y}) \cup {b[y]}) = f[b[y]] + SumFunctionOnSet(f, Im(t \ {y}))
      BY <3>2, <3>3, <3>6, SumAdd
    <3>8. IsFiniteSet(Im(t \ {y}) \cup {b[y]})
      BY <3>2, FS_AddElement, Zenon
    <3>9. IsFiniteSet(Im(t))
      BY <3>3, <3>8, Zenon
    <3>. QED  BY <3>2, <3>3, <3>4, <3>5, <3>7, <3>9
  <2>. QED  BY <2>1, <2>2
<1>2. SUBSET T \subseteq A
  <2>. HIDE DEF A
  <2>. QED  BY <1>1, SubsetInduction
<1>3. Im(T) = S
  BY DEF Renames
<1>. QED  BY <1>2, <1>3

\* A sum over some of the parts is the sum in which the others count nothing.
LEMMA SumOfSome ==
    ASSUME NEW S, IsFiniteSet(S), NEW T \in SUBSET S, NEW f, NEW h,
           \A x \in S : f[x] \in Int /\ h[x] = IF x \in T THEN f[x] ELSE 0
    PROVE  SumFunctionOnSet(f, T) = SumFunctionOnSet(h, S)
<1>1. IsFiniteSet(T) /\ IsFiniteSet(S \ T) /\ T \cup (S \ T) = S /\ T \cap (S \ T) = {}
  BY FS_Subset
<1>2. (\A x \in T \cup (S \ T) : h[x] \in Int) /\ (\A x \in T : f[x] = h[x]) /\ \A x \in S \ T : h[x] = 0
  OBVIOUS
<1>3. SumFunctionOnSet(h, T \cup (S \ T)) = SumFunctionOnSet(h, T) + SumFunctionOnSet(h, S \ T)
  BY <1>1, <1>2, SumOfBoth
<1>4. SumFunctionOnSet(h, S \ T) = 0 /\ SumFunctionOnSet(f, T) = SumFunctionOnSet(h, T)
  BY <1>1, <1>2, SumOfZeros, SumOfSame
<1>5. SumFunctionOnSet(h, T) \in Int
  BY <1>1, <1>2, SumIsInt
<1>6. SumFunctionOnSet(h, S) = SumFunctionOnSet(h, T) + SumFunctionOnSet(h, S \ T)
  BY <1>1, <1>3, Zenon
<1>. QED  BY <1>4, <1>5, <1>6

\* A sum by groups: first the parts that bear the same label, then the groups.
Groups(g, f, label, S, L) ==
    /\ L = {label[x] : x \in S}
    /\ \A l \in L : g[l] = SumFunctionOnSet(f, {x \in S : label[x] = l})

\* A sum by groups is the sum: first each group, then all of them.
LEMMA SumByLabel ==
    ASSUME NEW S, IsFiniteSet(S), NEW f, NEW label, NEW g, \A x \in S : f[x] \in Int,
           NEW L, Groups(g, f, label, S, L)
    PROVE  SumFunctionOnSet(g, L) = SumFunctionOnSet(f, S)
<1>. DEFINE Of(M) == {x \in S : label[x] \in M}
            A == {M \in SUBSET L : SumFunctionOnSet(g, M) = SumFunctionOnSet(f, Of(M))}
<1>1. IsFiniteSet(L)
  <2>1. DEFINE h == [x \in S |-> label[x]]
  <2>2. h \in Surjection(S, L)
    BY DEF Surjection, Groups
  <2>. QED  BY <2>2, FS_Surjection
<1>2. \A l \in L : g[l] \in Int /\ g[l] = SumFunctionOnSet(f, {x \in S : label[x] = l})
  <2>1. TAKE l \in L
  <2>2. IsFiniteSet({x \in S : label[x] = l})
    BY FS_Subset
  <2>3. SumFunctionOnSet(f, {x \in S : label[x] = l}) \in Int
    BY <2>2, SumIsInt
  <2>. QED  BY <2>3 DEF Groups
<1>3. ASSUME NEW M \in SUBSET L, \A l \in M : M \ {l} \in A
      PROVE  M \in A
  <2>1. CASE M = {}
    <3>1. Of({}) = {}
      OBVIOUS
    <3>2. SumFunctionOnSet(g, {}) = 0 /\ SumFunctionOnSet(f, {}) = 0
      BY SumOfNone
    <3>. HIDE DEF Of
    <3>. QED  BY <2>1, <3>1, <3>2
  <2>2. CASE M # {}
    <3>1. PICK l \in M : TRUE
      BY <2>2
    <3>2. SumFunctionOnSet(g, M \ {l}) = SumFunctionOnSet(f, Of(M \ {l}))
      BY <1>3
    <3>3. IsFiniteSet(M) /\ \A k \in M : g[k] \in Int
      BY <1>1, <1>2, FS_Subset
    <3>4. SumFunctionOnSet(g, M) = g[l] + SumFunctionOnSet(g, M \ {l})
      BY <3>3, SumRemove
    <3>. DEFINE E == {x \in S : label[x] = l}
    <3>5. Of(M) = Of(M \ {l}) \cup E /\ Of(M \ {l}) \cap E = {} /\ Of(M) \subseteq S
      OBVIOUS
    <3>6. IsFiniteSet(Of(M \ {l})) /\ IsFiniteSet(E)
      BY FS_Subset
    <3>7. (\A x \in Of(M \ {l}) \cup E : f[x] \in Int) /\ g[l] = SumFunctionOnSet(f, E)
      BY <1>2
    <3>. HIDE DEF Of, E
    <3>8. SumFunctionOnSet(f, Of(M \ {l}) \cup E) = SumFunctionOnSet(f, Of(M \ {l})) + SumFunctionOnSet(f, E)
      BY <3>5, <3>6, <3>7, SumOfBoth
    <3>9. SumFunctionOnSet(f, Of(M \ {l})) \in Int /\ SumFunctionOnSet(f, E) \in Int
      BY <3>6, <3>7, SumIsInt
    <3>10. SumFunctionOnSet(g, M) = SumFunctionOnSet(f, Of(M \ {l})) + SumFunctionOnSet(f, E)
      BY <3>2, <3>4, <3>7, <3>9
    <3>11. SumFunctionOnSet(f, Of(M)) = SumFunctionOnSet(f, Of(M \ {l})) + SumFunctionOnSet(f, E)
      BY <3>5, <3>8, Zenon
    <3>. QED  BY <3>10, <3>11
  <2>. QED  BY <2>1, <2>2
<1>4. SUBSET L \subseteq A
  <2>. HIDE DEF A
  <2>. QED  BY <1>1, <1>3, SubsetInduction
<1>5. Of(L) = S
  BY DEF Groups
<1>. QED  BY <1>4, <1>5

\* What the elements of a sequence are worth.
Tally(s, val) == SumFunction([i \in DOMAIN s |-> val[s[i]]])

\* The places of a sequence.
LEMMA Places ==
    ASSUME NEW R, NEW s \in Seq(R)
    PROVE  /\ IsFiniteSet(DOMAIN s) /\ DOMAIN s = 1 .. Len(s) /\ DOMAIN s \subseteq Int
           /\ \A i \in DOMAIN s : s[i] \in R
           /\ Len(s) \in Nat
<1>1. IsFiniteSet(1 .. Len(s))
  BY FS_Interval
<1>. QED  BY <1>1

\* A tally of integers is one.
LEMMA TallyIsInt ==
    ASSUME NEW R, NEW s \in Seq(R), NEW val \in [R -> Int]
    PROVE  Tally(s, val) \in Int
<1>. DEFINE F == [i \in DOMAIN s |-> val[s[i]]]
<1>1. IsFiniteSet(DOMAIN s) /\ (\A i \in DOMAIN s : F[i] \in Int) /\ DOMAIN F = DOMAIN s
  BY Places
<1>. HIDE DEF F
<1>2. SumFunctionOnSet(F, DOMAIN s) \in Int
  BY <1>1, SumIsInt
<1>. QED  BY <1>1, <1>2 DEF Tally, SumFunction, F

\* A tally of naturals is one.
LEMMA TallyIsNat ==
    ASSUME NEW R, NEW s \in Seq(R), NEW val \in [R -> Nat]
    PROVE  Tally(s, val) \in Nat
<1>. DEFINE F == [i \in DOMAIN s |-> val[s[i]]]
<1>1. IsFiniteSet(DOMAIN s) /\ (\A i \in DOMAIN s : F[i] \in Nat) /\ DOMAIN F = DOMAIN s
  BY Places
<1>. HIDE DEF F
<1>2. SumFunctionOnSet(F, DOMAIN s) \in Nat
  BY <1>1, SumIsNat
<1>. QED  BY <1>1, <1>2 DEF Tally, SumFunction, F

\* An empty sequence is worth nothing.
LEMMA TallyOfNone ==
    ASSUME NEW val PROVE Tally(<<>>, val) = 0
<1>1. DOMAIN [i \in DOMAIN <<>> |-> val[<<>>[i]]] = {}
  OBVIOUS
<1>. QED  BY <1>1, SumOfNone DEF Tally, SumFunction

\* One element is worth what it is.
LEMMA TallyOfOne ==
    ASSUME NEW R, NEW x \in R, NEW val \in [R -> Int]
    PROVE  Tally(<<x>>, val) = val[x]
<1>. DEFINE F == [i \in DOMAIN <<x>> |-> val[<<x>>[i]]]
<1>1. DOMAIN F = {1} /\ F[1] = val[x] /\ (\A i \in {1} : F[i] \in Int) /\ val[x] \in Int
  OBVIOUS
<1>2. IsFiniteSet({1}) /\ {1} \ {1} = {} /\ 1 \in {1}
  BY FS_Singleton
<1>. HIDE DEF F
<1>3. SumFunctionOnSet(F, {1}) = F[1] + SumFunctionOnSet(F, {1} \ {1})
  BY <1>1, <1>2, SumRemove
<1>4. SumFunctionOnSet(F, {}) = 0
  BY SumOfNone
<1>5. SumFunction(F) = val[x]
  BY <1>1, <1>2, <1>3, <1>4 DEF SumFunction
<1>. QED  BY <1>5 DEF Tally, F

\* Two sequences, one after the other, are worth what both are.
LEMMA TallyOfBoth ==
    ASSUME NEW R, NEW s \in Seq(R), NEW t \in Seq(R), NEW val \in [R -> Int]
    PROVE  Tally(s \o t, val) = Tally(s, val) + Tally(t, val)
<1>. DEFINE n == Len(s)  m == Len(t)
            F == [i \in DOMAIN (s \o t) |-> val[(s \o t)[i]]]
            G == [i \in DOMAIN s |-> val[s[i]]]
            H == [i \in DOMAIN t |-> val[t[i]]]
            b == [i \in 1 .. m |-> n + i]
            E == (n + 1) .. (n + m)
<1>1. s \o t \in Seq(R) /\ Len(s \o t) = n + m /\ n \in Nat /\ m \in Nat
  OBVIOUS
<1>2. DOMAIN s = 1 .. n /\ DOMAIN t = 1 .. m /\ DOMAIN (s \o t) = 1 .. (n + m)
  BY <1>1
<1>3. /\ \A i \in 1 .. n : (s \o t)[i] = s[i] /\ s[i] \in R
      /\ \A i \in 1 .. m : (s \o t)[n + i] = t[i] /\ t[i] \in R
  OBVIOUS
<1>4. /\ \A i \in 1 .. n : F[i] = G[i] /\ F[i] \in Int
      /\ \A i \in 1 .. m : F[n + i] = H[i] /\ H[i] \in Int
  <2>. HIDE DEF n, m
  <2>. QED  BY <1>1, <1>2, <1>3
<1>5. /\ b \in [1 .. m -> E]
      /\ \A x, y \in 1 .. m : b[x] = b[y] => x = y
      /\ \A e \in E : \E x \in 1 .. m : b[x] = e
  <2>1. n \in Nat /\ m \in Nat
    OBVIOUS
  <2>. HIDE DEF n, m
  <2>2. \A e \in E : e - n \in 1 .. m /\ b[e - n] = e
    BY <2>1
  <2>3. \A x \in 1 .. m : b[x] = n + x /\ n + x \in E
    BY <2>1
  <2>4. b \in [1 .. m -> E]
    BY <2>3
  <2>5. \A x, y \in 1 .. m : n + x = n + y => x = y
    BY <2>1
  <2>6. \A x, y \in 1 .. m : b[x] = b[y] => x = y
    BY <2>3, <2>5
  <2>. HIDE DEF b, E
  <2>. QED  BY <2>2, <2>4, <2>6
<1>6. /\ 1 .. (n + m) = (1 .. n) \cup E /\ (1 .. n) \cap E = {}
      /\ IsFiniteSet(1 .. n) /\ IsFiniteSet(E) /\ IsFiniteSet(1 .. m)
  <2>1. n \in Nat /\ m \in Nat
    BY <1>1
  <2>. HIDE DEF n, m
  <2>2. 1 .. (n + m) = (1 .. n) \cup E /\ (1 .. n) \cap E = {}
    BY <2>1
  <2>3. 1 \in Int /\ n \in Int /\ m \in Int /\ n + 1 \in Int /\ n + m \in Int
    BY <2>1
  <2>4. IsFiniteSet(1 .. n) /\ IsFiniteSet((n + 1) .. (n + m)) /\ IsFiniteSet(1 .. m)
    BY <2>3, FS_Interval, Zenon
  <2>. QED  BY <2>2, <2>4
<1>7. \A e \in E : F[e] \in Int
  <2>. HIDE DEF n, m, F, H
  <2>1. TAKE e \in E
  <2>2. e - n \in 1 .. m /\ n + (e - n) = e
    BY <1>1
  <2>. QED  BY <1>4, <2>2
<1>8. DOMAIN F = 1 .. (n + m) /\ DOMAIN G = 1 .. n /\ DOMAIN H = 1 .. m
  BY <1>2
<1>9. \A x \in 1 .. m : H[x] = F[b[x]]
  BY <1>4
<1>. HIDE DEF n, m, F, G, H, b, E
<1>10. SumFunctionOnSet(F, (1 .. n) \cup E) = SumFunctionOnSet(F, 1 .. n) + SumFunctionOnSet(F, E)
  <2>1. \A x \in (1 .. n) \cup E : F[x] \in Int
    BY <1>4, <1>7
  <2>. QED  BY <1>6, <2>1, SumOfBoth
<1>11. SumFunctionOnSet(F, 1 .. n) = SumFunctionOnSet(G, 1 .. n)
  <2>1. IsFiniteSet(1 .. n) /\ \A x \in 1 .. n : F[x] = G[x]
    BY <1>4, <1>6
  <2>. QED  BY <2>1, SumOfSame, Zenon
<1>12. SumFunctionOnSet(H, 1 .. m) = SumFunctionOnSet(F, E)
  <2>. DEFINE D == 1 .. m
  <2>1. IsFiniteSet(D) /\ Renames(b, D, E)
        /\ (\A z \in E : F[z] \in Int) /\ \A x \in D : H[x] = F[b[x]]
    BY <1>5, <1>6, <1>7, <1>9 DEF Renames
  <2>. HIDE DEF D
  <2>2. SumFunctionOnSet(H, D) = SumFunctionOnSet(F, E)
    BY <2>1, SumOfImage
  <2>. QED  BY <2>2 DEF D
<1>14. Tally(s \o t, val) = SumFunction(F) /\ Tally(s, val) = SumFunction(G) /\ Tally(t, val) = SumFunction(H)
  BY DEF Tally, F, G, H
<1>. QED  BY <1>6, <1>8, <1>10, <1>11, <1>12, <1>14 DEF SumFunction

\* One more element adds its worth.
LEMMA TallyOfAppend ==
    ASSUME NEW R, NEW s \in Seq(R), NEW x \in R, NEW val \in [R -> Int]
    PROVE  Tally(Append(s, x), val) = Tally(s, val) + val[x] /\ Append(s, x) \in Seq(R)
<1>1. Append(s, x) = s \o <<x>> /\ <<x>> \in Seq(R) /\ Append(s, x) \in Seq(R)
  OBVIOUS
<1>2. Tally(s \o <<x>>, val) = Tally(s, val) + Tally(<<x>>, val)
  BY <1>1, TallyOfBoth
<1>3. Tally(<<x>>, val) = val[x]
  BY TallyOfOne
<1>. QED  BY <1>1, <1>2, <1>3

\* The first element, and those after it.
LEMMA TallyOfHead ==
    ASSUME NEW R, NEW s \in Seq(R), s # <<>>, NEW val \in [R -> Int]
    PROVE  /\ Head(s) \in R /\ Tail(s) \in Seq(R)
           /\ Tally(s, val) = val[Head(s)] + Tally(Tail(s), val)
<1>1. s = <<Head(s)>> \o Tail(s) /\ <<Head(s)>> \in Seq(R) /\ Tail(s) \in Seq(R) /\ Head(s) \in R
  OBVIOUS
<1>2. Tally(<<Head(s)>> \o Tail(s), val) = Tally(<<Head(s)>>, val) + Tally(Tail(s), val)
  BY <1>1, TallyOfBoth
<1>. QED  BY <1>1, <1>2, TallyOfOne

\* An element that is removed takes its worth away.
LEMMA TallyOfRemoved ==
    ASSUME NEW R, NEW s \in Seq(R), NEW i \in DOMAIN s, NEW val \in [R -> Int]
    PROVE  RemoveAt(s, i) \in Seq(R) /\ Tally(RemoveAt(s, i), val) = Tally(s, val) - val[s[i]]
<1>. DEFINE a == SubSeq(s, 1, i - 1)  c == SubSeq(s, i + 1, Len(s))
<1>1. a \in Seq(R) /\ c \in Seq(R) /\ s[i] \in R /\ <<s[i]>> \in Seq(R) /\ a \o <<s[i]>> \in Seq(R)
  OBVIOUS
<1>2. s = (a \o <<s[i]>>) \o c
  <2>1. i \in 1 .. Len(s) /\ Len(s) \in Nat
    OBVIOUS
  <2>2. 1 \in 1 .. Len(s) /\ i \in 1 .. Len(s)
    BY <2>1
  <2>a. SubSeq(s, 1, i) = SubSeq(s, 1, i - 1) \o <<s[i]>>
    BY <2>2, SubSeqRecursiveSecond
  <2>b. 1 \in 1 .. Len(s) + 1 /\ i \in 1 - 1 .. Len(s) /\ Len(s) \in i .. Len(s)
    BY <2>1
  <2>3. SubSeq(s, 1, i) \o SubSeq(s, i + 1, Len(s)) = SubSeq(s, 1, Len(s))
    BY <2>b, ConcatAdjacentSubSeq
  <2>4. SubSeq(s, 1, Len(s)) = s
    BY SubSeqFull
  <2>. QED  BY <2>a, <2>3, <2>4
<1>. HIDE DEF a, c
<1>. DEFINE one == <<s[i]>>  front == a \o one
<1>a. one \in Seq(R) /\ front \in Seq(R) /\ Tally(one, val) = val[s[i]]
  BY <1>1, TallyOfOne
<1>. HIDE DEF one, front
<1>b. Tally(front \o c, val) = Tally(front, val) + Tally(c, val)
  BY <1>1, <1>a, TallyOfBoth
<1>c. Tally(a \o one, val) = Tally(a, val) + Tally(one, val)
  BY <1>1, <1>a, TallyOfBoth
<1>d. Tally(a \o c, val) = Tally(a, val) + Tally(c, val)
  BY <1>1, TallyOfBoth
<1>3. Tally(s, val) = Tally(a, val) + val[s[i]] + Tally(c, val)
  BY <1>2, <1>a, <1>b, <1>c DEF one, front
<1>4. Tally(a, val) \in Int /\ Tally(c, val) \in Int /\ val[s[i]] \in Int /\ a \o c \in Seq(R)
  BY <1>1, TallyIsInt
<1>5. RemoveAt(s, i) = a \o c
  BY DEF RemoveAt, a, c
<1>. QED  BY <1>3, <1>4, <1>5, <1>d

\* An element that is replaced takes its worth away and brings that of the other.
LEMMA TallyOfReplaced ==
    ASSUME NEW R, NEW s \in Seq(R), NEW i \in DOMAIN s, NEW y \in R, NEW val \in [R -> Int]
    PROVE  /\ [s EXCEPT ![i] = y] \in Seq(R)
           /\ Tally([s EXCEPT ![i] = y], val) = Tally(s, val) - val[s[i]] + val[y]
<1>. DEFINE t == [s EXCEPT ![i] = y]
            F == [j \in DOMAIN s |-> val[s[j]]]
            G == [j \in DOMAIN t |-> val[t[j]]]
<1>1. t \in Seq(R) /\ DOMAIN t = DOMAIN s
  OBVIOUS
<1>2. /\ \A j \in DOMAIN s : F[j] \in Int /\ G[j] \in Int
      /\ \A j \in DOMAIN s \ {i} : G[j] = F[j]
      /\ F[i] = val[s[i]] /\ G[i] = val[y]
      /\ DOMAIN F = DOMAIN s /\ DOMAIN G = DOMAIN s
  <2>1. \A j \in DOMAIN s : s[j] \in R
    BY Places
  <2>. QED  BY <1>1, <2>1
<1>3. IsFiniteSet(DOMAIN s)
  BY Places
<1>4. Tally(s, val) = SumFunction(F) /\ Tally(t, val) = SumFunction(G)
  BY DEF Tally
<1>5. Tally(s, val) \in Int
  BY TallyIsInt
<1>. HIDE DEF F, G, t
<1>6. SumFunctionOnSet(G, DOMAIN s) = SumFunctionOnSet(F, DOMAIN s) + (G[i] - F[i])
  BY <1>2, <1>3, SumChanges
<1>7. Tally(t, val) = Tally(s, val) - val[s[i]] + val[y]
  BY <1>2, <1>4, <1>5, <1>6 DEF SumFunction
<1>. QED  BY <1>1, <1>7 DEF t

----------------------------------------------------------------------------
(* Folds over a sequence: its elements one by one, the last one last.      *)

SeqFolding(step, base, ps, D, h) ==
    /\ h \in [SUBSET DOMAIN ps -> D]
    /\ h[{}] = base
    /\ \A s \in SUBSET DOMAIN ps : s # {} => /\ Max(s) \in s
                                           /\ h[s] = step[<<ps[Max(s)], h[s \ {Max(s)}]>>]

\* Every sequence can be folded from its last element.
LEMMA SeqFold ==
    ASSUME NEW X, NEW ps \in Seq(X), NEW D, NEW base \in D, NEW step \in [X \X D -> D]
    PROVE  \E h : SeqFolding(step, base, ps, D, h)
<1>. DEFINE S == DOMAIN ps
            pick == [s \in SUBSET S |-> Max(s)]
            onPlace == [q \in S \X D |-> step[<<ps[q[1]], q[2]>>]]
<1>1. IsFiniteSet(S) /\ S \subseteq Int /\ \A i \in S : ps[i] \in X
  BY Places
<1>2. \A s \in SUBSET S : s # {} => Max(s) \in s
  <2>. HIDE DEF S
  <2>. QED  BY <1>1, MaxIsIn
<1>3. Picks(pick, S)
  BY <1>2 DEF Picks
<1>. HIDE DEF pick
<1>4. PICK g : Folding(onPlace, pick, base, S, g)
  <2>. HIDE DEF S, onPlace
  <2>. QED  BY <1>1, <1>3, FoldExists
<1>5. \A i \in S, d \in D : onPlace[<<i, d>>] = step[<<ps[i], d>>] /\ onPlace[<<i, d>>] \in D
  BY <1>1
<1>. HIDE DEF S, onPlace
<1>6. g \in [SUBSET S -> D]
  BY <1>1, <1>3, <1>4, <1>5, FoldTyped
<1>7. g[{}] = base
  BY <1>4, FoldOfNone
<1>8. ASSUME NEW s \in SUBSET S, s # {} PROVE Max(s) \in s /\ g[s] = step[<<ps[Max(s)], g[s \ {Max(s)}]>>]
  <2>1. g[s] = onPlace[<<pick[s], g[s \ {pick[s]}]>>]
    BY <1>4, <1>8, FoldStep
  <2>2. pick[s] = Max(s) /\ Max(s) \in s /\ Max(s) \in S /\ s \ {Max(s)} \in SUBSET S
    BY <1>2, <1>8 DEF pick
  <2>3. g[s \ {Max(s)}] \in D
    BY <1>6, <2>2
  <2>. QED  BY <1>5, <2>1, <2>2, <2>3
<1>9. SeqFolding(step, base, ps, D, g)
  BY <1>6, <1>7, <1>8 DEF SeqFolding, S
<1>. QED  BY <1>9

\* The places taken so far lead to all of them.
LEMMA PlaceByPlace ==
    ASSUME NEW X, NEW ps \in Seq(X), NEW A,
           {} \in A,
           \A s \in SUBSET DOMAIN ps : s # {} /\ Max(s) \in s /\ s \ {Max(s)} \in A => s \in A
    PROVE  DOMAIN ps \in A
<1>. DEFINE S == DOMAIN ps
<1>1. IsFiniteSet(S) /\ S \subseteq Int
  BY Places
<1>2. \A s \in SUBSET S : s # {} => Max(s) \in s
  <2>. HIDE DEF S
  <2>. QED  BY <1>1, MaxIsIn
<1>3. \A s \in SUBSET S : (\A x \in s : s \ {x} \in A) => s \in A
  BY <1>2
<1>4. SUBSET S \subseteq A
  <2>. HIDE DEF S
  <2>. QED  BY <1>1, <1>3, SubsetInduction
<1>. QED  BY <1>4

\* A part of nothing below nothing, and what a quantity costs.
LEMMA RatioTyped ==
    ASSUME NEW a \in Nat, NEW n \in Nat, NEW d \in Nat \ {0}
    PROVE  MulRatio(a, n, d) \in Nat
BY RatioIsNat, Zenon

\* A part of nothing below nothing is not below nothing.
LEMMA PercentIsNat ==
    ASSUME NEW a \in Nat, NEW bp \in Nat
    PROVE  Percent(a, bp) \in Nat
<1>1. 10000 \in Nat \ {0}
  OBVIOUS
<1>. QED  BY <1>1, RatioTyped DEF Percent

\* Nor is what a quantity costs.
LEMMA ExtendIsNat ==
    ASSUME NEW qty \in Nat, NEW price \in Nat
    PROVE  Extend(qty, price) \in Nat
<1>1. 1000 \in Nat \ {0}
  OBVIOUS
<1>. QED  BY <1>1, RatioTyped DEF Extend

----------------------------------------------------------------------------
(* The payments. *)

Payment == [mode : Tenders, amount : Nat \ {0}]
KeptRow == [mode : Tenders, amount : Nat \ {0}, tip : Nat]
Held == [rows : Seq(KeptRow), change : Nat, tip : Nat]

\* What a row is worth in all, and what it is worth to one of the tenders.
AmountOf(R) == [r \in R |-> r.amount]
InMode(R, mode) == [r \in R |-> IF r.mode = mode THEN r.amount ELSE 0]
TipOf == [r \in KeptRow |-> r.tip]

Rows(R) == \A r \in R : r.mode \in Tenders /\ r.amount \in Nat

\* A row of payments, given or kept, has a mode and an amount.
LEMMA RowsAre == Rows(Payment) /\ Rows(KeptRow)
BY DEF Rows, Payment, KeptRow

\* What was paid, in all and in a mode, is a tally of the rows.
LEMMA PaidIs ==
    ASSUME NEW R, Rows(R), NEW ps \in Seq(R), NEW mode \in Tenders
    PROVE  /\ AmountOf(R) \in [R -> Nat] /\ InMode(R, mode) \in [R -> Nat]
           /\ Paid(ps) = Tally(ps, AmountOf(R)) /\ Paid(ps) \in Nat
           /\ PaidIn(ps, mode) = Tally(ps, InMode(R, mode)) /\ PaidIn(ps, mode) \in Nat
<1>1. AmountOf(R) \in [R -> Nat] /\ InMode(R, mode) \in [R -> Nat]
  BY DEF AmountOf, InMode, Rows
<1>2. \A i \in DOMAIN ps : ps[i] \in R
  BY Places
<1>3. Amounts(ps) = [i \in DOMAIN ps |-> AmountOf(R)[ps[i]]]
  BY <1>2 DEF Amounts, AmountOf
<1>4. Paid(ps) = Tally(ps, AmountOf(R))
  BY <1>3 DEF Paid, Tally
<1>. DEFINE H == [i \in DOMAIN ps |-> InMode(R, mode)[ps[i]]]
<1>5. /\ \A i \in DOMAIN ps : Amounts(ps)[i] \in Int /\ H[i] = IF i \in In(ps, mode) THEN Amounts(ps)[i] ELSE 0
      /\ In(ps, mode) \in SUBSET DOMAIN ps
      /\ IsFiniteSet(DOMAIN ps) /\ DOMAIN H = DOMAIN ps
  BY <1>2, Places DEF Amounts, In, InMode, Rows
<1>. HIDE DEF H
<1>6. SumFunctionOnSet(Amounts(ps), In(ps, mode)) = SumFunctionOnSet(H, DOMAIN ps)
  BY <1>5, SumOfSome
<1>7. PaidIn(ps, mode) = Tally(ps, InMode(R, mode))
  BY <1>5, <1>6 DEF PaidIn, Tally, SumFunction, H
<1>8. Tally(ps, AmountOf(R)) \in Nat /\ Tally(ps, InMode(R, mode)) \in Nat
  BY <1>1, TallyIsNat
<1>. QED  BY <1>1, <1>4, <1>7, <1>8

\* Every payment is in cash or by card, so both together are all of it.
LEMMA PaidInBoth ==
    ASSUME NEW R, Rows(R), NEW ps \in Seq(R)
    PROVE  Paid(ps) = PaidIn(ps, "cash") + PaidIn(ps, "card")
<1>. DEFINE F == [i \in DOMAIN ps |-> InMode(R, "cash")[ps[i]]]
            G == [i \in DOMAIN ps |-> InMode(R, "card")[ps[i]]]
            H == [i \in DOMAIN ps |-> AmountOf(R)[ps[i]]]
<1>1. \A i \in DOMAIN ps : ps[i] \in R
  BY Places
<1>2. \A i \in DOMAIN ps : F[i] \in Int /\ G[i] \in Int /\ H[i] = F[i] + G[i]
  BY <1>1 DEF InMode, AmountOf, Rows, Tenders
<1>3. IsFiniteSet(DOMAIN ps) /\ DOMAIN F = DOMAIN ps /\ DOMAIN G = DOMAIN ps /\ DOMAIN H = DOMAIN ps
  BY Places
<1>4. Tally(ps, AmountOf(R)) = SumFunction(H) /\ Tally(ps, InMode(R, "cash")) = SumFunction(F)
      /\ Tally(ps, InMode(R, "card")) = SumFunction(G)
  BY DEF Tally
<1>. HIDE DEF F, G, H
<1>5. SumFunctionOnSet(H, DOMAIN ps) = SumFunctionOnSet(F, DOMAIN ps) + SumFunctionOnSet(G, DOMAIN ps)
  BY <1>2, <1>3, SumOfPairs
<1>6. "cash" \in Tenders /\ "card" \in Tenders
  BY DEF Tenders
<1>7. Paid(ps) = Tally(ps, AmountOf(R)) /\ PaidIn(ps, "cash") = Tally(ps, InMode(R, "cash"))
      /\ PaidIn(ps, "card") = Tally(ps, InMode(R, "card"))
  BY <1>6, PaidIs
<1>. QED  BY <1>3, <1>4, <1>5, <1>7 DEF SumFunction

\* The fold behind `Receipts`: the last payment, and what was kept of those before it.
ReceiptFold(h, base, ps) ==
    h = [s \in SUBSET DOMAIN ps |-> IF s = {} THEN base ELSE Receipt(h[s \ {Max(s)}], ps[Max(s)])]

\* `Receipts` takes the payments from the first to the last.
LEMMA ReceiptsFold ==
    ASSUME NEW base, NEW ps
    PROVE  FoldLeft(Receipt, base, ps) = (CHOOSE h : ReceiptFold(h, base, ps))[DOMAIN ps]
BY Zenon DEF FoldLeft, MapThenFoldSet, ReceiptFold

\* One more payment is kept, and no more change is given than there is.
LEMMA ReceiptTyped ==
    ASSUME NEW acc \in Held, NEW p \in Payment
    PROVE  Receipt(acc, p) \in Held
<1>. DEFINE given == IF GivesChange(p) THEN Less(p.amount, acc.change) ELSE 0
            kept == p.amount - given
            inTip == Less(kept, acc.tip)
            row == [mode |-> p.mode, amount |-> kept, tip |-> inTip]
            more == IF kept > 0 THEN Append(acc.rows, row) ELSE acc.rows
<1>0. acc.change \in Nat /\ acc.tip \in Nat /\ p.amount \in Nat
  BY DEF Held, Payment
<1>a. given \in Nat /\ kept \in Nat /\ acc.change - given \in Nat
  BY <1>0 DEF Less
<1>1. given \in Nat /\ kept \in Nat /\ inTip \in Nat /\ acc.change - given \in Nat /\ acc.tip - inTip \in Nat
  <2>. HIDE DEF given, kept
  <2>. QED  BY <1>0, <1>a DEF Less
<1>2. p.mode \in Tenders /\ acc.rows \in Seq(KeptRow)
  BY DEF Held, Payment
<1>3. Receipt(acc, p) = [rows |-> more, change |-> acc.change - given, tip |-> acc.tip - inTip]
  BY DEF Receipt
<1>. HIDE DEF given, kept, inTip
<1>4. kept > 0 => row \in KeptRow
  BY <1>1, <1>2 DEF KeptRow
<1>5. more \in Seq(KeptRow)
  <2>. HIDE DEF row
  <2>. QED  BY <1>2, <1>4
<1>. HIDE DEF more
<1>. QED  BY <1>1, <1>3, <1>5 DEF Held

\* The fold of the receipts exists: the last payment over those before it.
LEMMA ReceiptsUnfold ==
    ASSUME NEW base \in Held, NEW ps \in Seq(Payment)
    PROVE  \E h : /\ FoldLeft(Receipt, base, ps) = h[DOMAIN ps]
                  /\ h[{}] = base
                  /\ \A s \in SUBSET DOMAIN ps :
                        s # {} => h[s] = Receipt(h[s \ {Max(s)}], ps[Max(s)])
<1>. DEFINE step == [q \in Payment \X Held |-> Receipt(q[2], q[1])]
            H == CHOOSE h : ReceiptFold(h, base, ps)
<1>1. step \in [Payment \X Held -> Held]
  BY ReceiptTyped
<1>2. \A p \in Payment, acc \in Held : step[<<p, acc>>] = Receipt(acc, p)
  OBVIOUS
<1>. HIDE DEF step
<1>3. PICK g : SeqFolding(step, base, ps, Held, g)
  BY <1>1, SeqFold
<1>4. \A i \in DOMAIN ps : ps[i] \in Payment
  BY Places
<1>6. ReceiptFold(g, base, ps)
  <2>. DEFINE k == [s \in SUBSET DOMAIN ps |-> IF s = {} THEN base ELSE Receipt(g[s \ {Max(s)}], ps[Max(s)])]
  <2>1. ASSUME NEW s \in SUBSET DOMAIN ps PROVE g[s] = k[s]
    <3>1. CASE s = {}
      BY <1>3, <3>1 DEF SeqFolding
    <3>2. CASE s # {}
      <4>1. Max(s) \in s /\ g[s] = step[<<ps[Max(s)], g[s \ {Max(s)}]>>]
        BY <1>3, <3>2 DEF SeqFolding
      <4>2. ps[Max(s)] \in Payment /\ s \ {Max(s)} \in SUBSET DOMAIN ps
        BY <1>4, <4>1
      <4>3. g[s \ {Max(s)}] \in Held
        BY <1>3, <4>2 DEF SeqFolding
      <4>. QED  BY <1>2, <3>2, <4>1, <4>2, <4>3
    <3>. QED  BY <3>1, <3>2
  <2>2. k = [s \in SUBSET DOMAIN ps |-> k[s]]
    OBVIOUS
  <2>3. g = [s \in SUBSET DOMAIN ps |-> g[s]]
    BY <1>3 DEF SeqFolding
  <2>. HIDE DEF k
  <2>4. g = k
    BY <2>1, <2>2, <2>3
  <2>. QED  BY <2>4 DEF k, ReceiptFold
<1>7. ReceiptFold(H, base, ps)
  BY <1>6, Zenon
<1>8. FoldLeft(Receipt, base, ps) = H[DOMAIN ps]
  BY ReceiptsFold
<1>. HIDE DEF H
<1>9. {} \in SUBSET DOMAIN ps
  OBVIOUS
<1>10. H[{}] = base
  BY <1>7, <1>9 DEF ReceiptFold
<1>11. \A s \in SUBSET DOMAIN ps : s # {} => H[s] = Receipt(H[s \ {Max(s)}], ps[Max(s)])
  BY <1>7, Zenon DEF ReceiptFold
<1>. QED  BY <1>8, <1>10, <1>11

\* What is kept of the payments in `s`, when `change` was to be given and the tip
\* is `t`: change comes off cash only, until none of it or no cash is left.
Here(ps, mode) == [i \in DOMAIN ps |-> IF ps[i].mode = mode THEN ps[i].amount ELSE 0]
KeptOf(ps, change, t, s, acc) ==
    LET cash == SumFunctionOnSet(Here(ps, "cash"), s)
        card == SumFunctionOnSet(Here(ps, "card"), s)
    IN /\ acc \in Held
       /\ Tally(acc.rows, InMode(KeptRow, "cash")) = cash - (change - acc.change)
       /\ Tally(acc.rows, InMode(KeptRow, "card")) = card
       /\ acc.change = 0 \/ change - acc.change = cash
       /\ Tally(acc.rows, TipOf) = t - acc.tip
       /\ acc.tip = 0 \/ t - acc.tip = cash + card - (change - acc.change)

\* The payments in a mode, each at its place.
LEMMA HereIs ==
    ASSUME NEW ps \in Seq(Payment), NEW mode \in Tenders
    PROVE  /\ DOMAIN Here(ps, mode) = DOMAIN ps
           /\ \A i \in DOMAIN ps : Here(ps, mode)[i] \in Nat
           /\ PaidIn(ps, mode) = SumFunctionOnSet(Here(ps, mode), DOMAIN ps)
           /\ \A s \in SUBSET DOMAIN ps : SumFunctionOnSet(Here(ps, mode), s) \in Nat
<1>1. \A i \in DOMAIN ps : ps[i] \in Payment
  BY Places
<1>2. DOMAIN Here(ps, mode) = DOMAIN ps /\ \A i \in DOMAIN ps : Here(ps, mode)[i] \in Nat
  BY <1>1 DEF Here, Payment
<1>3. Here(ps, mode) = [i \in DOMAIN ps |-> InMode(Payment, mode)[ps[i]]]
  BY <1>1 DEF Here, InMode
<1>4. PaidIn(ps, mode) = Tally(ps, InMode(Payment, mode))
  BY RowsAre, PaidIs
<1>5. PaidIn(ps, mode) = SumFunctionOnSet(Here(ps, mode), DOMAIN ps)
  BY <1>2, <1>3, <1>4 DEF Tally, SumFunction
<1>6. ASSUME NEW s \in SUBSET DOMAIN ps PROVE SumFunctionOnSet(Here(ps, mode), s) \in Nat
  <2>1. IsFiniteSet(s)
    BY Places, FS_Subset
  <2>2. \A x \in s : Here(ps, mode)[x] \in Nat
    BY <1>2
  <2>. QED  BY <2>1, <2>2, SumIsNat
<1>. QED  BY <1>2, <1>5, <1>6

\* One more payment.
LEMMA OneMoreHere ==
    ASSUME NEW ps \in Seq(Payment), NEW mode \in Tenders, NEW s \in SUBSET DOMAIN ps, NEW i \in s
    PROVE  /\ ps[i] \in Payment
           /\ SumFunctionOnSet(Here(ps, mode), s)
                = (IF ps[i].mode = mode THEN ps[i].amount ELSE 0) + SumFunctionOnSet(Here(ps, mode), s \ {i})
<1>1. IsFiniteSet(s) /\ ps[i] \in Payment
  BY Places, FS_Subset
<1>2. \A x \in s : Here(ps, mode)[x] \in Int
  BY HereIs
<1>3. SumFunctionOnSet(Here(ps, mode), s) = Here(ps, mode)[i] + SumFunctionOnSet(Here(ps, mode), s \ {i})
  BY <1>1, <1>2, SumRemove
<1>. QED  BY <1>1, <1>3 DEF Here

\* One more payment is taken.
LEMMA ReceiptKeeps ==
    ASSUME NEW ps \in Seq(Payment), NEW change \in Nat, NEW t \in Nat, NEW s \in SUBSET DOMAIN ps,
           NEW i \in s, NEW acc, KeptOf(ps, change, t, s \ {i}, acc)
    PROVE  KeptOf(ps, change, t, s, Receipt(acc, ps[i]))
<1>. DEFINE p == ps[i]
            cash(u) == SumFunctionOnSet(Here(ps, "cash"), u)
            card(u) == SumFunctionOnSet(Here(ps, "card"), u)
            given == IF GivesChange(p) THEN Less(p.amount, acc.change) ELSE 0
            kept == p.amount - given
            inTip == Less(kept, acc.tip)
            row == [mode |-> p.mode, amount |-> kept, tip |-> inTip]
            next == Receipt(acc, p)
            inCash(rows) == Tally(rows, InMode(KeptRow, "cash"))
            inCard(rows) == Tally(rows, InMode(KeptRow, "card"))
            tips(rows) == Tally(rows, TipOf)
<1>1. "cash" \in Tenders /\ "card" \in Tenders
  BY DEF Tenders
<1>2. /\ p \in Payment
      /\ cash(s) = (IF p.mode = "cash" THEN p.amount ELSE 0) + cash(s \ {i})
      /\ card(s) = (IF p.mode = "card" THEN p.amount ELSE 0) + card(s \ {i})
  BY <1>1, OneMoreHere
<1>3. cash(s \ {i}) \in Nat /\ card(s \ {i}) \in Nat
  <2>1. s \ {i} \in SUBSET DOMAIN ps
    OBVIOUS
  <2>. QED  BY <1>1, <2>1, HereIs
<1>4. /\ acc \in Held
      /\ inCash(acc.rows) = cash(s \ {i}) - (change - acc.change)
      /\ inCard(acc.rows) = card(s \ {i})
      /\ acc.change = 0 \/ change - acc.change = cash(s \ {i})
      /\ tips(acc.rows) = t - acc.tip
      /\ acc.tip = 0 \/ t - acc.tip = cash(s \ {i}) + card(s \ {i}) - (change - acc.change)
  BY DEF KeptOf
<1>5. next \in Held
  BY <1>2, <1>4, ReceiptTyped
<1>6. /\ acc.change \in Nat /\ acc.tip \in Nat /\ acc.rows \in Seq(KeptRow)
      /\ p.amount \in Nat \ {0} /\ p.mode \in {"cash", "card"}
  BY <1>2, <1>4 DEF Held, Payment, Tenders
<1>a. /\ given \in Nat /\ kept \in Nat /\ given <= acc.change
      /\ p.mode = "cash" => given = acc.change \/ kept = 0
      /\ p.mode = "card" => given = 0 /\ kept = p.amount
  BY <1>6 DEF GivesChange, Less
<1>b. inTip \in Nat /\ (inTip = acc.tip \/ inTip = kept) /\ inTip <= acc.tip /\ inTip <= kept
  <2>. HIDE DEF kept
  <2>. QED  BY <1>6, <1>a DEF Less
<1>7. /\ given = IF p.mode = "cash" THEN Less(p.amount, acc.change) ELSE 0
      /\ given \in Nat /\ kept \in Nat /\ inTip \in Nat
      /\ inTip = acc.tip \/ inTip = kept
      /\ p.mode = "card" => given = 0
      /\ p.mode = "cash" => given = acc.change \/ kept = 0
      /\ p.mode = "card" => kept = p.amount
      /\ given <= acc.change /\ inTip <= acc.tip /\ inTip <= kept
      /\ kept = p.amount - given
  <2>1. kept = p.amount - given /\ given = IF p.mode = "cash" THEN Less(p.amount, acc.change) ELSE 0
    BY DEF GivesChange
  <2>. HIDE DEF kept, given, inTip
  <2>. QED  BY <1>a, <1>b, <2>1
<1>8. next.change = acc.change - given /\ next.tip = acc.tip - inTip
      /\ next.rows = IF kept > 0 THEN Append(acc.rows, row) ELSE acc.rows
  BY DEF Receipt
<1>. DEFINE cash0 == cash(s \ {i})  card0 == card(s \ {i})
<1>. HIDE DEF given, kept, inTip
<1>9. /\ inCash(next.rows) = inCash(acc.rows) + (IF p.mode = "cash" THEN kept ELSE 0)
      /\ inCard(next.rows) = inCard(acc.rows) + (IF p.mode = "card" THEN kept ELSE 0)
      /\ tips(next.rows) = tips(acc.rows) + inTip
  <2>1. InMode(KeptRow, "cash") \in [KeptRow -> Int] /\ InMode(KeptRow, "card") \in [KeptRow -> Int]
        /\ TipOf \in [KeptRow -> Int]
    BY DEF InMode, TipOf, KeptRow
  <2>2. CASE kept > 0
    <3>1. row \in KeptRow
      BY <1>6, <1>7, <2>2 DEF KeptRow, Tenders
    <3>2. InMode(KeptRow, "cash")[row] = (IF p.mode = "cash" THEN kept ELSE 0)
          /\ InMode(KeptRow, "card")[row] = (IF p.mode = "card" THEN kept ELSE 0)
          /\ TipOf[row] = inTip
      BY <3>1 DEF InMode, TipOf
    <3>. HIDE DEF row
    <3>3. /\ inCash(Append(acc.rows, row)) = inCash(acc.rows) + InMode(KeptRow, "cash")[row]
          /\ inCard(Append(acc.rows, row)) = inCard(acc.rows) + InMode(KeptRow, "card")[row]
          /\ tips(Append(acc.rows, row)) = tips(acc.rows) + TipOf[row]
      BY <1>6, <2>1, <3>1, TallyOfAppend
    <3>4. next.rows = Append(acc.rows, row)
      BY <1>8, <2>2
    <3>. HIDE DEF next, inCash, inCard, tips
    <3>. QED  BY <3>2, <3>3, <3>4
  <2>3. CASE kept = 0
    <3>1. inCash(acc.rows) \in Int /\ inCard(acc.rows) \in Int /\ tips(acc.rows) \in Int
      BY <1>6, <2>1, TallyIsInt
    <3>2. next.rows = acc.rows /\ inTip = 0
      BY <1>6, <1>7, <1>8, <2>3
    <3>. HIDE DEF next, inCash, inCard, tips
    <3>. QED  BY <2>3, <3>1, <3>2
  <2>. QED  BY <1>7, <2>2, <2>3
<1>. HIDE DEF next, inCash, inCard, tips, cash, card, p
<1>c. PICK c0 \in Nat : c0 = cash(s \ {i})
  BY <1>3
<1>d. PICK d0 \in Nat : d0 = card(s \ {i})
  BY <1>3
<1>e. PICK left \in Nat : left = acc.change
  BY <1>6
<1>f. PICK due \in Nat : due = acc.tip
  BY <1>6
<1>g. PICK x \in Nat : x = p.amount
  BY <1>6
<1>h. PICK g \in Nat : g = given
  BY <1>7
<1>i. PICK k \in Nat : k = kept
  BY <1>7
<1>j. PICK w \in Nat : w = inTip
  BY <1>7
<1>10. /\ inCash(next.rows) = cash(s) - (change - (left - g))
       /\ inCard(next.rows) = card(s)
       /\ left - g = 0 \/ change - (left - g) = cash(s)
       /\ tips(next.rows) = t - (due - w)
       /\ due - w = 0 \/ t - (due - w) = cash(s) + card(s) - (change - (left - g))
  <2>1. /\ left = 0 \/ change - left = c0
        /\ due = 0 \/ t - due = c0 + d0 - (change - left)
        /\ g <= left /\ w <= due /\ w <= k /\ k = x - g /\ (w = due \/ w = k)
    BY <1>4, <1>7, <1>c, <1>d, <1>e, <1>f, <1>g, <1>h, <1>i, <1>j
  <2>2. CASE p.mode = "cash"
    <3>1. cash(s) = x + c0 /\ card(s) = d0 /\ (g = left \/ k = 0)
      BY <1>2, <1>7, <1>c, <1>d, <1>e, <1>f, <1>g, <1>h, <1>i, <1>j, <2>2
    <3>2. inCash(next.rows) = c0 - (change - left) + k /\ inCard(next.rows) = d0 /\ tips(next.rows) = t - due + w
      BY <1>4, <1>9, <1>c, <1>d, <1>e, <1>f, <1>g, <1>h, <1>i, <1>j, <2>2
    <3>3. /\ left - g = 0 \/ change - (left - g) = x + c0
          /\ due - w = 0 \/ t - (due - w) = (x + c0) + d0 - (change - (left - g))
          /\ c0 - (change - left) + k = (x + c0) - (change - (left - g))
          /\ t - due + w = t - (due - w)
      BY <2>1, <3>1
    <3>. QED  BY <3>1, <3>2, <3>3, Zenon
  <2>3. CASE p.mode = "card"
    <3>1. cash(s) = c0 /\ card(s) = x + d0 /\ g = 0 /\ k = x
      BY <1>2, <1>7, <1>c, <1>d, <1>e, <1>f, <1>g, <1>h, <1>i, <1>j, <2>3
    <3>2. inCash(next.rows) = c0 - (change - left) + 0 /\ inCard(next.rows) = d0 + k /\ tips(next.rows) = t - due + w
      BY <1>4, <1>9, <1>c, <1>d, <1>e, <1>f, <1>g, <1>h, <1>i, <1>j, <2>3
    <3>3. /\ left - g = 0 \/ change - (left - g) = c0
          /\ due - w = 0 \/ t - (due - w) = c0 + (x + d0) - (change - (left - g))
          /\ c0 - (change - left) + 0 = c0 - (change - (left - g)) /\ d0 + k = x + d0
          /\ t - due + w = t - (due - w)
      BY <2>1, <3>1
    <3>. QED  BY <3>1, <3>2, <3>3, Zenon
  <2>. QED  BY <1>6, <2>2, <2>3
<1>11. /\ inCash(next.rows) = cash(s) - (change - next.change)
       /\ inCard(next.rows) = card(s)
       /\ next.change = 0 \/ change - next.change = cash(s)
       /\ tips(next.rows) = t - next.tip
       /\ next.tip = 0 \/ t - next.tip = cash(s) + card(s) - (change - next.change)
  BY <1>8, <1>10, <1>e, <1>f, <1>h, <1>j, Zenon
<1>. QED  BY <1>5, <1>11 DEF KeptOf, next, inCash, inCard, tips, cash, card, p

\* What the register keeps: what was due, the tip once, and change out of cash.
LEMMA KeptAtLast ==
    ASSUME NEW ps \in Seq(Payment), NEW change \in Nat, NEW t \in Nat
    PROVE  KeptOf(ps, change, t, DOMAIN ps,
                  FoldLeft(Receipt, [rows |-> <<>>, change |-> change, tip |-> t], ps))
<1>. DEFINE base == [rows |-> <<>>, change |-> change, tip |-> t]
<1>1. base \in Held
  BY DEF Held
<1>2. KeptOf(ps, change, t, {}, base)
  <2>1. Tally(<<>>, InMode(KeptRow, "cash")) = 0 /\ Tally(<<>>, InMode(KeptRow, "card")) = 0 /\ Tally(<<>>, TipOf) = 0
    BY TallyOfNone
  <2>2. SumFunctionOnSet(Here(ps, "cash"), {}) = 0 /\ SumFunctionOnSet(Here(ps, "card"), {}) = 0
    BY SumOfNone
  <2>3. base.rows = <<>> /\ base.change = change /\ base.tip = t
    OBVIOUS
  <2>4. change - change = 0 /\ t - t = 0 /\ 0 - 0 = 0 /\ 0 + 0 = 0
    OBVIOUS
  <2>. HIDE DEF base
  <2>. QED  BY <1>1, <2>1, <2>2, <2>3, <2>4 DEF KeptOf
<1>. HIDE DEF base
<1>3. PICK h : /\ FoldLeft(Receipt, base, ps) = h[DOMAIN ps]
               /\ h[{}] = base
               /\ \A s \in SUBSET DOMAIN ps : s # {} => h[s] = Receipt(h[s \ {Max(s)}], ps[Max(s)])
  BY <1>1, ReceiptsUnfold
<1>. DEFINE A == {s \in SUBSET DOMAIN ps : KeptOf(ps, change, t, s, h[s])}
<1>4. {} \in A
  BY <1>2, <1>3
<1>5. ASSUME NEW s \in SUBSET DOMAIN ps, s # {} /\ Max(s) \in s /\ s \ {Max(s)} \in A
      PROVE  s \in A
  <2>1. KeptOf(ps, change, t, s \ {Max(s)}, h[s \ {Max(s)}])
    BY <1>5
  <2>2. KeptOf(ps, change, t, s, Receipt(h[s \ {Max(s)}], ps[Max(s)]))
    BY <1>5, <2>1, ReceiptKeeps
  <2>. QED  BY <1>3, <1>5, <2>2
<1>6. DOMAIN ps \in A
  <2>. HIDE DEF A
  <2>. QED  BY <1>4, <1>5, PlaceByPlace
<1>. QED  BY <1>3, <1>6 DEF base

\* What is kept of a settled bill is what was due, and the tip is in it once;
\* nothing of a card is given as change.
LEMMA ReceiptsTie ==
    ASSUME NEW ps \in Seq(Payment), NEW due \in Nat, NEW t \in Nat, t <= due,
           Paid(ps) >= due, Paid(ps) - PaidIn(ps, "cash") <= due
    PROVE  /\ Paid(Receipts(ps, due, t)) = due
           /\ SumFunction([i \in DOMAIN Receipts(ps, due, t) |-> Receipts(ps, due, t)[i].tip]) = t
           /\ PaidIn(Receipts(ps, due, t), "card") = PaidIn(ps, "card")
<1>. DEFINE change == Change(ps, due)
            acc == FoldLeft(Receipt, [rows |-> <<>>, change |-> change, tip |-> t], ps)
<1>1. "cash" \in Tenders /\ "card" \in Tenders
  BY DEF Tenders
<1>2. /\ Paid(ps) = PaidIn(ps, "cash") + PaidIn(ps, "card")
      /\ PaidIn(ps, "cash") \in Nat /\ PaidIn(ps, "card") \in Nat
  BY <1>1, RowsAre, PaidIs, PaidInBoth
<1>3. change \in Nat /\ change = Paid(ps) - due /\ change <= PaidIn(ps, "cash")
  BY <1>2 DEF Change
<1>4. KeptOf(ps, change, t, DOMAIN ps, acc)
  <2>. HIDE DEF change
  <2>. QED  BY <1>3, KeptAtLast
<1>5. /\ SumFunctionOnSet(Here(ps, "cash"), DOMAIN ps) = PaidIn(ps, "cash")
      /\ SumFunctionOnSet(Here(ps, "card"), DOMAIN ps) = PaidIn(ps, "card")
  BY <1>1, HereIs
<1>6. Receipts(ps, due, t) = acc.rows
  BY DEF Receipts
<1>. HIDE DEF change, acc
<1>7. /\ acc \in Held
      /\ Tally(acc.rows, InMode(KeptRow, "cash")) = PaidIn(ps, "cash") - (change - acc.change)
      /\ Tally(acc.rows, InMode(KeptRow, "card")) = PaidIn(ps, "card")
      /\ acc.change = 0 \/ change - acc.change = PaidIn(ps, "cash")
      /\ Tally(acc.rows, TipOf) = t - acc.tip
      /\ acc.tip = 0 \/ t - acc.tip = PaidIn(ps, "cash") + PaidIn(ps, "card") - (change - acc.change)
  BY <1>4, <1>5 DEF KeptOf
<1>8. acc.rows \in Seq(KeptRow) /\ acc.change \in Nat /\ acc.tip \in Nat
  BY <1>7 DEF Held
<1>9. acc.change = 0 /\ acc.tip = 0
  <2>1. PICK left \in Nat : left = acc.change
    BY <1>8
  <2>2. PICK tips \in Nat : tips = acc.tip
    BY <1>8
  <2>3. PICK cash \in Nat : cash = PaidIn(ps, "cash")
    BY <1>2
  <2>4. PICK card \in Nat : card = PaidIn(ps, "card")
    BY <1>2
  <2>5. PICK more \in Nat : more = change
    BY <1>3
  <2>6. /\ left = 0 \/ more - left = cash
        /\ more = cash + card - due /\ more <= cash
        /\ tips = 0 \/ t - tips = cash + card - (more - left)
    BY <1>2, <1>3, <1>7, <2>1, <2>2, <2>3, <2>4, <2>5
  <2>7. left = 0
    BY <2>6
  <2>8. tips = 0
    BY <2>6, <2>7
  <2>. QED  BY <2>1, <2>2, <2>7, <2>8
<1>11. /\ PaidIn(acc.rows, "cash") = Tally(acc.rows, InMode(KeptRow, "cash"))
       /\ PaidIn(acc.rows, "card") = Tally(acc.rows, InMode(KeptRow, "card"))
       /\ Paid(acc.rows) = PaidIn(acc.rows, "cash") + PaidIn(acc.rows, "card")
  BY <1>1, <1>8, RowsAre, PaidIs, PaidInBoth
<1>12. [i \in DOMAIN acc.rows |-> acc.rows[i].tip] = [i \in DOMAIN acc.rows |-> TipOf[acc.rows[i]]]
  <2>1. \A i \in DOMAIN acc.rows : acc.rows[i] \in KeptRow
    BY <1>8, Places
  <2>. QED  BY <2>1 DEF TipOf
<1>13. SumFunction([i \in DOMAIN acc.rows |-> acc.rows[i].tip]) = t
  <2>1. SumFunction([i \in DOMAIN acc.rows |-> acc.rows[i].tip]) = Tally(acc.rows, TipOf)
    BY <1>12, Zenon DEF Tally
  <2>. QED  BY <1>7, <1>9, <2>1
<1>. QED  BY <1>2, <1>3, <1>6, <1>7, <1>9, <1>11, <1>13

\* Money given back.
Giving == [rows : Seq(Payment), left : Nat, mode : Tenders]

\* What one payment gives back: no more than it has and no more than is asked.
LEMMA ReturnIs ==
    ASSUME NEW acc \in Giving, NEW p \in Payment
    PROVE  \E take \in Nat :
             /\ take <= p.amount /\ take <= acc.left
             /\ p.mode = acc.mode => take = p.amount \/ take = acc.left
             /\ p.mode # acc.mode => take = 0
             /\ Return(acc, p) \in Giving
             /\ Return(acc, p).left = acc.left - take /\ Return(acc, p).mode = acc.mode
             /\ \/ p.amount = take /\ Return(acc, p).rows = acc.rows
                \/ /\ p.amount > take
                   /\ [mode |-> p.mode, amount |-> p.amount - take] \in Payment
                   /\ Return(acc, p).rows = Append(acc.rows, [mode |-> p.mode, amount |-> p.amount - take])
<1>. DEFINE take == IF p.mode = acc.mode THEN Less(p.amount, acc.left) ELSE 0
            row == [mode |-> p.mode, amount |-> p.amount - take]
            rest == IF p.amount > take THEN Append(acc.rows, Reduced(p, take)) ELSE acc.rows
<1>1. acc.rows \in Seq(Payment) /\ acc.left \in Nat /\ acc.mode \in Tenders /\ p.amount \in Nat \ {0} /\ p.mode \in Tenders
  BY DEF Giving, Payment
<1>2. /\ take \in Nat /\ take <= p.amount /\ take <= acc.left
      /\ p.mode = acc.mode => take = p.amount \/ take = acc.left
      /\ p.mode # acc.mode => take = 0
  BY <1>1 DEF Less
<1>3. Return(acc, p) = [acc EXCEPT !.left = acc.left - take, !.rows = rest]
  BY DEF Return
<1>. HIDE DEF take
<1>4. p.amount > take => row \in Payment
  BY <1>1, <1>2 DEF Payment
<1>5. Reduced(p, take) = row
  BY DEF Payment, Reduced
<1>6. acc.left - take \in Nat
  BY <1>1, <1>2
<1>. HIDE DEF row
<1>7. rest \in Seq(Payment) /\ rest = IF p.amount > take THEN Append(acc.rows, row) ELSE acc.rows
  BY <1>1, <1>4, <1>5
<1>. HIDE DEF rest
<1>8. Return(acc, p) \in Giving /\ Return(acc, p).left = acc.left - take /\ Return(acc, p).mode = acc.mode
      /\ Return(acc, p).rows = rest
  BY <1>3, <1>6, <1>7 DEF Giving
<1>9. p.amount = take \/ p.amount > take
  BY <1>1, <1>2
<1>. QED  BY <1>1, <1>2, <1>4, <1>7, <1>8, <1>9 DEF row

ReturnFold(h, base, ps) ==
    h = [s \in SUBSET DOMAIN ps |-> IF s = {} THEN base ELSE Return(h[s \ {Max(s)}], ps[Max(s)])]

\* `ReturnTo` takes the payments from the first to the last.
LEMMA ReturnsFold ==
    ASSUME NEW base, NEW ps
    PROVE  FoldLeft(Return, base, ps) = (CHOOSE h : ReturnFold(h, base, ps))[DOMAIN ps]
BY Zenon DEF FoldLeft, MapThenFoldSet, ReturnFold

\* The fold of the returns exists: the last payment over those before it.
LEMMA ReturnsUnfold ==
    ASSUME NEW base \in Giving, NEW ps \in Seq(Payment)
    PROVE  \E h : /\ FoldLeft(Return, base, ps) = h[DOMAIN ps]
                  /\ h[{}] = base
                  /\ \A s \in SUBSET DOMAIN ps :
                        s # {} => h[s] = Return(h[s \ {Max(s)}], ps[Max(s)])
<1>. DEFINE step == [q \in Payment \X Giving |-> Return(q[2], q[1])]
            H == CHOOSE h : ReturnFold(h, base, ps)
<1>0. \A p \in Payment, acc \in Giving : Return(acc, p) \in Giving
  BY ReturnIs
<1>1. step \in [Payment \X Giving -> Giving]
  BY <1>0
<1>2. \A p \in Payment, acc \in Giving : step[<<p, acc>>] = Return(acc, p)
  OBVIOUS
<1>. HIDE DEF step
<1>3. PICK g : SeqFolding(step, base, ps, Giving, g)
  BY <1>1, SeqFold
<1>4. \A i \in DOMAIN ps : ps[i] \in Payment
  BY Places
<1>6. ReturnFold(g, base, ps)
  <2>. DEFINE k == [s \in SUBSET DOMAIN ps |-> IF s = {} THEN base ELSE Return(g[s \ {Max(s)}], ps[Max(s)])]
  <2>1. ASSUME NEW s \in SUBSET DOMAIN ps PROVE g[s] = k[s]
    <3>1. CASE s = {}
      BY <1>3, <3>1 DEF SeqFolding
    <3>2. CASE s # {}
      <4>1. Max(s) \in s /\ g[s] = step[<<ps[Max(s)], g[s \ {Max(s)}]>>]
        BY <1>3, <3>2 DEF SeqFolding
      <4>2. ps[Max(s)] \in Payment /\ s \ {Max(s)} \in SUBSET DOMAIN ps
        BY <1>4, <4>1
      <4>3. g[s \ {Max(s)}] \in Giving
        BY <1>3, <4>2 DEF SeqFolding
      <4>. QED  BY <1>2, <3>2, <4>1, <4>2, <4>3
    <3>. QED  BY <3>1, <3>2
  <2>2. k = [s \in SUBSET DOMAIN ps |-> k[s]]
    OBVIOUS
  <2>3. g = [s \in SUBSET DOMAIN ps |-> g[s]]
    BY <1>3 DEF SeqFolding
  <2>. HIDE DEF k
  <2>4. g = k
    BY <2>1, <2>2, <2>3
  <2>. QED  BY <2>4 DEF k, ReturnFold
<1>7. ReturnFold(H, base, ps)
  BY <1>6, Zenon
<1>8. FoldLeft(Return, base, ps) = H[DOMAIN ps]
  BY ReturnsFold
<1>. HIDE DEF H
<1>9. {} \in SUBSET DOMAIN ps
  OBVIOUS
<1>10. H[{}] = base
  BY <1>7, <1>9 DEF ReturnFold
<1>11. \A s \in SUBSET DOMAIN ps : s # {} => H[s] = Return(H[s \ {Max(s)}], ps[Max(s)])
  BY <1>7, Zenon DEF ReturnFold
<1>. QED  BY <1>8, <1>10, <1>11

\* What is left of the payments in `s` when `amount` is given back in `mode`.
LeftOf(ps, mode, amount, s, acc) ==
    /\ acc \in Giving /\ acc.mode = mode
    /\ \A m \in Tenders : Tally(acc.rows, InMode(Payment, m))
                             = SumFunctionOnSet(Here(ps, m), s) - (IF m = mode THEN amount - acc.left ELSE 0)
    /\ acc.left = 0 \/ amount - acc.left = SumFunctionOnSet(Here(ps, mode), s)

\* One more payment keeps what is left of the amount and of the rows in step.
LEMMA ReturnKeeps ==
    ASSUME NEW ps \in Seq(Payment), NEW mode \in Tenders, NEW amount \in Nat, NEW s \in SUBSET DOMAIN ps,
           NEW i \in s, NEW acc, LeftOf(ps, mode, amount, s \ {i}, acc)
    PROVE  LeftOf(ps, mode, amount, s, Return(acc, ps[i]))
<1>. DEFINE p == ps[i]
            next == Return(acc, p)
            inMode(rows, m) == Tally(rows, InMode(Payment, m))
            here(m, u) == SumFunctionOnSet(Here(ps, m), u)
<1>1. p \in Payment /\ \A m \in Tenders : here(m, s) = (IF p.mode = m THEN p.amount ELSE 0) + here(m, s \ {i})
  BY OneMoreHere
<1>2. \A m \in Tenders : here(m, s \ {i}) \in Nat
  <2>1. s \ {i} \in SUBSET DOMAIN ps
    OBVIOUS
  <2>. QED  BY <2>1, HereIs
<1>3. /\ acc \in Giving /\ acc.mode = mode
      /\ \A m \in Tenders : inMode(acc.rows, m) = here(m, s \ {i}) - (IF m = mode THEN amount - acc.left ELSE 0)
      /\ acc.left = 0 \/ amount - acc.left = here(mode, s \ {i})
  BY DEF LeftOf
<1>4. acc.left \in Nat /\ acc.rows \in Seq(Payment) /\ p.amount \in Nat
  BY <1>1, <1>3 DEF Giving, Payment
<1>5. PICK take \in Nat :
        /\ take <= p.amount /\ take <= acc.left
        /\ p.mode = acc.mode => take = p.amount \/ take = acc.left
        /\ p.mode # acc.mode => take = 0
        /\ next \in Giving
        /\ next.left = acc.left - take /\ next.mode = acc.mode
        /\ \/ p.amount = take /\ next.rows = acc.rows
           \/ /\ p.amount > take
              /\ [mode |-> p.mode, amount |-> p.amount - take] \in Payment
              /\ next.rows = Append(acc.rows, [mode |-> p.mode, amount |-> p.amount - take])
  BY <1>1, <1>3, ReturnIs
<1>. HIDE DEF next, p
<1>a. PICK left \in Nat : left = acc.left
  BY <1>4
<1>b. PICK x \in Nat : x = p.amount
  BY <1>4
<1>6. ASSUME NEW m \in Tenders
      PROVE  inMode(next.rows, m) = inMode(acc.rows, m) + (IF p.mode = m THEN x - take ELSE 0)
  <2>1. InMode(Payment, m) \in [Payment -> Int] /\ InMode(Payment, m) \in [Payment -> Nat]
    BY DEF InMode, Payment
  <2>2. inMode(acc.rows, m) \in Int
    BY <1>4, <2>1, TallyIsInt
  <2>3. CASE p.amount = take /\ next.rows = acc.rows
    <3>. HIDE DEF inMode
    <3>1. x - take = 0
      BY <1>b, <2>3
    <3>. QED  BY <2>2, <2>3, <3>1
  <2>4. CASE /\ p.amount > take
             /\ [mode |-> p.mode, amount |-> p.amount - take] \in Payment
             /\ next.rows = Append(acc.rows, [mode |-> p.mode, amount |-> p.amount - take])
    <3>. DEFINE row == [mode |-> p.mode, amount |-> x - take]
    <3>1. row \in Payment /\ next.rows = Append(acc.rows, row)
      BY <1>b, <2>4
    <3>2. InMode(Payment, m)[row] = IF p.mode = m THEN x - take ELSE 0
      BY <3>1 DEF InMode
    <3>. HIDE DEF row
    <3>3. inMode(Append(acc.rows, row), m) = inMode(acc.rows, m) + InMode(Payment, m)[row]
      BY <1>4, <2>1, <3>1, TallyOfAppend
    <3>. HIDE DEF inMode
    <3>. QED  BY <3>1, <3>2, <3>3
  <2>. QED  BY <1>5, <2>3, <2>4
<1>. HIDE DEF inMode, here
<1>7. ASSUME NEW m \in Tenders
      PROVE  inMode(next.rows, m) = here(m, s) - (IF m = mode THEN amount - next.left ELSE 0)
  <2>1. PICK n \in Nat : n = here(m, s \ {i})
    BY <1>2
  <2>2. /\ here(m, s) = (IF p.mode = m THEN x ELSE 0) + n
        /\ inMode(acc.rows, m) = n - (IF m = mode THEN amount - left ELSE 0)
        /\ inMode(next.rows, m) = n - (IF m = mode THEN amount - left ELSE 0) + (IF p.mode = m THEN x - take ELSE 0)
        /\ p.mode # mode => take = 0
        /\ next.left = left - take
    BY <1>1, <1>3, <1>5, <1>6, <1>a, <1>b, <2>1
  <2>. QED  BY <2>2
<1>8. next.left = 0 \/ amount - next.left = here(mode, s)
  <2>1. PICK n \in Nat : n = here(mode, s \ {i})
    BY <1>2
  <2>2. /\ here(mode, s) = (IF p.mode = mode THEN x ELSE 0) + n
        /\ left = 0 \/ amount - left = n
        /\ p.mode # mode => take = 0
        /\ p.mode = mode => take = x \/ take = left
        /\ next.left = left - take /\ take <= left
    BY <1>1, <1>3, <1>5, <1>a, <1>b, <2>1
  <2>. QED  BY <2>2
<1>9. next \in Giving /\ next.mode = mode
  BY <1>3, <1>5
<1>. QED  BY <1>7, <1>8, <1>9 DEF LeftOf, next, p, inMode, here

\* What is given back comes off the mode it is given back in, and off no other.
LEMMA ReturnToGivesBack ==
    ASSUME NEW ps \in Seq(Payment), NEW mode \in Tenders, NEW amount \in Nat, amount <= PaidIn(ps, mode)
    PROVE  /\ ReturnTo(ps, mode, amount) \in Seq(Payment)
           /\ \A m \in Tenders : PaidIn(ReturnTo(ps, mode, amount), m)
                                    = PaidIn(ps, m) - (IF m = mode THEN amount ELSE 0)
<1>. DEFINE base == [rows |-> <<>>, left |-> amount, mode |-> mode]
            acc == FoldLeft(Return, base, ps)
<1>1. base \in Giving
  BY DEF Giving
<1>2. LeftOf(ps, mode, amount, {}, base)
  <2>1. \A m \in Tenders : Tally(<<>>, InMode(Payment, m)) = 0 /\ SumFunctionOnSet(Here(ps, m), {}) = 0
    BY TallyOfNone, SumOfNone
  <2>2. base.rows = <<>> /\ base.left = amount /\ base.mode = mode /\ amount - amount = 0
    OBVIOUS
  <2>. HIDE DEF base
  <2>. QED  BY <1>1, <2>1, <2>2 DEF LeftOf
<1>. HIDE DEF base
<1>3. PICK h : /\ FoldLeft(Return, base, ps) = h[DOMAIN ps]
               /\ h[{}] = base
               /\ \A s \in SUBSET DOMAIN ps : s # {} => h[s] = Return(h[s \ {Max(s)}], ps[Max(s)])
  BY <1>1, ReturnsUnfold
<1>. DEFINE A == {s \in SUBSET DOMAIN ps : LeftOf(ps, mode, amount, s, h[s])}
<1>4. {} \in A
  BY <1>2, <1>3
<1>5. ASSUME NEW s \in SUBSET DOMAIN ps, s # {} /\ Max(s) \in s /\ s \ {Max(s)} \in A
      PROVE  s \in A
  <2>1. LeftOf(ps, mode, amount, s \ {Max(s)}, h[s \ {Max(s)}])
    BY <1>5
  <2>2. LeftOf(ps, mode, amount, s, Return(h[s \ {Max(s)}], ps[Max(s)]))
    BY <1>5, <2>1, ReturnKeeps
  <2>. QED  BY <1>3, <1>5, <2>2
<1>6. DOMAIN ps \in A
  <2>. HIDE DEF A
  <2>. QED  BY <1>4, <1>5, PlaceByPlace
<1>7. LeftOf(ps, mode, amount, DOMAIN ps, acc)
  BY <1>3, <1>6
<1>8. ReturnTo(ps, mode, amount) = acc.rows
  BY DEF ReturnTo, base
<1>. HIDE DEF acc
<1>9. /\ acc \in Giving
      /\ \A m \in Tenders : Tally(acc.rows, InMode(Payment, m))
                               = PaidIn(ps, m) - (IF m = mode THEN amount - acc.left ELSE 0)
      /\ acc.left = 0 \/ amount - acc.left = PaidIn(ps, mode)
  <2>1. \A m \in Tenders : SumFunctionOnSet(Here(ps, m), DOMAIN ps) = PaidIn(ps, m)
    BY HereIs
  <2>. QED  BY <1>7, <2>1 DEF LeftOf
<1>10. acc.rows \in Seq(Payment) /\ acc.left \in Nat
  BY <1>9 DEF Giving
<1>11. acc.left = 0
  <2>1. PICK left \in Nat : left = acc.left
    BY <1>10
  <2>2. left = 0 \/ amount - left = PaidIn(ps, mode)
    BY <1>9, <2>1
  <2>3. PaidIn(ps, mode) \in Nat
    BY RowsAre, PaidIs
  <2>. QED  BY <2>1, <2>2, <2>3
<1>12. \A m \in Tenders : PaidIn(acc.rows, m) = Tally(acc.rows, InMode(Payment, m))
  BY <1>10, RowsAre, PaidIs
<1>13. amount - acc.left = amount
  BY <1>11
<1>. QED  BY <1>8, <1>9, <1>10, <1>12, <1>13, Zenon

----------------------------------------------------------------------------
(* The account of a customer. *)



Debt == {m \in Movement : m.adds}
SignedOf == [m \in Movement |-> IF m.adds THEN m.amount ELSE -m.amount]
Clearing == [owed : Seq(Debt), left : Nat]
Ledger == [owed : Seq(Debt), credit : Nat]

\* The balance is a tally of the movements.
LEMMA BalanceIs ==
    ASSUME NEW ms \in Seq(Movement)
    PROVE  /\ SignedOf \in [Movement -> Int]
           /\ Balance(ms) = Tally(ms, SignedOf) /\ Balance(ms) \in Int
           /\ IsFiniteSet(DOMAIN ms) /\ DOMAIN Signed(ms) = DOMAIN ms
           /\ \A i \in DOMAIN ms : ms[i] \in Movement /\ Signed(ms)[i] = SignedOf[ms[i]] /\ Signed(ms)[i] \in Int
<1>1. SignedOf \in [Movement -> Int]
  BY DEF SignedOf, Movement
<1>2. \A i \in DOMAIN ms : ms[i] \in Movement
  BY Places
<1>3. Signed(ms) = [i \in DOMAIN ms |-> SignedOf[ms[i]]]
  BY <1>2 DEF Signed, SignedOf
<1>4. Balance(ms) = Tally(ms, SignedOf)
  BY <1>3 DEF Balance, Tally
<1>5. Tally(ms, SignedOf) \in Int
  BY <1>1, TallyIsInt
<1>6. \A i \in DOMAIN ms : Signed(ms)[i] = SignedOf[ms[i]] /\ Signed(ms)[i] \in Int
  BY <1>1, <1>2, <1>3
<1>7. IsFiniteSet(DOMAIN ms) /\ DOMAIN Signed(ms) = DOMAIN ms
  BY <1>3, Places
<1>. QED  BY <1>1, <1>2, <1>4, <1>5, <1>6, <1>7

\* A debt is a movement that adds, also when a part of it is cleared.
LEMMA DebtIs ==
    /\ \A s \in Seq(Debt) : s \in Seq(Movement)
    /\ \A m \in Debt : m \in Movement /\ m.adds /\ m.amount \in Nat /\ SignedOf[m] = m.amount
    /\ \A m \in Debt, b \in Nat : m.amount - b \in Nat => /\ Reduced(m, b) \in Debt
                                                          /\ SignedOf[Reduced(m, b)] = m.amount - b
<1>1. \A m \in Debt : m \in Movement /\ m.adds /\ m.amount \in Nat /\ SignedOf[m] = m.amount
  BY DEF Debt, SignedOf, Movement
<1>2. ASSUME NEW m \in Debt, NEW b \in Nat, m.amount - b \in Nat
      PROVE  Reduced(m, b) \in Debt /\ SignedOf[Reduced(m, b)] = m.amount - b
  <2>1. Reduced(m, b) \in Movement /\ Reduced(m, b).adds /\ Reduced(m, b).amount = m.amount - b
    BY <1>2 DEF Debt, Movement, Reduced
  <2>2. Reduced(m, b) \in Debt
    BY <2>1 DEF Debt
  <2>. QED  BY <1>1, <2>1, <2>2
<1>. QED  BY <1>1, <1>2 DEF Debt

\* One debt is cleared, or a part of it; what is repaid is neither lost nor counted twice.
LEMMA ClearIs ==
    ASSUME NEW acc \in Clearing, NEW m
    PROVE  /\ Clear(acc, m) \in Clearing
           /\ Balance(Clear(acc, m).owed) - Clear(acc, m).left = Balance(acc.owed) - acc.left
<1>1. acc.owed \in Seq(Debt) /\ acc.left \in Nat /\ acc.owed \in Seq(Movement)
  BY DebtIs DEF Clearing
<1>2. Balance(acc.owed) \in Int
  BY <1>1, BalanceIs
<1>3. CASE acc.owed = <<>> \/ acc.left = 0
  BY <1>3 DEF Clear
<1>4. CASE ~(acc.owed = <<>> \/ acc.left = 0)
  <2>. DEFINE d == Head(acc.owed)
              rest == Tail(acc.owed)
              take == Less(d.amount, acc.left)
              less == Reduced(d, take)
              owed == IF take = d.amount THEN rest ELSE <<less>> \o rest
  <2>1. d \in Debt /\ rest \in Seq(Debt) /\ d.amount \in Nat /\ d \in Movement /\ rest \in Seq(Movement)
    BY <1>1, <1>4, DebtIs
  <2>2. Balance(acc.owed) = d.amount + Balance(rest) /\ Balance(rest) \in Int
    <3>1. SignedOf \in [Movement -> Int] /\ Balance(acc.owed) = Tally(acc.owed, SignedOf)
          /\ Balance(rest) = Tally(rest, SignedOf) /\ Balance(rest) \in Int
      BY <1>1, <2>1, BalanceIs
    <3>2. Tally(acc.owed, SignedOf) = SignedOf[d] + Tally(rest, SignedOf)
      BY <1>1, <1>4, <3>1, TallyOfHead
    <3>3. SignedOf[d] = d.amount
      BY <2>1, DebtIs
    <3>. QED  BY <3>1, <3>2, <3>3
  <2>3. take \in Nat /\ take <= d.amount /\ take <= acc.left /\ d.amount - take \in Nat /\ acc.left - take \in Nat
    <3>. HIDE DEF d
    <3>. QED  BY <1>1, <2>1 DEF Less
  <2>4. Clear(acc, m) = [acc EXCEPT !.left = acc.left - take, !.owed = owed]
    <3>1. Clear(acc, m) = IF acc.owed = <<>> \/ acc.left = 0 THEN acc
                          ELSE [acc EXCEPT !.left = acc.left - take, !.owed = owed]
      BY Zenon DEF Clear
    <3>. HIDE DEF owed, take
    <3>. QED  BY <1>4, <3>1
  <2>. HIDE DEF take, d, rest
  <2>5. less \in Debt /\ SignedOf[less] = d.amount - take
    BY <2>1, <2>3, DebtIs
  <2>6. less \in Movement
    BY <2>5, DebtIs
  <2>. HIDE DEF less
  <2>7. owed \in Seq(Debt) /\ Balance(owed) = Balance(acc.owed) - take
    <3>1. CASE take = d.amount
      BY <2>1, <2>2, <3>1
    <3>2. CASE take # d.amount
      <4>. DEFINE one == <<less>>
                  both == one \o rest
      <4>1. one \in Seq(Movement) /\ both \in Seq(Movement) /\ both \in Seq(Debt)
        BY <2>1, <2>5, <2>6
      <4>5. owed = both
        BY <3>2
      <4>. HIDE DEF one, both, owed
      <4>2. SignedOf \in [Movement -> Int] /\ Balance(both) = Tally(both, SignedOf)
            /\ Balance(rest) = Tally(rest, SignedOf)
        BY <2>1, <4>1, BalanceIs
      <4>3. Tally(one \o rest, SignedOf) = Tally(one, SignedOf) + Tally(rest, SignedOf)
        BY <2>1, <4>1, <4>2, TallyOfBoth
      <4>4. Tally(one, SignedOf) = SignedOf[less]
        BY <2>6, <4>2, TallyOfOne DEF one
      <4>6. Balance(owed) = (d.amount - take) + Balance(rest)
        BY <2>5, <4>2, <4>3, <4>4, <4>5, Zenon DEF both
      <4>. PICK x \in Int : x = Balance(rest)
        BY <2>2
      <4>. PICK y \in Nat : y = d.amount
        BY <2>1
      <4>7. (y - take) + x = (y + x) - take
        BY <2>3
      <4>8. Balance(owed) = Balance(acc.owed) - take
        BY <2>2, <4>6, <4>7
      <4>. QED  BY <4>1, <4>5, <4>8
    <3>. QED  BY <3>1, <3>2
  <2>. HIDE DEF owed
  <2>8. Clear(acc, m) \in Clearing /\ Clear(acc, m).left = acc.left - take /\ Clear(acc, m).owed = owed
    BY <1>1, <2>3, <2>4, <2>7 DEF Clearing
  <2>. QED  BY <1>1, <1>2, <2>3, <2>7, <2>8
<1>. QED  BY <1>3, <1>4

ClearFold(h, base, ps) ==
    h = [s \in SUBSET DOMAIN ps |-> IF s = {} THEN base ELSE Clear(h[s \ {Max(s)}], ps[Max(s)])]

\* A repayment goes over the debts from the first to the last.
LEMMA ClearsFold ==
    ASSUME NEW base, NEW ps
    PROVE  FoldLeft(Clear, base, ps) = (CHOOSE h : ClearFold(h, base, ps))[DOMAIN ps]
BY Zenon DEF FoldLeft, MapThenFoldSet, ClearFold

\* The fold of the clearing exists: the last debt over those before it.
LEMMA ClearsUnfold ==
    ASSUME NEW base \in Clearing, NEW ps \in Seq(Debt)
    PROVE  \E h : /\ FoldLeft(Clear, base, ps) = h[DOMAIN ps]
                  /\ h[{}] = base
                  /\ \A s \in SUBSET DOMAIN ps :
                        s # {} => h[s] = Clear(h[s \ {Max(s)}], ps[Max(s)])
<1>. DEFINE step == [q \in Debt \X Clearing |-> Clear(q[2], q[1])]
            H == CHOOSE h : ClearFold(h, base, ps)
<1>0. \A p \in Debt, acc \in Clearing : Clear(acc, p) \in Clearing
  BY ClearIs
<1>1. step \in [Debt \X Clearing -> Clearing]
  BY <1>0
<1>2. \A p \in Debt, acc \in Clearing : step[<<p, acc>>] = Clear(acc, p)
  OBVIOUS
<1>. HIDE DEF step
<1>3. PICK g : SeqFolding(step, base, ps, Clearing, g)
  BY <1>1, SeqFold
<1>4. \A i \in DOMAIN ps : ps[i] \in Debt
  BY Places
<1>6. ClearFold(g, base, ps)
  <2>. DEFINE k == [s \in SUBSET DOMAIN ps |-> IF s = {} THEN base ELSE Clear(g[s \ {Max(s)}], ps[Max(s)])]
  <2>1. ASSUME NEW s \in SUBSET DOMAIN ps PROVE g[s] = k[s]
    <3>1. CASE s = {}
      BY <1>3, <3>1 DEF SeqFolding
    <3>2. CASE s # {}
      <4>1. Max(s) \in s /\ g[s] = step[<<ps[Max(s)], g[s \ {Max(s)}]>>]
        BY <1>3, <3>2 DEF SeqFolding
      <4>2. ps[Max(s)] \in Debt /\ s \ {Max(s)} \in SUBSET DOMAIN ps
        BY <1>4, <4>1
      <4>3. g[s \ {Max(s)}] \in Clearing
        BY <1>3, <4>2 DEF SeqFolding
      <4>. QED  BY <1>2, <3>2, <4>1, <4>2, <4>3
    <3>. QED  BY <3>1, <3>2
  <2>2. k = [s \in SUBSET DOMAIN ps |-> k[s]]
    OBVIOUS
  <2>3. g = [s \in SUBSET DOMAIN ps |-> g[s]]
    BY <1>3 DEF SeqFolding
  <2>. HIDE DEF k
  <2>4. g = k
    BY <2>1, <2>2, <2>3
  <2>. QED  BY <2>4 DEF k, ClearFold
<1>7. ClearFold(H, base, ps)
  BY <1>6, Zenon
<1>8. FoldLeft(Clear, base, ps) = H[DOMAIN ps]
  BY ClearsFold
<1>. HIDE DEF H
<1>9. {} \in SUBSET DOMAIN ps
  OBVIOUS
<1>10. H[{}] = base
  BY <1>7, <1>9 DEF ClearFold
<1>11. \A s \in SUBSET DOMAIN ps : s # {} => H[s] = Clear(H[s \ {Max(s)}], ps[Max(s)])
  BY <1>7, Zenon DEF ClearFold
<1>. QED  BY <1>8, <1>10, <1>11

\* What a repayment clears is off the debts, and the rest of it is left.
LEMMA ClearsKeep ==
    ASSUME NEW base \in Clearing, NEW ps \in Seq(Debt)
    PROVE  /\ FoldLeft(Clear, base, ps) \in Clearing
           /\ Balance(FoldLeft(Clear, base, ps).owed) - FoldLeft(Clear, base, ps).left
                = Balance(base.owed) - base.left
<1>1. PICK h : /\ FoldLeft(Clear, base, ps) = h[DOMAIN ps]
               /\ h[{}] = base
               /\ \A s \in SUBSET DOMAIN ps : s # {} => h[s] = Clear(h[s \ {Max(s)}], ps[Max(s)])
  BY ClearsUnfold
<1>. DEFINE A == {s \in SUBSET DOMAIN ps : /\ h[s] \in Clearing
                                           /\ Balance(h[s].owed) - h[s].left = Balance(base.owed) - base.left}
<1>2. {} \in A
  BY <1>1
<1>3. ASSUME NEW s \in SUBSET DOMAIN ps, s # {} /\ Max(s) \in s /\ s \ {Max(s)} \in A
      PROVE  s \in A
  <2>. DEFINE below == h[s \ {Max(s)}]
  <2>1. below \in Clearing /\ Balance(below.owed) - below.left = Balance(base.owed) - base.left
    BY <1>3
  <2>2. h[s] = Clear(below, ps[Max(s)])
    BY <1>1, <1>3
  <2>. HIDE DEF below
  <2>3. h[s] \in Clearing /\ Balance(h[s].owed) - h[s].left = Balance(below.owed) - below.left
    BY <2>1, <2>2, ClearIs
  <2>. QED  BY <2>1, <2>3
<1>4. DOMAIN ps \in A
  <2>. HIDE DEF A
  <2>. QED  BY <1>2, <1>3, PlaceByPlace
<1>. QED  BY <1>1, <1>4

\* A movement changes what is owed, less what is in hand, by what it comes to.
LEMMA AgeKeeps ==
    ASSUME NEW acc \in Ledger, NEW m \in Movement
    PROVE  /\ Age(acc, m) \in Ledger
           /\ Balance(Age(acc, m).owed) - Age(acc, m).credit = SignedOf[m] + (Balance(acc.owed) - acc.credit)
<1>1. acc.owed \in Seq(Debt) /\ acc.credit \in Nat /\ acc.owed \in Seq(Movement) /\ m.amount \in Nat /\ m.adds \in BOOLEAN
  BY DebtIs DEF Ledger, Movement
<1>2. Balance(acc.owed) \in Int /\ SignedOf[m] = IF m.adds THEN m.amount ELSE -m.amount
  BY <1>1, BalanceIs DEF SignedOf
<1>. PICK credit \in Nat : credit = acc.credit
  BY <1>1
<1>. PICK x \in Nat : x = m.amount
  BY <1>1
<1>. PICK owed \in Int : owed = Balance(acc.owed)
  BY <1>2
<1>3. CASE m.adds
  <2>. DEFINE used == Less(acc.credit, m.amount)
              rest == Reduced(m, used)
              more == IF m.amount > used THEN Append(acc.owed, rest) ELSE acc.owed
  <2>1. used \in Nat /\ used <= m.amount /\ used <= acc.credit /\ m.amount - used \in Nat /\ acc.credit - used \in Nat
    BY <1>1 DEF Less
  <2>2. m \in Debt
    BY <1>3 DEF Debt
  <2>3. Age(acc, m) = [owed |-> more, credit |-> acc.credit - used]
    BY <1>3 DEF Age, Buy
  <2>. HIDE DEF used
  <2>4. rest \in Debt /\ SignedOf[rest] = m.amount - used /\ rest \in Movement
    BY <2>1, <2>2, DebtIs
  <2>. HIDE DEF rest
  <2>5. more \in Seq(Debt) /\ Balance(more) = Balance(acc.owed) + (m.amount - used)
    <3>1. CASE m.amount > used
      <4>1. more = Append(acc.owed, rest) /\ more \in Seq(Debt) /\ more \in Seq(Movement)
        BY <1>1, <2>4, <3>1
      <4>. HIDE DEF more
      <4>2. SignedOf \in [Movement -> Int] /\ Balance(more) = Tally(more, SignedOf)
            /\ Balance(acc.owed) = Tally(acc.owed, SignedOf)
        BY <1>1, <4>1, BalanceIs
      <4>3. Tally(Append(acc.owed, rest), SignedOf) = Tally(acc.owed, SignedOf) + SignedOf[rest]
        BY <1>1, <2>4, <4>2, TallyOfAppend
      <4>. QED  BY <2>4, <4>1, <4>2, <4>3
    <3>2. CASE m.amount = used
      <4>1. more = acc.owed
        BY <1>1, <3>2
      <4>2. owed + (x - used) = owed
        BY <3>2
      <4>. HIDE DEF more
      <4>. QED  BY <1>1, <4>1, <4>2
    <3>. QED  BY <1>1, <2>1, <3>1, <3>2
  <2>. HIDE DEF more
  <2>6. Age(acc, m) \in Ledger /\ Age(acc, m).owed = more /\ Age(acc, m).credit = acc.credit - used
    BY <2>1, <2>3, <2>5 DEF Ledger
  <2>7. (owed + (x - used)) - (credit - used) = x + (owed - credit)
    BY <2>1
  <2>8. SignedOf[m] = x
    BY <1>2, <1>3
  <2>. QED  BY <2>5, <2>6, <2>7, <2>8, Zenon
<1>4. CASE ~m.adds
  <2>. DEFINE base == [owed |-> acc.owed, left |-> m.amount]
              cleared == FoldLeft(Clear, base, acc.owed)
  <2>1. base \in Clearing /\ base.owed = acc.owed /\ base.left = m.amount
    BY <1>1 DEF Clearing
  <2>2. Age(acc, m) = [owed |-> cleared.owed, credit |-> acc.credit + cleared.left]
    BY <1>4 DEF Age, Repay
  <2>. HIDE DEF base
  <2>3. cleared \in Clearing /\ Balance(cleared.owed) - cleared.left = Balance(acc.owed) - m.amount
    BY <1>1, <2>1, ClearsKeep
  <2>. HIDE DEF cleared
  <2>4. cleared.owed \in Seq(Debt) /\ cleared.left \in Nat /\ cleared.owed \in Seq(Movement)
    BY <2>3, DebtIs DEF Clearing
  <2>5. Balance(cleared.owed) \in Int
    BY <2>4, BalanceIs
  <2>6. Age(acc, m) \in Ledger /\ Age(acc, m).owed = cleared.owed /\ Age(acc, m).credit = acc.credit + cleared.left
    BY <1>1, <2>2, <2>4 DEF Ledger
  <2>. PICK left \in Nat : left = cleared.left
    BY <2>4
  <2>. PICK due \in Int : due = Balance(cleared.owed)
    BY <2>5
  <2>7. due - left = owed - x
    BY <2>3
  <2>8. due - (credit + left) = -x + (owed - credit)
    BY <2>7
  <2>9. SignedOf[m] = -x
    BY <1>2, <1>4
  <2>. QED  BY <2>6, <2>8, <2>9, Zenon
<1>. QED  BY <1>1, <1>3, <1>4

\* The fold behind `Aged`: the last of the movements, and what the others came to.
NoDebts == [owed |-> <<>>, credit |-> 0]
AgedFold(h, ms) ==
    h = [s \in SUBSET DOMAIN ms |->
           IF s = {} THEN NoDebts ELSE Age(h[s \ {Latest(ms, s)}], ms[Latest(ms, s)])]

\* `Aged` takes the movements from the first day to the last.
LEMMA AgesFold ==
    ASSUME NEW ms PROVE Aged(ms) = (CHOOSE h : AgedFold(h, ms))[DOMAIN ms]
BY Zenon DEF Aged, MapThenFoldSet, AgedFold, NoDebts

\* Some movement is the last: day and entry order the movements totally.
LEMMA LatestIsIn ==
    ASSUME NEW ms \in Seq(Movement), NEW s \in SUBSET DOMAIN ms, s # {}
    PROVE  Latest(ms, s) \in s
<1>. DEFINE S == DOMAIN ms
            R == {p \in S \X S : \/ ms[p[1]].day < ms[p[2]].day
                                 \/ ms[p[1]].day = ms[p[2]].day /\ p[1] <= p[2]}
<1>1. IsFiniteSet(S) /\ S \subseteq Int /\ \A i \in S : ms[i].day \in Int
  <2>1. \A i \in S : ms[i] \in Movement
    BY Places
  <2>. QED  BY <2>1, Places DEF Movement
<1>2. Ranks(R, S)
  <2>. DEFINE day == [i \in S |-> ms[i].day]
  <2>1. \A x, y \in S : <<x, y>> \in R <=> day[x] < day[y] \/ (day[x] = day[y] /\ x <= y)
    OBVIOUS
  <2>2. \A x \in S : day[x] \in Int /\ x \in Int
    BY <1>1
  <2>. HIDE DEF S, R, day
  <2>3. \A x \in S : <<x, x>> \in R
    BY <2>1, <2>2
  <2>4. ASSUME NEW x \in S, NEW y \in S PROVE <<x, y>> \in R \/ <<y, x>> \in R
    <3>1. day[x] \in Int /\ day[y] \in Int /\ x \in Int /\ y \in Int
      BY <2>2
    <3>2. \/ day[x] < day[y] \/ (day[x] = day[y] /\ x <= y)
          \/ day[y] < day[x] \/ (day[y] = day[x] /\ y <= x)
      BY <3>1
    <3>. QED  BY <2>1, <3>2
  <2>5. \A x, y, z \in S : <<x, y>> \in R /\ <<y, z>> \in R => <<x, z>> \in R
    BY <2>1, <2>2
  <2>. QED  BY <2>3, <2>4, <2>5 DEF Ranks
<1>3. \E x \in s : \A y \in s : <<y, x>> \in R
  <2>. HIDE DEF R
  <2>. QED  BY <1>1, <1>2, LastOfAll
<1>4. PICK x \in s : \A y \in s : <<y, x>> \in R
  BY <1>3
<1>5. \A y \in s : ms[y].day < ms[x].day \/ (ms[y].day = ms[x].day /\ y <= x)
  BY <1>4
<1>. QED  BY <1>5 DEF Latest

\* The fold of the ageing exists: the latest movement over the others.
LEMMA AgesUnfold ==
    ASSUME NEW ms \in Seq(Movement)
    PROVE  \E h : /\ Aged(ms) = h[DOMAIN ms]
                  /\ h[{}] = NoDebts
                  /\ \A s \in SUBSET DOMAIN ms :
                        s # {} => h[s] = Age(h[s \ {Latest(ms, s)}], ms[Latest(ms, s)])
<1>. DEFINE S == DOMAIN ms
            pick == [s \in SUBSET S |-> Latest(ms, s)]
            step == [q \in S \X Ledger |-> Age(q[2], ms[q[1]])]
            H == CHOOSE h : AgedFold(h, ms)
<1>1. IsFiniteSet(S) /\ \A i \in S : ms[i] \in Movement
  BY Places
<1>2. \A s \in SUBSET S : s # {} => pick[s] = Latest(ms, s) /\ Latest(ms, s) \in s
  BY LatestIsIn
<1>3. Picks(pick, S)
  BY <1>2 DEF Picks
<1>4. \A i \in S, acc \in Ledger : step[<<i, acc>>] = Age(acc, ms[i]) /\ Age(acc, ms[i]) \in Ledger
  BY <1>1, AgeKeeps
<1>5. NoDebts \in Ledger
  BY DEF NoDebts, Ledger
<1>. HIDE DEF pick, step, S
<1>6. PICK g : Folding(step, pick, NoDebts, S, g)
  BY <1>1, <1>3, FoldExists
<1>7. \A i \in S, acc \in Ledger : step[<<i, acc>>] \in Ledger
  BY <1>4
<1>8. g \in [SUBSET S -> Ledger]
  BY <1>1, <1>3, <1>5, <1>6, <1>7, FoldTyped
<1>9. AgedFold(g, ms)
  <2>. DEFINE k == [s \in SUBSET S |-> IF s = {} THEN NoDebts ELSE Age(g[s \ {Latest(ms, s)}], ms[Latest(ms, s)])]
  <2>1. ASSUME NEW s \in SUBSET S PROVE g[s] = k[s]
    <3>1. CASE s = {}
      <4>1. g[{}] = NoDebts
        BY <1>6, FoldOfNone
      <4>. QED  BY <3>1, <4>1
    <3>2. CASE s # {}
      <4>1. g[s] = step[<<pick[s], g[s \ {pick[s]}]>>]
        BY <1>6, <3>2, FoldStep
      <4>2. pick[s] = Latest(ms, s) /\ Latest(ms, s) \in S /\ g[s \ {Latest(ms, s)}] \in Ledger
        BY <1>2, <1>8, <3>2
      <4>3. g[s] = Age(g[s \ {Latest(ms, s)}], ms[Latest(ms, s)])
        BY <1>4, <4>1, <4>2
      <4>. QED  BY <3>2, <4>3
    <3>. QED  BY <3>1, <3>2
  <2>2. k = [s \in SUBSET S |-> k[s]]
    OBVIOUS
  <2>3. g = [s \in SUBSET S |-> g[s]]
    BY <1>8
  <2>. HIDE DEF k
  <2>4. g = k
    BY <2>1, <2>2, <2>3
  <2>. QED  BY <2>4 DEF k, AgedFold, S
<1>10. AgedFold(H, ms)
  BY <1>9, Zenon
<1>11. Aged(ms) = H[DOMAIN ms]
  BY AgesFold
<1>. HIDE DEF H
<1>12. {} \in SUBSET DOMAIN ms
  OBVIOUS
<1>13. H[{}] = NoDebts
  BY <1>10, <1>12 DEF AgedFold
<1>14. \A s \in SUBSET DOMAIN ms : s # {} => H[s] = Age(H[s \ {Latest(ms, s)}], ms[Latest(ms, s)])
  BY <1>10, Zenon DEF AgedFold
<1>. QED  BY <1>11, <1>13, <1>14

\* What is owed, less what is in hand, is the balance.
LEMMA AgedTies ==
    ASSUME NEW ms \in Seq(Movement)
    PROVE  Aged(ms) \in Ledger /\ Balance(Aged(ms).owed) - Aged(ms).credit = Balance(ms)
<1>. DEFINE S == DOMAIN ms
            F == Signed(ms)
<1>1. PICK h : /\ Aged(ms) = h[S]
               /\ h[{}] = NoDebts
               /\ \A s \in SUBSET S : s # {} => h[s] = Age(h[s \ {Latest(ms, s)}], ms[Latest(ms, s)])
  BY AgesUnfold
<1>2. /\ IsFiniteSet(S) /\ DOMAIN F = S
      /\ \A i \in S : ms[i] \in Movement /\ F[i] = SignedOf[ms[i]] /\ F[i] \in Int
  BY BalanceIs
<1>. DEFINE A == {s \in SUBSET S : /\ h[s] \in Ledger
                                   /\ Balance(h[s].owed) - h[s].credit = SumFunctionOnSet(F, s)}
<1>3. ASSUME NEW s \in SUBSET S, \A x \in s : s \ {x} \in A
      PROVE  s \in A
  <2>1. CASE s = {}
    <3>1. Balance(<<>>) = 0
      <4>1. <<>> \in Seq(Movement)
        OBVIOUS
      <4>. QED  BY <4>1, BalanceIs, TallyOfNone
    <3>2. SumFunctionOnSet(F, {}) = 0
      BY SumOfNone
    <3>3. NoDebts \in Ledger /\ NoDebts.owed = <<>> /\ NoDebts.credit = 0
      BY DEF NoDebts, Ledger
    <3>4. h[s] = NoDebts
      BY <1>1, <2>1
    <3>5. 0 - 0 = 0
      OBVIOUS
    <3>. HIDE DEF F
    <3>. QED  BY <2>1, <3>1, <3>2, <3>3, <3>4, <3>5
  <2>2. CASE s # {}
    <3>. DEFINE i == Latest(ms, s)
                below == h[s \ {i}]
    <3>1. i \in s
      BY <2>2, LatestIsIn
    <3>2. below \in Ledger /\ Balance(below.owed) - below.credit = SumFunctionOnSet(F, s \ {i})
      BY <1>3, <3>1
    <3>3. h[s] = Age(below, ms[i])
      BY <1>1, <2>2
    <3>. HIDE DEF i, below, F
    <3>4. /\ h[s] \in Ledger
          /\ Balance(h[s].owed) - h[s].credit = SignedOf[ms[i]] + (Balance(below.owed) - below.credit)
      BY <1>2, <3>1, <3>2, <3>3, AgeKeeps
    <3>5. IsFiniteSet(s) /\ \A x \in s : F[x] \in Int
      BY <1>2, FS_Subset
    <3>6. SumFunctionOnSet(F, s) = F[i] + SumFunctionOnSet(F, s \ {i})
      BY <3>1, <3>5, SumRemove
    <3>7. F[i] = SignedOf[ms[i]]
      BY <1>2, <3>1
    <3>. QED  BY <3>2, <3>4, <3>6, <3>7
  <2>. QED  BY <2>1, <2>2
<1>4. SUBSET S \subseteq A
  <2>1. IsFiniteSet(S)
    BY <1>2
  <2>. HIDE DEF A, S
  <2>. QED  BY <1>3, <2>1, SubsetInduction
<1>5. Balance(ms) = SumFunctionOnSet(F, S)
  BY <1>2 DEF Balance, SumFunction
<1>. QED  BY <1>1, <1>4, <1>5

----------------------------------------------------------------------------
(* What is owed since some day. *)

\* A window of an account holds some of its movements.
LEMMA BetweenIs ==
    ASSUME NEW ms \in Seq(Movement), NEW from \in Int, NEW to \in Int
    PROVE  /\ Between(ms, from, to) \in SUBSET DOMAIN ms /\ IsFiniteSet(Between(ms, from, to))
           /\ Owed(ms, from, to) \in Int
<1>1. Between(ms, from, to) \in SUBSET DOMAIN ms
  BY DEF Between
<1>2. IsFiniteSet(Between(ms, from, to))
  BY <1>1, BalanceIs, FS_Subset
<1>3. \A i \in Between(ms, from, to) : Signed(ms)[i] \in Int
  BY <1>1, BalanceIs
<1>4. SumFunctionOnSet(Signed(ms), Between(ms, from, to)) \in Int
  BY <1>2, <1>3, SumIsInt
<1>. QED  BY <1>1, <1>2, <1>4 DEF Owed

\* Two windows that meet are one.
LEMMA OwedInTwo ==
    ASSUME NEW ms \in Seq(Movement), NEW s \in SUBSET DOMAIN ms, NEW t \in SUBSET DOMAIN ms, s \cap t = {}
    PROVE  SumFunctionOnSet(Signed(ms), s \cup t) = SumFunctionOnSet(Signed(ms), s) + SumFunctionOnSet(Signed(ms), t)
<1>1. IsFiniteSet(s) /\ IsFiniteSet(t) /\ \A x \in s \cup t : Signed(ms)[x] \in Int
  BY BalanceIs, FS_Subset
<1>. QED  BY <1>1, SumOfBoth

\* A statement: what was owed before it and what happened in it.
LEMMA ClosingIs ==
    ASSUME NEW ms \in Seq(Movement), NEW from \in Int, NEW to \in Int, 1 <= from, from <= to, Today \in Nat
    PROVE  Closing(ms, from, to) = Owed(ms, 1, to)
<1>. DEFINE s == Between(ms, 1, from - 1)
            t == Between(ms, from, to)
<1>1. \A i \in DOMAIN ms : ms[i].day \in Int
  <2>1. \A i \in DOMAIN ms : ms[i] \in Movement
    BY BalanceIs
  <2>2. \A m \in Movement : m.day \in Int
    BY DEF Movement
  <2>. QED  BY <2>1, <2>2
<1>2. s \in SUBSET DOMAIN ms /\ t \in SUBSET DOMAIN ms /\ s \cap t = {} /\ s \cup t = Between(ms, 1, to)
  BY <1>1 DEF Between
<1>. HIDE DEF s, t
<1>3. SumFunctionOnSet(Signed(ms), s \cup t) = SumFunctionOnSet(Signed(ms), s) + SumFunctionOnSet(Signed(ms), t)
  BY <1>2, OwedInTwo
<1>. QED  BY <1>2, <1>3 DEF Closing, Owed, s, t

\* The four buckets hold everything.
LEMMA BucketsHoldAll ==
    ASSUME NEW ms \in Seq(Movement), Today \in Nat
    PROVE  Balance(ms) = Owed(ms, Today - 29, Today) + Owed(ms, Today - 59, Today - 30)
                           + Owed(ms, Today - 89, Today - 60) + Owed(ms, 1, Today - 90)
<1>. DEFINE a == Between(ms, Today - 29, Today)
            b == Between(ms, Today - 59, Today - 30)
            c == Between(ms, Today - 89, Today - 60)
            d == Between(ms, 1, Today - 90)
            sum(s) == SumFunctionOnSet(Signed(ms), s)
<1>1. \A i \in DOMAIN ms : ms[i].day \in 1 .. Today
  BY BalanceIs DEF Movement
<1>2. /\ a \in SUBSET DOMAIN ms /\ b \in SUBSET DOMAIN ms /\ c \in SUBSET DOMAIN ms /\ d \in SUBSET DOMAIN ms
      /\ a \cap b = {} /\ (a \cup b) \cap c = {} /\ (a \cup b \cup c) \cap d = {}
  BY <1>1 DEF Between
<1>3. a \cup b \cup c \cup d = DOMAIN ms
  <2>1. ASSUME NEW i \in DOMAIN ms PROVE i \in a \cup b \cup c \cup d
    BY <1>1 DEF Between
  <2>. HIDE DEF a, b, c, d
  <2>. QED  BY <1>2, <2>1
<1>. HIDE DEF a, b, c, d
<1>4. sum(a \cup b) = sum(a) + sum(b)
  BY <1>2, OwedInTwo
<1>5. sum((a \cup b) \cup c) = sum(a \cup b) + sum(c)
  <2>1. a \cup b \in SUBSET DOMAIN ms
    BY <1>2
  <2>. QED  BY <1>2, <2>1, OwedInTwo
<1>6. sum((a \cup b \cup c) \cup d) = sum(a \cup b \cup c) + sum(d)
  <2>1. a \cup b \cup c \in SUBSET DOMAIN ms
    BY <1>2
  <2>. QED  BY <1>2, <2>1, OwedInTwo
<1>7. Balance(ms) = sum(DOMAIN ms)
  BY BalanceIs DEF Balance, SumFunction
<1>. HIDE DEF sum
<1>8. Balance(ms) = sum(a) + sum(b) + sum(c) + sum(d)
  BY <1>3, <1>4, <1>5, <1>6, <1>7, Zenon
<1>. QED  BY <1>8 DEF Owed, sum, a, b, c, d

\* Four buckets, added up.
LEMMA SumOfFour ==
    ASSUME NEW a \in Int, NEW b \in Int, NEW c \in Int, NEW d \in Int
    PROVE  SumFunction(<<a, b, c, d>>) = a + b + c + d
<1>. DEFINE id == [x \in Int |-> x]
            q == <<a, b, c, d>>
            w == <<b, c, d>>
            u == <<c, d>>
            v == <<d>>
<1>0. id \in [Int -> Int]
  OBVIOUS
<1>1. q \in Seq(Int) /\ w \in Seq(Int) /\ u \in Seq(Int) /\ v \in Seq(Int)
  OBVIOUS
<1>2. /\ q # <<>> /\ Head(q) = a /\ Tail(q) = w
      /\ w # <<>> /\ Head(w) = b /\ Tail(w) = u
      /\ u # <<>> /\ Head(u) = c /\ Tail(u) = v
  OBVIOUS
<1>3. q = [i \in DOMAIN q |-> id[q[i]]]
  OBVIOUS
<1>4. Tally(v, id) = d
  BY <1>0, TallyOfOne
<1>5. id[a] = a /\ id[b] = b /\ id[c] = c
  OBVIOUS
<1>. HIDE DEF q, w, u, v, id
<1>6. Tally(q, id) = id[Head(q)] + Tally(Tail(q), id)
  BY <1>0, <1>1, <1>2, TallyOfHead
<1>7. Tally(w, id) = id[Head(w)] + Tally(Tail(w), id)
  BY <1>0, <1>1, <1>2, TallyOfHead
<1>8. Tally(u, id) = id[Head(u)] + Tally(Tail(u), id)
  BY <1>0, <1>1, <1>2, TallyOfHead
<1>9. SumFunction(q) = Tally(q, id)
  BY <1>3, Zenon DEF Tally
<1>10. Tally(q, id) = a + (b + (c + d))
  BY <1>2, <1>4, <1>5, <1>6, <1>7, <1>8, Zenon
<1>. QED  BY <1>9, <1>10 DEF q

\* An account's buckets come to its balance.
LEMMA BucketsTie ==
    ASSUME NEW ms \in Seq(Movement), Today \in Nat
    PROVE  SumFunction(Buckets(Aged(ms))) = Balance(ms)
<1>. DEFINE owed == Aged(ms).owed
            a == Owed(owed, Today - 29, Today)
            b == Owed(owed, Today - 59, Today - 30)
            c == Owed(owed, Today - 89, Today - 60)
            d == Owed(owed, 1, Today - 90)
            credit == Aged(ms).credit
<1>1. owed \in Seq(Movement) /\ credit \in Nat /\ Balance(owed) - credit = Balance(ms)
  BY AgedTies, DebtIs DEF Ledger
<1>. HIDE DEF owed, credit
<1>2. a \in Int /\ b \in Int /\ c \in Int /\ d \in Int
  BY <1>1, BetweenIs
<1>3. Balance(owed) = a + b + c + d
  BY <1>1, BucketsHoldAll
<1>4. Buckets(Aged(ms)) = <<a - credit, b, c, d>>
  BY DEF Buckets, owed, credit
<1>. HIDE DEF a, b, c, d
<1>5. a - credit \in Int
  BY <1>1, <1>2
<1>6. SumFunction(<<a - credit, b, c, d>>) = (a - credit) + b + c + d
  BY <1>2, <1>5, SumOfFour
<1>7. (a - credit) + b + c + d = (a + b + c + d) - credit
  <2>. PICK n \in Nat : n = credit
    BY <1>1
  <2>1. (a - n) + b + c + d = (a + b + c + d) - n
    BY <1>2
  <2>. QED  BY <2>1
<1>8. SumFunction(Buckets(Aged(ms))) = Balance(owed) - credit
  <2>1. SumFunction(Buckets(Aged(ms))) = (a - credit) + b + c + d
    BY <1>4, <1>6, Zenon
  <2>2. (a - credit) + b + c + d = Balance(owed) - credit
    <3>1. Balance(owed) - credit = (a + b + c + d) - credit
      BY <1>3, Zenon
    <3>. QED  BY <1>7, <3>1, Zenon
  <2>. QED  BY <2>1, <2>2, Zenon
<1>. QED  BY <1>1, <1>8

----------------------------------------------------------------------------
(* The invoice of a supplier. *)

\* The goods carry the whole cost, and no discount goes below nothing.
LEMMA InvoiceTies ==
    ASSUME NEW gs \in Seq(InvoiceLine), \A i \in DOMAIN gs : Worth(gs[i]) \in Nat,
           NEW c \in [off : Nat, charges : Nat], NEW s \in ShopRules,
           c.off <= SumFunction(NetsOf(gs)), SumFunction(NetsOf(gs)) # 0
    PROVE  LET i == InvoiceOf(gs, c, s)
           IN /\ SumFunction(i.landed) + i.credit + i.roundOff = i.total
              /\ \A k \in DOMAIN gs : i.taxable[k] >= 0
<1>. DEFINE S == DOMAIN gs
            nets == NetsOf(gs)
            taxable == TaxableOf(gs, c)
            tax == [i \in S |-> Percent(taxable[i], gs[i].tax)]
            charge == Spread(c.charges, nets)
            inCost == [i \in S |-> IF s.regular THEN 0 ELSE tax[i]]
            landed == [i \in S |-> taxable[i] + charge[i] + inCost[i]]
            total == SumFunction(taxable) + c.charges + SumFunction(tax)
<1>1. /\ IsFiniteSet(S) /\ S \subseteq Int /\ \A i \in S : gs[i] \in InvoiceLine
      /\ DOMAIN nets = S /\ \A i \in S : nets[i] \in Nat
  BY Places DEF NetsOf
<1>2. c.off \in Nat /\ c.charges \in Nat /\ SumFunction(nets) \in Nat /\ SumFunction(nets) # 0
  <2>1. SumFunctionOnSet(nets, S) \in Nat
    <3>1. IsFiniteSet(S) /\ \A x \in S : nets[x] \in Nat
      BY <1>1
    <3>. HIDE DEF nets, S
    <3>. QED  BY <3>1, SumIsNat
  <2>. QED  BY <1>1, <2>1 DEF SumFunction
<1>3. \A i \in S : Relief(gs, c)[i] \in 0 .. nets[i]
  <2>1. c.off \in 0 .. SumFunction(nets)
    BY <1>2
  <2>2. Relief(gs, c) = Spread(c.off, nets)
    BY DEF Relief
  <2>. HIDE DEF nets
  <2>. QED  BY <1>1, <2>1, <2>2, SharesAreWithinLines
<1>4. \A i \in S : taxable[i] \in Nat
  <2>1. \A i \in S : taxable[i] = nets[i] - Relief(gs, c)[i]
    BY DEF TaxableOf
  <2>. HIDE DEF nets, taxable
  <2>. QED  BY <1>1, <1>3, <2>1
<1>5. \A i \in S : tax[i] \in Nat
  <2>1. \A i \in S : gs[i].tax \in Nat
    BY <1>1 DEF InvoiceLine
  <2>2. ASSUME NEW i \in S PROVE Percent(taxable[i], gs[i].tax) \in Nat
    BY <1>4, <2>1, PercentIsNat
  <2>. QED  BY <2>2
<1>6. SumFunction(charge) = c.charges /\ DOMAIN charge = S /\ \A i \in S : charge[i] \in Int
  <2>1. SumFunction(charge) = c.charges
    <3>1. IsFiniteSet(DOMAIN nets) /\ DOMAIN nets \subseteq Int /\ \A i \in DOMAIN nets : nets[i] \in Nat
      BY <1>1
    <3>. HIDE DEF nets
    <3>. QED  BY <1>2, <3>1, SharesAddUp
  <2>2. CASE c.charges = 0
    <3>1. charge = [i \in S |-> 0]
      BY <1>1, <2>2 DEF Spread
    <3>. QED  BY <2>1, <3>1
  <2>3. CASE c.charges # 0
    <3>1. DOMAIN charge = S
      BY <1>1 DEF Spread
    <3>2. \A i \in S : charge[i] \in Int
      <4>. HIDE DEF nets
      <4>1. c.charges \in Nat \ {0} /\ SumFunction(nets) \in Nat \ {0}
        BY <1>2, <2>3
      <4>. QED  BY <1>1, <4>1, SharesAreProportional
    <3>. QED  BY <2>1, <3>1, <3>2
  <2>. QED  BY <2>2, <2>3
<1>7. \A i \in S : inCost[i] \in Int
  <2>. HIDE DEF tax
  <2>. QED  BY <1>5
<1>8. DOMAIN taxable = S /\ DOMAIN tax = S /\ DOMAIN inCost = S /\ DOMAIN landed = S
  BY DEF TaxableOf
<1>9. \A i \in S : landed[i] = (taxable[i] + charge[i]) + inCost[i]
  OBVIOUS
<1>10. InvoiceOf(gs, c, s) = [landed |-> landed, credit |-> SumFunction(tax) - SumFunction(inCost), taxable |-> taxable,
                              roundOff |-> RoundOff(total, s.rounding), total |-> total + RoundOff(total, s.rounding)]
  BY Zenon DEF InvoiceOf, Levied, Cost
<1>. HIDE DEF nets, taxable, tax, charge, inCost, landed
<1>11. SumFunction(landed) = SumFunction(taxable) + SumFunction(charge) + SumFunction(inCost)
       /\ SumFunction(taxable) \in Int /\ SumFunction(tax) \in Int /\ SumFunction(inCost) \in Int
  <2>. DEFINE both == [i \in S |-> taxable[i] + charge[i]]
  <2>1. \A i \in S : /\ taxable[i] \in Int /\ charge[i] \in Int /\ both[i] = taxable[i] + charge[i]
                     /\ both[i] \in Int /\ inCost[i] \in Int /\ tax[i] \in Int
                     /\ landed[i] = both[i] + inCost[i]
    BY <1>4, <1>5, <1>6, <1>7, <1>9
  <2>2. IsFiniteSet(S)
    BY <1>1
  <2>. HIDE DEF both, S
  <2>3. SumFunctionOnSet(both, S) = SumFunctionOnSet(taxable, S) + SumFunctionOnSet(charge, S)
    BY <2>1, <2>2, SumOfPairs
  <2>4. SumFunctionOnSet(landed, S) = SumFunctionOnSet(both, S) + SumFunctionOnSet(inCost, S)
    BY <2>1, <2>2, SumOfPairs
  <2>5. SumFunctionOnSet(taxable, S) \in Int /\ SumFunctionOnSet(tax, S) \in Int /\ SumFunctionOnSet(inCost, S) \in Int
    BY <2>1, <2>2, SumIsInt
  <2>. QED  BY <1>6, <1>8, <2>3, <2>4, <2>5 DEF SumFunction
<1>12. SumFunction(landed) + (SumFunction(tax) - SumFunction(inCost)) = total
  <2>. PICK x \in Int : x = SumFunction(taxable)
    BY <1>11
  <2>. PICK y \in Int : y = SumFunction(tax)
    BY <1>11
  <2>. PICK z \in Int : z = SumFunction(inCost)
    BY <1>11
  <2>1. SumFunction(landed) = x + c.charges + z
    BY <1>6, <1>11
  <2>. PICK w \in Nat : w = c.charges
    BY <1>2
  <2>2. (x + w + z) + (y - z) = x + w + y
    OBVIOUS
  <2>. QED  BY <2>1, <2>2
<1>13. \A i \in S : taxable[i] >= 0
  BY <1>4
<1>. HIDE DEF total
<1>. QED  BY <1>10, <1>12, <1>13

----------------------------------------------------------------------------
(* The bill. *)

\* No discount takes more than there is.
LEMMA TakesNoMore ==
    ASSUME NEW base \in Nat, NEW o \in Discount
    PROVE  Taken(o, base) \in 0 .. base
<1>1. o = [kind |-> o.kind, of |-> o.of] /\ o.kind \in {"none", "amount", "percent"} /\ o.of \in Nat
  BY DEF Discount
<1>2. Taken([kind |-> o.kind, of |-> o.of], base) \in 0 .. base
  BY <1>1, DiscountTakesNoMore
<1>. QED  BY <1>1, <1>2, Zenon

\* What a sum over places comes to.
LEMMA SumTyped ==
    ASSUME NEW f, NEW S, IsFiniteSet(S), DOMAIN f = S, \A i \in S : f[i] \in Nat
    PROVE  SumFunction(f) \in Nat /\ SumFunction(f) = SumFunctionOnSet(f, S)
BY SumIsNat DEF SumFunction

\* The lines of a bill, their discounts and their weights.
LEMMA LinesAre ==
    ASSUME NEW c \in Seq(CartLine)
    PROVE  /\ IsFiniteSet(DOMAIN c) /\ DOMAIN c \subseteq Int /\ \A i \in DOMAIN c : c[i] \in CartLine
           /\ DOMAIN Gross(c) = DOMAIN c /\ DOMAIN LineOff(c) = DOMAIN c
           /\ DOMAIN Nets(c) = DOMAIN c /\ DOMAIN Weights(c) = DOMAIN c
           /\ \A i \in DOMAIN c : /\ Gross(c)[i] \in Nat /\ LineOff(c)[i] \in 0 .. Gross(c)[i]
                                  /\ Nets(c)[i] \in Nat /\ Weights(c)[i] \in Nat
                                  /\ Gross(c)[i] = Nets(c)[i] + LineOff(c)[i]
<1>1. IsFiniteSet(DOMAIN c) /\ DOMAIN c \subseteq Int /\ \A i \in DOMAIN c : c[i] \in CartLine
  BY Places
<1>2. /\ DOMAIN Gross(c) = DOMAIN c /\ DOMAIN LineOff(c) = DOMAIN c
      /\ DOMAIN Nets(c) = DOMAIN c /\ DOMAIN Weights(c) = DOMAIN c
  BY DEF Gross, LineOff, Nets, Weights
<1>3. ASSUME NEW i \in DOMAIN c
      PROVE  /\ Gross(c)[i] \in Nat /\ LineOff(c)[i] \in 0 .. Gross(c)[i]
             /\ Nets(c)[i] \in Nat /\ Weights(c)[i] \in Nat
             /\ Gross(c)[i] = Nets(c)[i] + LineOff(c)[i]
  <2>1. c[i].qty \in Nat /\ c[i].item.price \in Nat /\ c[i].item.parcel \in Nat /\ c[i].off \in Discount
    BY <1>1 DEF CartLine
  <2>2. Extend(c[i].qty, c[i].item.price) \in Nat /\ Extend(c[i].qty, c[i].item.parcel) \in Nat
    BY <2>1, ExtendIsNat
  <2>3. Gross(c)[i] \in Nat /\ Weights(c)[i] \in Nat
    BY <2>2 DEF Gross, Weights
  <2>4. LineOff(c)[i] \in 0 .. Gross(c)[i]
    BY <2>1, <2>3, TakesNoMore DEF LineOff
  <2>5. Nets(c)[i] = Gross(c)[i] - LineOff(c)[i]
    BY DEF Nets
  <2>. QED  BY <2>3, <2>4, <2>5
<1>. QED  BY <1>1, <1>2, <1>3

\* The bill's discount is taken in full, and no line goes below nothing.
LEMMA SharesAre ==
    ASSUME NEW c \in Seq(CartLine), NEW o \in Discount
    PROVE  /\ NetOf(c) \in Nat /\ Given(c, o) \in 0 .. NetOf(c)
           /\ DOMAIN Shares(c, o) = DOMAIN c /\ DOMAIN Net(c, o) = DOMAIN c
           /\ SumFunction(Shares(c, o)) = Given(c, o)
           /\ \A i \in DOMAIN c : /\ Shares(c, o)[i] \in Nat /\ Net(c, o)[i] \in Nat
                                  /\ Nets(c)[i] = Net(c, o)[i] + Shares(c, o)[i]
<1>. DEFINE S == DOMAIN c
            nets == Nets(c)
            total == Given(c, o)
<1>1. IsFiniteSet(S) /\ S \subseteq Int /\ DOMAIN nets = S /\ \A i \in S : nets[i] \in Nat
  BY LinesAre
<1>2. NetOf(c) \in Nat
  BY <1>1, SumTyped DEF NetOf
<1>3. total \in 0 .. NetOf(c)
  BY <1>2, TakesNoMore DEF Given
<1>4. Shares(c, o) = Spread(total, nets) /\ NetOf(c) = SumFunction(nets)
  BY DEF Shares, NetOf
<1>. HIDE DEF total, nets
<1>5. \A i \in S : Shares(c, o)[i] \in 0 .. nets[i]
  <2>1. total \in 0 .. SumFunction(nets) /\ IsFiniteSet(DOMAIN nets) /\ \A i \in DOMAIN nets : nets[i] \in Nat
    BY <1>1, <1>3, <1>4
  <2>. QED  BY <1>1, <1>4, <2>1, SharesAreWithinLines
<1>6. DOMAIN Shares(c, o) = S
  BY <1>1, <1>4 DEF Spread
<1>7. SumFunction(Shares(c, o)) = total
  <2>1. CASE SumFunction(nets) = 0
    <3>1. total = 0
      BY <1>3, <1>4, <2>1
    <3>2. \A i \in S : Shares(c, o)[i] = 0
      BY <1>1, <1>4, <2>1 DEF Spread
    <3>. QED  BY <1>1, <1>6, <3>1, <3>2, SumOfZeros DEF SumFunction
  <2>2. CASE SumFunction(nets) # 0
    <3>1. total \in Nat /\ IsFiniteSet(DOMAIN nets) /\ DOMAIN nets \subseteq Int /\ \A i \in DOMAIN nets : nets[i] \in Nat
      BY <1>1, <1>2, <1>3
    <3>. QED  BY <1>4, <2>2, <3>1, SharesAddUp
  <2>. QED  BY <2>1, <2>2
<1>8. DOMAIN Net(c, o) = S /\ \A i \in S : Net(c, o)[i] = nets[i] - Shares(c, o)[i]
  BY DEF Net, nets
<1>9. \A i \in S : Shares(c, o)[i] \in Nat /\ Net(c, o)[i] \in Nat /\ nets[i] = Net(c, o)[i] + Shares(c, o)[i]
  BY <1>1, <1>5, <1>8
<1>. QED  BY <1>2, <1>3, <1>6, <1>7, <1>8, <1>9 DEF total, nets

\* What the lines come to, with the parcel charge within them or apart.
LEMMA LinesAddUp ==
    ASSUME NEW c \in Seq(CartLine), NEW o \in Discount
    PROVE  /\ SumFunction(Gross(c)) = NetOf(c) + SumFunction(LineOff(c))
           /\ NetOf(c) = SumFunction(Net(c, o)) + Given(c, o)
           /\ SumFunction(Gross(c)) \in Nat /\ SumFunction(LineOff(c)) \in Nat
           /\ SumFunction(Net(c, o)) \in Nat /\ SumFunction(Weights(c)) \in Nat
<1>. DEFINE S == DOMAIN c
            F == Gross(c)  G == Nets(c)  H == LineOff(c)  K == Net(c, o)  L == Shares(c, o)
<1>1. /\ IsFiniteSet(S) /\ DOMAIN F = S /\ DOMAIN G = S /\ DOMAIN H = S /\ DOMAIN Weights(c) = S
      /\ \A i \in S : F[i] \in Nat /\ G[i] \in Nat /\ H[i] \in Nat /\ F[i] = G[i] + H[i] /\ Weights(c)[i] \in Nat
  BY LinesAre
<1>2. /\ DOMAIN K = S /\ DOMAIN L = S /\ SumFunction(L) = Given(c, o)
      /\ \A i \in S : K[i] \in Nat /\ L[i] \in Nat /\ G[i] = K[i] + L[i]
  BY SharesAre
<1>. HIDE DEF F, G, H, K, L, S
<1>3. \A i \in S : F[i] \in Int /\ G[i] \in Int /\ H[i] \in Int /\ K[i] \in Int /\ L[i] \in Int
  BY <1>1, <1>2
<1>4. SumFunctionOnSet(F, S) = SumFunctionOnSet(G, S) + SumFunctionOnSet(H, S)
  BY <1>1, <1>3, SumOfPairs
<1>5. SumFunctionOnSet(G, S) = SumFunctionOnSet(K, S) + SumFunctionOnSet(L, S)
  BY <1>1, <1>2, <1>3, SumOfPairs
<1>6. SumFunction(F) \in Nat /\ SumFunction(H) \in Nat
  BY <1>1, SumTyped
<1>7. SumFunction(K) \in Nat
  BY <1>1, <1>2, SumTyped
<1>8. SumFunction(Weights(c)) \in Nat
  BY <1>1, SumTyped
<1>9. SumFunction(F) = SumFunction(G) + SumFunction(H) /\ SumFunction(G) = SumFunction(K) + SumFunction(L)
  BY <1>1, <1>2, <1>4, <1>5 DEF SumFunction
<1>10. NetOf(c) = SumFunction(G)
  BY DEF NetOf, G
<1>. QED  BY <1>2, <1>6, <1>7, <1>8, <1>9, <1>10 DEF F, G, H, K, L

\* A parcel charge is never below nothing.
LEMMA ParcelIs ==
    ASSUME NEW c \in Seq(CartLine), NEW s \in ShopRules
    PROVE  Parcel(c, s) \in Nat
<1>1. s.fee \in Nat /\ s.parcel \in {"off", "bill", "item"}
  BY DEF ShopRules
<1>2. NoOff \in Discount
  BY DEF NoOff, Discount
<1>3. SumFunction(Weights(c)) \in Nat
  BY <1>2, LinesAddUp
<1>. QED  BY <1>1, <1>3 DEF Parcel

\* The printed lines come to what was sold, and to the parcel charge they carry.
LEMMA ShownIs ==
    ASSUME NEW c \in Seq(CartLine), NEW s \in ShopRules
    PROVE  SumFunction(Shown(c, s)) = SumFunction(Gross(c)) + (IF InItems(c, s) THEN Parcel(c, s) ELSE 0)
<1>. DEFINE S == DOMAIN c
            total == IF InItems(c, s) THEN Parcel(c, s) ELSE 0
            F == Shown(c, s)  G == Gross(c)  H == Carried(c, s)  W == Weights(c)
<1>1. total \in Nat
  BY ParcelIs
<1>2. /\ IsFiniteSet(S) /\ S \subseteq Int /\ DOMAIN G = S /\ DOMAIN W = S
      /\ \A i \in S : G[i] \in Nat /\ W[i] \in Nat
  BY LinesAre
<1>3. H = Spread(total, W) /\ DOMAIN F = S /\ \A i \in S : F[i] = G[i] + H[i]
  BY DEF Carried, Shown
<1>4. SumFunction(W) = 0 => total = 0
  BY DEF InItems
<1>5. SumFunction(W) \in Nat
  <2>. HIDE DEF W
  <2>. QED  BY <1>2, SumTyped
<1>. HIDE DEF total, F, G, H, W
<1>6. DOMAIN H = S
  BY <1>2, <1>3 DEF Spread
<1>7. SumFunction(H) = total /\ \A i \in S : H[i] \in Int
  <2>1. CASE total = 0
    <3>1. \A i \in S : H[i] = 0
      BY <1>2, <1>3, <2>1 DEF Spread
    <3>2. SumFunction(H) = 0
      BY <1>2, <1>6, <3>1, SumOfZeros DEF SumFunction
    <3>. QED  BY <2>1, <3>1, <3>2
  <2>2. CASE total # 0
    <3>1. /\ IsFiniteSet(DOMAIN W) /\ DOMAIN W \subseteq Int /\ \A i \in DOMAIN W : W[i] \in Nat
          /\ SumFunction(W) # 0 /\ SumFunction(W) \in Nat \ {0} /\ total \in Nat \ {0}
      BY <1>1, <1>2, <1>4, <1>5, <2>2
    <3>2. SumFunction(Spread(total, W)) = total
      BY <1>1, <3>1, SharesAddUp
    <3>3. \A i \in DOMAIN W : Spread(total, W)[i] \in Int
      BY <3>1, SharesAreProportional
    <3>. QED  BY <1>2, <1>3, <3>2, <3>3
  <2>. QED  BY <2>1, <2>2
<1>8. \A i \in S : G[i] \in Int /\ H[i] \in Int /\ F[i] = G[i] + H[i]
  BY <1>2, <1>3, <1>7
<1>a. IsFiniteSet(S)
  BY <1>2
<1>. HIDE DEF S
<1>9. SumFunctionOnSet(F, S) = SumFunctionOnSet(G, S) + SumFunctionOnSet(H, S)
  BY <1>8, <1>a, SumOfPairs
<1>10. SumFunction(F) = SumFunction(G) + SumFunction(H)
  BY <1>2, <1>3, <1>6, <1>9 DEF SumFunction
<1>. QED  BY <1>7, <1>10 DEF F, G, H, total

\* The tax of a line or of a charge.
OutcomeRow == [spec : TaxSpec, taxable : Nat, tax : Nat, gross : Nat]

\* At no rate there is no tax, within the price or on top of it.
LEMMA RateNought ==
    ASSUME NEW net \in Nat
    PROVE  /\ Taxable(net, 0, TRUE) = net /\ Tax(net, 0, TRUE) = 0
           /\ Taxable(net, 0, FALSE) = net /\ Tax(net, 0, FALSE) = 0
<1>1. 10000 + 0 = 10000 /\ 10000 \div 2 = 5000
  OBVIOUS
<1>2. net * 10000 >= 0 /\ (net * 10000 + 5000) \div 10000 = net
  OBVIOUS
<1>3. net * 0 = 0 /\ (0 + 5000) \div 10000 = 0
  OBVIOUS
<1>4. MulRatio(net, 10000, 10000) = net
  BY <1>1, <1>2 DEF MulRatio
<1>5. MulRatio(net, 0, 10000) = 0
  BY <1>1, <1>3 DEF MulRatio
<1>6. Taxable(net, 0, TRUE) = net
  BY <1>1, <1>4 DEF Taxable
<1>. QED  BY <1>5, <1>6 DEF Taxable, Tax, Percent

\* A row of tax: what was sold and its tax, within the price or on top of it.
LEMMA OutcomeIs ==
    ASSUME NEW net \in Nat, NEW t \in TaxSpec, NEW regular \in BOOLEAN
    PROVE  /\ Outcome(net, t, regular) \in OutcomeRow
           /\ Outcome(net, t, regular).spec = t
           /\ Outcome(net, t, regular).gross = Outcome(net, t, regular).taxable + Outcome(net, t, regular).tax
           /\ Outcome(net, t, regular).gross = net + (IF t.inclusive THEN 0 ELSE Outcome(net, t, regular).tax)
           /\ t.kind \in {"exempt", "untaxed"} => Outcome(net, t, regular).tax = 0
<1>. DEFINE rate == Rate(t, regular)
            taxable == Taxable(net, rate, t.inclusive)
            tax == Tax(net, rate, t.inclusive)
<1>1. t.rate \in Nat /\ t.inclusive \in BOOLEAN
  BY DEF TaxSpec
<1>2. rate \in Nat /\ (t.kind \in {"exempt", "untaxed"} => rate = 0)
  BY <1>1 DEF Rate
<1>3. Outcome(net, t, regular) = [spec |-> t, taxable |-> taxable, tax |-> tax, gross |-> taxable + tax]
  BY DEF Outcome
<1>. HIDE DEF rate
<1>4. /\ taxable \in Nat /\ tax \in Nat
      /\ taxable + tax = net + (IF t.inclusive THEN 0 ELSE tax)
  <2>1. CASE t.inclusive = TRUE
    <3>1. /\ Taxable(net, rate, TRUE) + Tax(net, rate, TRUE) = net
          /\ Taxable(net, rate, TRUE) \in 0 .. net
          /\ Tax(net, rate, TRUE) \in 0 .. net
      BY <1>2, InclusiveTaxTies
    <3>2. taxable = Taxable(net, rate, TRUE) /\ tax = Tax(net, rate, TRUE)
      BY <2>1
    <3>. HIDE DEF taxable, tax
    <3>3. taxable \in 0 .. net /\ tax \in 0 .. net /\ taxable + tax = net
      BY <3>1, <3>2, Zenon
    <3>4. taxable \in Nat /\ tax \in Nat /\ net + 0 = net
      BY <3>3
    <3>. QED  BY <2>1, <3>3, <3>4
  <2>2. CASE t.inclusive = FALSE
    <3>1. taxable = net /\ tax = Percent(net, rate)
      BY <2>2 DEF Taxable, Tax
    <3>2. Percent(net, rate) \in Nat
      BY <1>2, PercentIsNat
    <3>. HIDE DEF taxable, tax
    <3>. QED  BY <2>2, <3>1, <3>2
  <2>. QED  BY <1>1, <2>1, <2>2
<1>5. t.kind \in {"exempt", "untaxed"} => tax = 0
  <2>1. ASSUME t.kind \in {"exempt", "untaxed"} PROVE tax = 0
    <3>1. rate = 0
      BY <1>2, <2>1
    <3>2. t.inclusive = TRUE \/ t.inclusive = FALSE
      BY <1>1
    <3>. QED  BY <3>1, <3>2, RateNought
  <2>. QED  BY <2>1
<1>. HIDE DEF taxable, tax
<1>6. taxable + tax \in Nat
  BY <1>4
<1>. QED  BY <1>3, <1>4, <1>5, <1>6 DEF OutcomeRow

\* What each tax row of a bill is worth.
GrossOf == [r \in OutcomeRow |-> r.gross]
AddedOf == [r \in OutcomeRow |-> IF r.spec.inclusive THEN 0 ELSE r.tax]
Sound == {r \in OutcomeRow : /\ r.gross = r.taxable + r.tax
                             /\ r.spec.kind \in {"exempt", "untaxed"} => r.tax = 0}
Ties(os, amount) ==
    /\ os \in Seq(OutcomeRow) /\ os \in Seq(Sound)
    /\ Tally(os, GrossOf) = amount + Tally(os, AddedOf)

\* What a row of tax is worth is an amount.
LEMMA TaxRowsTyped ==
    /\ GrossOf \in [OutcomeRow -> Nat] /\ AddedOf \in [OutcomeRow -> Nat]
    /\ GrossOf \in [OutcomeRow -> Int] /\ AddedOf \in [OutcomeRow -> Int]
BY DEF GrossOf, AddedOf, OutcomeRow

\* A charge that is made is a row of its own.
LEMMA ChargeTies ==
    ASSUME NEW s \in ShopRules, NEW amount \in Nat, NEW made \in BOOLEAN, ~made => amount = 0
    PROVE  Ties(Charge(amount, made, s), amount)
<1>. DEFINE r == Outcome(amount, s.chargeTax, s.regular)
<1>1. s.chargeTax \in TaxSpec /\ s.regular \in BOOLEAN
  BY DEF ShopRules
<1>2. r \in OutcomeRow /\ r \in Sound /\ GrossOf[r] = amount + AddedOf[r]
  <2>1. /\ r \in OutcomeRow /\ r.spec = s.chargeTax /\ r.gross = r.taxable + r.tax
        /\ r.gross = amount + (IF s.chargeTax.inclusive THEN 0 ELSE r.tax)
        /\ s.chargeTax.kind \in {"exempt", "untaxed"} => r.tax = 0
    BY <1>1, OutcomeIs
  <2>. HIDE DEF r
  <2>2. GrossOf[r] = r.gross /\ AddedOf[r] = IF r.spec.inclusive THEN 0 ELSE r.tax
    BY <2>1, Zenon DEF GrossOf, AddedOf
  <2>3. r \in Sound
    BY <2>1 DEF Sound
  <2>. QED  BY <2>1, <2>2, <2>3
<1>3. CASE made
  <2>1. Charge(amount, made, s) = <<r>>
    BY <1>3 DEF Charge
  <2>. HIDE DEF r
  <2>2. Tally(<<r>>, GrossOf) = GrossOf[r] /\ Tally(<<r>>, AddedOf) = AddedOf[r]
    BY <1>2, TaxRowsTyped, TallyOfOne
  <2>3. <<r>> \in Seq(OutcomeRow) /\ <<r>> \in Seq(Sound)
    BY <1>2
  <2>. QED  BY <1>2, <2>1, <2>2, <2>3 DEF Ties
<1>4. CASE ~made
  <2>1. Charge(amount, made, s) = <<>> /\ amount = 0
    BY <1>4 DEF Charge
  <2>2. Tally(<<>>, GrossOf) = 0 /\ Tally(<<>>, AddedOf) = 0
    BY TallyOfNone
  <2>. QED  BY <2>1, <2>2 DEF Ties
<1>. QED  BY <1>3, <1>4

\* Rows that tie, one after the other, tie.
LEMMA BothTie ==
    ASSUME NEW p, NEW q, NEW a \in Nat, NEW b \in Nat, Ties(p, a), Ties(q, b)
    PROVE  Ties(p \o q, a + b)
<1>1. /\ p \in Seq(OutcomeRow) /\ q \in Seq(OutcomeRow) /\ p \in Seq(Sound) /\ q \in Seq(Sound)
      /\ Tally(p, GrossOf) = a + Tally(p, AddedOf) /\ Tally(q, GrossOf) = b + Tally(q, AddedOf)
  BY DEF Ties
<1>2. /\ Tally(p \o q, GrossOf) = Tally(p, GrossOf) + Tally(q, GrossOf)
      /\ Tally(p \o q, AddedOf) = Tally(p, AddedOf) + Tally(q, AddedOf)
  BY <1>1, TaxRowsTyped, TallyOfBoth
<1>3. Tally(p, AddedOf) \in Int /\ Tally(q, AddedOf) \in Int
  BY <1>1, TaxRowsTyped, TallyIsInt
<1>4. p \o q \in Seq(OutcomeRow) /\ p \o q \in Seq(Sound)
  BY <1>1
<1>. PICK x \in Int : x = Tally(p, AddedOf)
  BY <1>3
<1>. PICK y \in Int : y = Tally(q, AddedOf)
  BY <1>3
<1>5. (a + x) + (b + y) = (a + b) + (x + y)
  OBVIOUS
<1>6. Tally(p \o q, GrossOf) = (a + b) + Tally(p \o q, AddedOf)
  BY <1>1, <1>2, <1>5, Zenon
<1>. QED  BY <1>4, <1>6 DEF Ties

\* The rows of the lines come to the lines and the tax that is added.
LEMMA LinesTie ==
    ASSUME NEW c \in Seq(CartLine), NEW net, DOMAIN net = DOMAIN c, \A i \in DOMAIN c : net[i] \in Nat,
           NEW s \in ShopRules
    PROVE  Ties([i \in DOMAIN c |-> Outcome(net[i], c[i].item.tax, s.regular)], SumFunction(net))
<1>. DEFINE S == DOMAIN c
            os == [i \in S |-> Outcome(net[i], c[i].item.tax, s.regular)]
            F == [i \in DOMAIN os |-> GrossOf[os[i]]]
            G == [i \in DOMAIN os |-> AddedOf[os[i]]]
<1>1. /\ IsFiniteSet(S) /\ S = 1 .. Len(c) /\ Len(c) \in Nat
      /\ \A i \in S : c[i] \in CartLine
  BY Places
<1>2. ASSUME NEW i \in S
      PROVE  os[i] \in OutcomeRow /\ os[i] \in Sound /\ GrossOf[os[i]] = net[i] + AddedOf[os[i]]
  <2>1. c[i].item.tax \in TaxSpec /\ s.regular \in BOOLEAN /\ net[i] \in Nat
    BY <1>1 DEF CartLine, ShopRules
  <2>. DEFINE r == Outcome(net[i], c[i].item.tax, s.regular)
  <2>2. os[i] = r
    OBVIOUS
  <2>3. r \in OutcomeRow /\ r \in Sound /\ GrossOf[r] = net[i] + AddedOf[r]
    BY <2>1, OutcomeIs DEF GrossOf, AddedOf, Sound
  <2>. HIDE DEF r, os
  <2>. QED  BY <2>2, <2>3
<1>3. DOMAIN os = S
  OBVIOUS
<1>. HIDE DEF os, S
<1>4. os \in Seq(OutcomeRow) /\ os \in Seq(Sound)
  <2>1. os = [i \in 1 .. Len(c) |-> os[i]]
    BY <1>1, <1>3 DEF os, S
  <2>. QED  BY <1>1, <1>2, <2>1
<1>5. \A i \in S : F[i] \in Int /\ G[i] \in Int /\ net[i] \in Int /\ F[i] = net[i] + G[i]
  BY <1>2, <1>3, TaxRowsTyped DEF S
<1>6. DOMAIN F = S /\ DOMAIN G = S /\ DOMAIN net = S
  BY <1>3 DEF S
<1>7. Tally(os, GrossOf) = SumFunction(F) /\ Tally(os, AddedOf) = SumFunction(G)
  BY DEF Tally
<1>a. IsFiniteSet(S)
  BY <1>1
<1>. HIDE DEF F, G
<1>8. SumFunctionOnSet(F, S) = SumFunctionOnSet(net, S) + SumFunctionOnSet(G, S)
  BY <1>5, <1>a, SumOfPairs
<1>9. Tally(os, GrossOf) = SumFunction(net) + Tally(os, AddedOf)
  BY <1>6, <1>7, <1>8 DEF SumFunction
<1>10. Ties(os, SumFunction(net))
  BY <1>4, <1>9 DEF Ties
<1>. QED  BY <1>10 DEF os, S

\* The bill is what the lines come to, the charges and the tax that is added.
LEMMA OutcomesTie ==
    ASSUME NEW c \in Seq(CartLine), NEW o \in Discount, NEW s \in ShopRules
    PROVE  /\ Service(Net(c, o), s) \in Nat
           /\ Ties(Outcomes(c, Net(c, o), s), SumFunction(Net(c, o)) + Service(Net(c, o), s) + Parcel(c, s))
<1>. DEFINE net == Net(c, o)
            lines == [i \in DOMAIN c |-> Outcome(net[i], c[i].item.tax, s.regular)]
            all == SumFunction(net)
            service == Service(net, s)
            parcel == Parcel(c, s)
            first == Charge(service, s.service > 0, s)
            second == Charge(parcel, parcel # 0, s)
<1>1. DOMAIN net = DOMAIN c /\ \A i \in DOMAIN c : net[i] \in Nat
  BY SharesAre
<1>2. all \in Nat /\ s.service \in Nat /\ parcel \in Nat
  BY LinesAddUp, ParcelIs DEF ShopRules
<1>3. service \in Nat /\ (~(s.service > 0) => service = 0)
  <2>1. Percent(all, s.service) \in Nat
    <3>. HIDE DEF all
    <3>. QED  BY <1>2, PercentIsNat
  <2>. QED  BY <2>1 DEF Service
<1>4. Outcomes(c, net, s) = (lines \o first) \o second
  BY DEF Outcomes
<1>. HIDE DEF net, service, parcel
<1>5. Ties(lines, all)
  <2>. HIDE DEF lines, all
  <2>. QED  BY <1>1, LinesTie DEF lines, all
<1>6. Ties(first, service)
  <2>. DEFINE made == s.service > 0
  <2>1. made \in BOOLEAN /\ (~made => service = 0)
    BY <1>3
  <2>. HIDE DEF made
  <2>2. Ties(Charge(service, made, s), service)
    BY <1>3, <2>1, ChargeTies
  <2>. QED  BY <2>2 DEF made
<1>7. Ties(second, parcel)
  BY <1>2, ChargeTies
<1>. HIDE DEF lines, first, second, all
<1>8. Ties(lines \o first, all + service)
  BY <1>2, <1>3, <1>5, <1>6, BothTie
<1>9. all + service \in Nat
  BY <1>2, <1>3
<1>10. Ties((lines \o first) \o second, (all + service) + parcel)
  <2>. DEFINE front == lines \o first
              sum == all + service
  <2>1. Ties(front, sum) /\ sum \in Nat
    BY <1>8, <1>9
  <2>. HIDE DEF front, sum
  <2>2. Ties(front \o second, sum + parcel)
    BY <1>2, <1>7, <2>1, BothTie
  <2>. QED  BY <2>2 DEF front, sum
<1>. QED  BY <1>3, <1>4, <1>10 DEF net, all, service, parcel

\* The sums of a bill's rows.
LEMMA SumsOfRows ==
    ASSUME NEW os \in Seq(OutcomeRow)
    PROVE  /\ Added(os) = Tally(os, AddedOf) /\ Added(os) \in Nat
           /\ SumFunction([i \in DOMAIN os |-> os[i].gross]) = Tally(os, GrossOf)
           /\ SumFunction([i \in DOMAIN os |-> os[i].gross]) \in Nat
<1>1. \A i \in DOMAIN os : os[i] \in OutcomeRow
  BY Places
<1>2. [i \in DOMAIN os |-> os[i].gross] = [i \in DOMAIN os |-> GrossOf[os[i]]]
  BY <1>1 DEF GrossOf
<1>3. [i \in DOMAIN os |-> IF os[i].spec.inclusive THEN 0 ELSE os[i].tax] = [i \in DOMAIN os |-> AddedOf[os[i]]]
  BY <1>1 DEF AddedOf
<1>4. SumFunction([i \in DOMAIN os |-> os[i].gross]) = Tally(os, GrossOf)
  BY <1>2, Zenon DEF Tally
<1>5. Added(os) = Tally(os, AddedOf)
  BY <1>3, Zenon DEF Tally, Added
<1>6. Tally(os, GrossOf) \in Nat /\ Tally(os, AddedOf) \in Nat
  BY TaxRowsTyped, TallyIsNat
<1>. QED  BY <1>4, <1>5, <1>6

\* The rows of one kind of tax, added up rate by rate.
Grosses(os) == [i \in DOMAIN os |-> os[i].gross]

\* Rate by rate or row by row, one kind of tax comes to the same.
LEMMA RowsTotalIs ==
    ASSUME NEW os \in Seq(Sound), NEW kind
    PROVE  RowsTotal(os, kind) = SumFunctionOnSet(Grosses(os), OfKind(os, kind))
<1>. DEFINE S == OfKind(os, kind)
            label == [i \in S |-> os[i].spec.rate]
            group(l) == {i \in S : os[i].spec.rate = l}
            first == [i \in DOMAIN os |-> FirstHalf(os[i].tax)]
            second == [i \in DOMAIN os |-> SecondHalf(os[i].tax)]
            T == Taxables(os)
            G == Grosses(os)
            row(l) == RateRow(os, group(l))
            g == [l \in Rates(os, kind) |-> row(l).taxable + row(l).first + row(l).second]
<1>1. IsFiniteSet(S) /\ S \subseteq DOMAIN os
  <2>1. IsFiniteSet(DOMAIN os) /\ S \subseteq DOMAIN os
    BY Places DEF OfKind
  <2>. HIDE DEF S
  <2>. QED  BY <2>1, FS_Subset
<1>2. ASSUME NEW i \in DOMAIN os
      PROVE  /\ T[i] \in Int /\ first[i] \in Int /\ second[i] \in Int /\ G[i] \in Int
             /\ G[i] = (T[i] + first[i]) + second[i]
  <2>1. os[i] \in Sound
    BY Places
  <2>2. os[i].taxable \in Nat /\ os[i].tax \in Nat /\ os[i].gross = os[i].taxable + os[i].tax
    BY <2>1 DEF Sound, OutcomeRow
  <2>. PICK a \in Nat : a = os[i].tax
    BY <2>2
  <2>. PICK b \in Nat : b = os[i].taxable
    BY <2>2
  <2>3. FirstHalf(a) \in Nat
    <3>1. 1 \in Nat /\ 2 \in Nat \ {0}
      OBVIOUS
    <3>. QED  BY <3>1, RatioTyped DEF FirstHalf
  <2>4. SecondHalf(a) = a - FirstHalf(a)
    BY DEF SecondHalf
  <2>5. FirstHalf(a) \in Int /\ SecondHalf(a) \in Int /\ b + a = (b + FirstHalf(a)) + SecondHalf(a)
    BY <2>3, <2>4
  <2>6. T[i] = b /\ first[i] = FirstHalf(a) /\ second[i] = SecondHalf(a) /\ G[i] = b + a
    BY <2>2 DEF Taxables, Grosses
  <2>. HIDE DEF T, first, second, G
  <2>. QED  BY <2>5, <2>6
<1>3. \A l \in Rates(os, kind) : g[l] = SumFunctionOnSet(T, group(l)) + SumFunctionOnSet(first, group(l))
                                          + SumFunctionOnSet(second, group(l))
  BY DEF RateRow
<1>4. Rates(os, kind) = {label[x] : x \in S}
  BY DEF Rates
<1>5. \A l : {x \in S : label[x] = l} = group(l)
  OBVIOUS
<1>6. RowsTotal(os, kind) = SumFunctionOnSet(g, Rates(os, kind))
  BY Zenon DEF RowsTotal, SumFunction
<1>. HIDE DEF T, G, first, second, g, row
<1>7. ASSUME NEW l PROVE SumFunctionOnSet(G, group(l)) = SumFunctionOnSet(T, group(l)) + SumFunctionOnSet(first, group(l))
                                          + SumFunctionOnSet(second, group(l))
  <2>. DEFINE E == group(l)
              both == [i \in DOMAIN os |-> T[i] + first[i]]
  <2>1. IsFiniteSet(E) /\ E \subseteq DOMAIN os
    BY <1>1, FS_Subset
  <2>2. \A i \in DOMAIN os : both[i] = T[i] + first[i]
    OBVIOUS
  <2>. HIDE DEF E, both
  <2>3. \A i \in E : T[i] \in Int /\ first[i] \in Int /\ both[i] = T[i] + first[i]
    BY <1>2, <2>1, <2>2
  <2>4. \A i \in E : both[i] \in Int /\ second[i] \in Int /\ G[i] = both[i] + second[i]
    BY <1>2, <2>1, <2>2
  <2>5. SumFunctionOnSet(both, E) = SumFunctionOnSet(T, E) + SumFunctionOnSet(first, E)
    BY <2>1, <2>3, SumOfPairs
  <2>6. SumFunctionOnSet(G, E) = SumFunctionOnSet(both, E) + SumFunctionOnSet(second, E)
    BY <2>1, <2>4, SumOfPairs
  <2>. QED  BY <2>5, <2>6 DEF E
<1>. HIDE DEF group
<1>8. ASSUME NEW l \in {label[x] : x \in S} PROVE g[l] = SumFunctionOnSet(G, {x \in S : label[x] = l})
  <2>1. g[l] = SumFunctionOnSet(G, group(l))
    <3>1. l \in Rates(os, kind)
      BY <1>4
    <3>. QED  BY <1>3, <1>7, <3>1
  <2>2. {x \in S : label[x] = l} = group(l)
    BY <1>5
  <2>. QED  BY <2>1, <2>2, Zenon
<1>9. \A x \in S : G[x] \in Int
  BY <1>1, <1>2
<1>a. IsFiniteSet(S)
  BY <1>1
<1>b. Groups(g, G, label, S, Rates(os, kind))
  BY <1>4, <1>8 DEF Groups
<1>. HIDE DEF label, S
<1>10. SumFunctionOnSet(g, Rates(os, kind)) = SumFunctionOnSet(G, S)
  BY <1>9, <1>a, <1>b, SumByLabel
<1>. QED  BY <1>6, <1>10 DEF G, S

\* What has no tax is worth what it was sold for.
LEMMA ValueIs ==
    ASSUME NEW os \in Seq(Sound), NEW kind \in {"exempt", "untaxed"}
    PROVE  ValueOf(os, kind) = SumFunctionOnSet(Grosses(os), OfKind(os, kind))
<1>. DEFINE S == OfKind(os, kind)
<1>1. IsFiniteSet(S) /\ S \subseteq DOMAIN os
  <2>1. IsFiniteSet(DOMAIN os) /\ S \subseteq DOMAIN os
    BY Places DEF OfKind
  <2>. HIDE DEF S
  <2>. QED  BY <2>1, FS_Subset
<1>2. ASSUME NEW i \in S PROVE Taxables(os)[i] = Grosses(os)[i]
  <2>1. os[i] \in Sound /\ os[i].spec.kind = kind /\ i \in DOMAIN os
    BY <1>1, Places DEF OfKind
  <2>2. os[i].taxable \in Nat /\ os[i].gross = os[i].taxable + os[i].tax /\ os[i].tax = 0
    BY <2>1 DEF Sound, OutcomeRow
  <2>3. os[i].gross = os[i].taxable
    BY <2>2
  <2>. QED  BY <2>1, <2>3 DEF Taxables, Grosses
<1>. HIDE DEF S
<1>3. SumFunctionOnSet(Taxables(os), S) = SumFunctionOnSet(Grosses(os), S)
  BY <1>1, <1>2, SumOfSame
<1>. QED  BY <1>3 DEF ValueOf, S

\* Every row is of one kind, and only of one.
LEMMA RowsHoldAll ==
    ASSUME NEW os \in Seq(Sound), os \in Seq(OutcomeRow)
    PROVE  RowsTotal(os, "gst") + RowsTotal(os, "outside") + ValueOf(os, "exempt") + ValueOf(os, "untaxed")
             = Tally(os, GrossOf)
<1>. DEFINE a == OfKind(os, "gst")
            b == OfKind(os, "outside")
            c == OfKind(os, "exempt")
            d == OfKind(os, "untaxed")
            G == Grosses(os)
            S == DOMAIN os
            sum(s) == SumFunctionOnSet(G, s)
<1>1. IsFiniteSet(S) /\ \A i \in S : os[i] \in OutcomeRow
  BY Places
<1>2. \A i \in S : os[i].spec.kind \in {"gst", "outside", "exempt", "untaxed"} /\ os[i].gross \in Nat
  BY <1>1 DEF OutcomeRow, TaxSpec
<1>3. /\ a \cup b \cup c \cup d = S
      /\ a \cap b = {} /\ (a \cup b) \cap c = {} /\ (a \cup b \cup c) \cap d = {}
  BY <1>2 DEF OfKind
<1>4. \A i \in S : G[i] \in Int
  BY <1>2 DEF Grosses
<1>5. DOMAIN G = S /\ Tally(os, GrossOf) = SumFunction(G)
  <2>1. G = [i \in S |-> GrossOf[os[i]]]
    BY <1>1 DEF Grosses, GrossOf
  <2>. HIDE DEF G
  <2>. QED  BY <2>1 DEF Tally
<1>. HIDE DEF a, b, c, d, G
<1>6. IsFiniteSet(a) /\ IsFiniteSet(b) /\ IsFiniteSet(c) /\ IsFiniteSet(d)
  <2>1. a \subseteq S /\ b \subseteq S /\ c \subseteq S /\ d \subseteq S
    BY <1>3
  <2>. QED  BY <1>1, <2>1, FS_Subset
<1>7. IsFiniteSet(a \cup b) /\ IsFiniteSet(a \cup b \cup c)
  BY <1>6, FS_Union
<1>8. sum(a \cup b) = sum(a) + sum(b)
  <2>1. \A x \in a \cup b : G[x] \in Int
    BY <1>3, <1>4
  <2>. QED  BY <1>3, <1>6, <2>1, SumOfBoth
<1>9. sum((a \cup b) \cup c) = sum(a \cup b) + sum(c)
  <2>1. \A x \in (a \cup b) \cup c : G[x] \in Int
    BY <1>3, <1>4
  <2>. QED  BY <1>3, <1>6, <1>7, <2>1, SumOfBoth
<1>10. sum((a \cup b \cup c) \cup d) = sum(a \cup b \cup c) + sum(d)
  <2>1. \A x \in (a \cup b \cup c) \cup d : G[x] \in Int
    BY <1>3, <1>4
  <2>. QED  BY <1>3, <1>6, <1>7, <2>1, SumOfBoth
<1>11. /\ RowsTotal(os, "gst") = sum(a) /\ RowsTotal(os, "outside") = sum(b)
       /\ ValueOf(os, "exempt") = sum(c) /\ ValueOf(os, "untaxed") = sum(d)
  BY RowsTotalIs, ValueIs DEF a, b, c, d, G
<1>12. Tally(os, GrossOf) = sum(S)
  BY <1>5 DEF SumFunction
<1>. HIDE DEF sum
<1>13. sum(S) = sum(a) + sum(b) + sum(c) + sum(d)
  BY <1>3, <1>8, <1>9, <1>10, Zenon
<1>. QED  BY <1>11, <1>12, <1>13

\* A rounded total of nothing below nothing is not below nothing.
LEMMA RoundedIsNat ==
    ASSUME NEW a \in Nat, NEW mode \in Modes
    PROVE  a + RoundOff(a, mode) \in Nat /\ RoundOff(a, mode) \in Int
<1>. DEFINE r == a % 100
<1>1. r \in Nat /\ r <= a /\ r < 100
  OBVIOUS
<1>2. RoundOff(a, mode) = 0 \/ RoundOff(a, mode) = 0 - r \/ RoundOff(a, mode) = 100 - r
  <2>1. a >= 0 => ToNearest(a) = 100 - r \/ ToNearest(a) = 0 - r
    BY DEF ToNearest
  <2>. QED  BY <2>1 DEF RoundOff, Modes
<1>. HIDE DEF r
<1>. QED  BY <1>1, <1>2

\* A bill is due what its lines, charges and added tax are, and is rounded once.
LEMMA BillIs ==
    ASSUME NEW c \in Seq(CartLine), NEW o \in Discount, NEW s \in ShopRules
    PROVE  \E due \in Nat :
             /\ BillOf(c, o, s).net = Net(c, o)
             /\ BillOf(c, o, s).outcomes \in Seq(Sound) /\ BillOf(c, o, s).outcomes \in Seq(OutcomeRow)
             /\ BillOf(c, o, s).charges = Service(Net(c, o), s) + Parcel(c, s)
             /\ Tally(BillOf(c, o, s).outcomes, GrossOf) = due
             /\ due = (SumFunction(Net(c, o)) + Service(Net(c, o), s) + Parcel(c, s)) + Added(BillOf(c, o, s).outcomes)
             /\ BillOf(c, o, s).roundOff = RoundOff(due, s.rounding)
             /\ BillOf(c, o, s).grand = due + RoundOff(due, s.rounding)
             /\ BillOf(c, o, s).grand \in Nat
<1>. DEFINE net == Net(c, o)
            os == Outcomes(c, net, s)
            charges == Service(net, s) + Parcel(c, s)
            due == SumFunction([i \in DOMAIN os |-> os[i].gross])
<1>1. BillOf(c, o, s) = [net |-> net, outcomes |-> os, charges |-> charges,
                         roundOff |-> RoundOff(due, s.rounding), grand |-> due + RoundOff(due, s.rounding)]
  BY Zenon DEF BillOf, Figures, Taxed, Totalled
<1>2. Ties(os, SumFunction(net) + Service(net, s) + Parcel(c, s))
  BY OutcomesTie
<1>. HIDE DEF os
<1>3. /\ os \in Seq(Sound) /\ os \in Seq(OutcomeRow)
      /\ Tally(os, GrossOf) = (SumFunction(net) + Service(net, s) + Parcel(c, s)) + Tally(os, AddedOf)
  BY <1>2 DEF Ties
<1>4. Added(os) = Tally(os, AddedOf) /\ due = Tally(os, GrossOf) /\ due \in Nat
  BY <1>3, SumsOfRows
<1>5. s.rounding \in Modes
  BY DEF ShopRules
<1>. HIDE DEF due, net, charges
<1>6. due + RoundOff(due, s.rounding) \in Nat
  BY <1>4, <1>5, RoundedIsNat
<1>7. due = (SumFunction(net) + Service(net, s) + Parcel(c, s)) + Added(os)
  BY <1>3, <1>4
<1>8. /\ BillOf(c, o, s).net = net /\ BillOf(c, o, s).outcomes = os /\ BillOf(c, o, s).charges = charges
      /\ BillOf(c, o, s).roundOff = RoundOff(due, s.rounding)
      /\ BillOf(c, o, s).grand = due + RoundOff(due, s.rounding)
  BY <1>1
<1>9. charges = Service(net, s) + Parcel(c, s)
  BY DEF charges
<1>. QED  BY <1>3, <1>4, <1>6, <1>7, <1>8, <1>9 DEF net

\* The bill of any lines at any discount adds up.
LEMMA BillAddsUp ==
    ASSUME NEW c \in Seq(CartLine), NEW o \in Discount, shop \in ShopRules
    PROVE  BillAdds(c, o, BillOf(c, o, shop)) /\ BillOf(c, o, shop).grand \in Nat
<1>. DEFINE b == BillOf(c, o, shop)
            service == Service(Net(c, o), shop)
            parcel == Parcel(c, shop)
            gross == SumFunction(Gross(c))
            lineOff == SumFunction(LineOff(c))
            given == Given(c, o)
            net == SumFunction(Net(c, o))
            carried == IF InItems(c, shop) THEN parcel ELSE 0
<1>1. PICK due \in Nat :
             /\ b.net = Net(c, o)
             /\ b.outcomes \in Seq(Sound) /\ b.outcomes \in Seq(OutcomeRow)
             /\ b.charges = service + parcel
             /\ Tally(b.outcomes, GrossOf) = due
             /\ due = (net + service + parcel) + Added(b.outcomes)
             /\ b.roundOff = RoundOff(due, shop.rounding)
             /\ b.grand = due + RoundOff(due, shop.rounding)
             /\ b.grand \in Nat
  BY BillIs
<1>2. SumFunction(Shares(c, o)) = given /\ \A i \in DOMAIN c : Shares(c, o)[i] >= 0 /\ b.net[i] >= 0
  BY <1>1, SharesAre
<1>3. /\ gross = NetOf(c) + lineOff /\ NetOf(c) = net + given
      /\ gross \in Nat /\ lineOff \in Nat /\ net \in Nat /\ given \in Int /\ NetOf(c) \in Nat
  BY LinesAddUp, SharesAre
<1>4. service \in Nat /\ parcel \in Nat
  BY OutcomesTie, ParcelIs
<1>5. Added(b.outcomes) \in Nat
  BY <1>1, SumsOfRows
<1>6. SumFunction(Shown(c, shop)) = gross + carried
  BY ShownIs
<1>7. ShownCharges(c, b, shop) = (service + parcel) - carried
  BY <1>1 DEF ShownCharges
<1>8. shop.rounding \in Modes
  BY DEF ShopRules
<1>9. RoundOff(due, shop.rounding) \in Int
  BY <1>8, RoundedIsNat
<1>10. RowsTotal(b.outcomes, "gst") + RowsTotal(b.outcomes, "outside")
         + ValueOf(b.outcomes, "exempt") + ValueOf(b.outcomes, "untaxed") = due
  BY <1>1, RowsHoldAll
<1>. HIDE DEF b, service, parcel, gross, lineOff, given, net, carried
<1>11. b.grand = SumFunction(Shown(c, shop)) - lineOff - given
                   + ShownCharges(c, b, shop) + Added(b.outcomes) + b.roundOff
  <2>. PICK n \in Nat : n = net
    BY <1>3
  <2>. PICK l \in Nat : l = lineOff
    BY <1>3
  <2>. PICK g \in Int : g = given
    BY <1>3
  <2>. PICK v \in Nat : v = service
    BY <1>4
  <2>. PICK p \in Nat : p = parcel
    BY <1>4
  <2>. PICK a \in Nat : a = Added(b.outcomes)
    BY <1>5
  <2>. PICK r \in Int : r = RoundOff(due, shop.rounding)
    BY <1>9
  <2>. PICK w \in Nat : w = carried
    BY <1>4 DEF carried
  <2>1. gross = (n + g) + l /\ due = (n + v + p) + a
    BY <1>1, <1>3
  <2>2. SumFunction(Shown(c, shop)) = ((n + g) + l) + w
    BY <1>6, <2>1
  <2>3. ((n + v + p) + a) + r = (((n + g) + l) + w) - l - g + ((v + p) - w) + a + r
    OBVIOUS
  <2>4. b.grand = ((n + v + p) + a) + r
    BY <1>1, <2>1
  <2>. QED  BY <1>1, <1>7, <2>2, <2>3, <2>4
<1>12. b.grand = RowsTotal(b.outcomes, "gst") + RowsTotal(b.outcomes, "outside")
                   + ValueOf(b.outcomes, "exempt") + ValueOf(b.outcomes, "untaxed") + b.roundOff
  BY <1>1, <1>10
<1>13. shop.rounding # "none" => b.grand % 100 = 0 /\ b.roundOff \in -99..99
  BY <1>1, <1>8, RoundsToRupees
<1>14. BillAdds(c, o, b)
  BY <1>2, <1>11, <1>12, <1>13 DEF BillAdds, lineOff, given
<1>. QED  BY <1>1, <1>14 DEF b

----------------------------------------------------------------------------
(* The cart, and its split. *)

\* A line put on a bill is a line of it, alone or with another.
LEMMA JoinedTyped ==
    ASSUME NEW c \in Seq(CartLine), NEW l \in CartLine, NEW same
    PROVE  Joined(c, l, same) \in Seq(CartLine)
<1>1. Append(c, l) \in Seq(CartLine)
  OBVIOUS
<1>. DEFINE k == Min(same)
            joined == [c EXCEPT ![k].qty = @ + l.qty]
<1>2. joined \in Seq(CartLine)
  <2>1. CASE k \in DOMAIN c
    <3>. DEFINE line == [c[k] EXCEPT !.qty = c[k].qty + l.qty]
    <3>1. c[k] \in CartLine
      BY <2>1, Places
    <3>2. c[k].qty + l.qty \in Nat \ {0}
      BY <3>1 DEF CartLine
    <3>3. line \in CartLine
      BY <3>1, <3>2 DEF CartLine
    <3>4. joined = [c EXCEPT ![k] = line]
      OBVIOUS
    <3>. HIDE DEF line, k
    <3>5. [c EXCEPT ![k] = line] \in Seq(CartLine)
      BY <2>1, <3>3
    <3>. QED  BY <3>4, <3>5
  <2>2. CASE k \notin DOMAIN c
    <3>. HIDE DEF k
    <3>1. joined = c
      BY <2>2
    <3>. QED  BY <3>1
  <2>. QED  BY <2>1, <2>2
<1>. HIDE DEF joined
<1>. QED  BY <1>1, <1>2 DEF Joined, joined

\* A line in two parts: its flat discount is in them exactly once.
FlatOf == [l \in CartLine |-> IF l.off.kind = "amount" THEN l.off.of ELSE 0]

\* The flat discount of a line is an amount.
LEMMA FlatTyped == FlatOf \in [CartLine -> Int]
BY DEF FlatOf, CartLine, Discount

\* A part of a line has its share of a flat discount, and any other as it is.
LEMMA PortionIs ==
    ASSUME NEW l \in CartLine, NEW q, NEW share \in Nat
    PROVE  /\ Portion(l, q, share) \in Discount
           /\ Portion(l, q, share).kind = l.off.kind
           /\ Portion(l, q, share).of = IF IsShared(l, q) THEN share ELSE l.off.of
<1>1. l.off \in Discount
  BY DEF CartLine
<1>. PICK d \in Discount : d = l.off
  BY <1>1
<1>2. [d EXCEPT !.of = share] \in Discount /\ [d EXCEPT !.of = share].kind = d.kind /\ [d EXCEPT !.of = share].of = share
  BY DEF Discount
<1>. QED  BY <1>2 DEF Portion

\* A line in two parts: its flat discount is in them exactly once.
LEMMA LineInTwo ==
    ASSUME NEW l \in CartLine, NEW q \in Nat \ {0}, q <= l.qty
    PROVE  /\ Leaving(l, q) \in CartLine
           /\ q = l.qty => FlatOf[Leaving(l, q)] = FlatOf[l]
           /\ q # l.qty => /\ Staying(l, q) \in CartLine
                           /\ FlatOf[Staying(l, q)] + FlatOf[Leaving(l, q)] = FlatOf[l]
<1>1. l.qty \in Nat \ {0} /\ l.off \in Discount /\ l.off.of \in Nat
  BY DEF CartLine, Discount
<1>. DEFINE go == LeavingShare(l.off.of, q, l.qty)
            stay == StayingShare(l.off.of, q, l.qty)
<1>2. go \in Nat /\ stay \in Nat /\ go + stay = l.off.of
  <2>. PICK n \in Nat \ {0} : n = l.qty
    BY <1>1
  <2>. PICK a \in Nat : a = l.off.of
    BY <1>1
  <2>1. q \in 0 .. n
    OBVIOUS
  <2>2. LeavingShare(a, q, n) + StayingShare(a, q, n) = a
        /\ LeavingShare(a, q, n) \in 0 .. a /\ StayingShare(a, q, n) \in 0 .. a
    BY <2>1, SharesOfALine
  <2>3. LeavingShare(a, q, n) \in Nat /\ StayingShare(a, q, n) \in Nat
    BY <2>2
  <2>. QED  BY <2>2, <2>3
<1>3. Leaving(l, q) = [l EXCEPT !.qty = q, !.off = Portion(l, q, go)]
  BY DEF Leaving
<1>4. Staying(l, q) = [l EXCEPT !.qty = l.qty - q, !.off = Portion(l, q, stay)]
  BY DEF Staying
<1>. HIDE DEF go, stay
<1>5. /\ Portion(l, q, go) \in Discount /\ Portion(l, q, go).kind = l.off.kind
      /\ Portion(l, q, go).of = IF IsShared(l, q) THEN go ELSE l.off.of
  BY <1>2, PortionIs
<1>6. /\ Portion(l, q, stay) \in Discount /\ Portion(l, q, stay).kind = l.off.kind
      /\ Portion(l, q, stay).of = IF IsShared(l, q) THEN stay ELSE l.off.of
  BY <1>2, PortionIs
<1>7. Leaving(l, q) \in CartLine /\ Leaving(l, q).off = Portion(l, q, go)
  BY <1>3, <1>5 DEF CartLine
<1>8. FlatOf[Leaving(l, q)] = IF l.off.kind = "amount" THEN Portion(l, q, go).of ELSE 0
  BY <1>5, <1>7 DEF FlatOf
<1>9. FlatOf[l] = IF l.off.kind = "amount" THEN l.off.of ELSE 0
  BY DEF FlatOf
<1>10. ASSUME q = l.qty PROVE FlatOf[Leaving(l, q)] = FlatOf[l]
  <2>1. ~IsShared(l, q)
    BY <1>1, <1>10 DEF IsShared
  <2>. QED  BY <1>5, <1>8, <1>9, <2>1
<1>11. ASSUME q # l.qty
       PROVE  /\ Staying(l, q) \in CartLine
              /\ FlatOf[Staying(l, q)] + FlatOf[Leaving(l, q)] = FlatOf[l]
  <2>1. l.qty - q \in Nat \ {0} /\ q < l.qty
    BY <1>1, <1>11
  <2>2. Staying(l, q) \in CartLine /\ Staying(l, q).off = Portion(l, q, stay)
    BY <1>4, <1>6, <2>1 DEF CartLine
  <2>3. FlatOf[Staying(l, q)] = IF l.off.kind = "amount" THEN Portion(l, q, stay).of ELSE 0
    BY <1>6, <2>2 DEF FlatOf
  <2>4. l.off.kind = "amount" <=> IsShared(l, q)
    BY <2>1 DEF IsShared
  <2>5. stay + go = l.off.of /\ 0 + 0 = 0
    BY <1>2
  <2>. QED  BY <1>5, <1>6, <1>8, <1>9, <2>2, <2>3, <2>4, <2>5
<1>. QED  BY <1>7, <1>10, <1>11

\* A cart in two parts: its flat discounts are in them exactly once.
LEMMA CartInTwo ==
    ASSUME NEW c \in Seq(CartLine), NEW i \in DOMAIN c, NEW q \in Nat \ {0}, q <= c[i].qty
    PROVE  /\ Kept(c, i, q) \in Seq(CartLine) /\ <<Leaving(c[i], q)>> \in Seq(CartLine)
           /\ Tally(Kept(c, i, q), FlatOf) + Tally(<<Leaving(c[i], q)>>, FlatOf) = Tally(c, FlatOf)
<1>1. c[i] \in CartLine
  BY Places
<1>. DEFINE l == c[i]  go == Leaving(l, q)  stay == Staying(l, q)
<1>2. /\ go \in CartLine
      /\ q = l.qty => FlatOf[go] = FlatOf[l]
      /\ q # l.qty => stay \in CartLine /\ FlatOf[stay] + FlatOf[go] = FlatOf[l]
  BY <1>1, LineInTwo
<1>. HIDE DEF go, stay
<1>3. <<go>> \in Seq(CartLine) /\ Tally(<<go>>, FlatOf) = FlatOf[go]
  BY <1>2, FlatTyped, TallyOfOne
<1>4. Tally(c, FlatOf) \in Int /\ FlatOf[go] \in Int /\ FlatOf[l] \in Int
  BY <1>1, <1>2, FlatTyped, TallyIsInt
<1>5. CASE q = l.qty
  <2>1. Kept(c, i, q) = RemoveAt(c, i)
    BY <1>5 DEF Kept
  <2>2. RemoveAt(c, i) \in Seq(CartLine) /\ Tally(RemoveAt(c, i), FlatOf) = Tally(c, FlatOf) - FlatOf[l]
    BY FlatTyped, TallyOfRemoved
  <2>3. Tally(c, FlatOf) - FlatOf[l] + FlatOf[go] = Tally(c, FlatOf)
    <3>. PICK x \in Int : x = Tally(c, FlatOf)
      BY <1>4
    <3>. PICK z \in Int : z = FlatOf[go]
      BY <1>4
    <3>1. FlatOf[l] = z /\ (x - z) + z = x
      BY <1>2, <1>5
    <3>. QED  BY <3>1, Zenon
  <2>. QED  BY <1>3, <2>1, <2>2, <2>3, Zenon DEF go
<1>6. CASE q # l.qty
  <2>1. Kept(c, i, q) = [c EXCEPT ![i] = stay]
    BY <1>6 DEF Kept, stay
  <2>a. stay \in CartLine
    BY <1>2, <1>6
  <2>2. /\ [c EXCEPT ![i] = stay] \in Seq(CartLine)
        /\ Tally([c EXCEPT ![i] = stay], FlatOf) = Tally(c, FlatOf) - FlatOf[l] + FlatOf[stay]
    BY <2>a, FlatTyped, TallyOfReplaced
  <2>3. FlatOf[stay] \in Int
    BY <1>2, <1>6, FlatTyped
  <2>4. (Tally(c, FlatOf) - FlatOf[l] + FlatOf[stay]) + FlatOf[go] = Tally(c, FlatOf)
    <3>. PICK x \in Int : x = Tally(c, FlatOf)
      BY <1>4
    <3>. PICK y \in Int : y = FlatOf[stay]
      BY <2>3
    <3>. PICK z \in Int : z = FlatOf[go]
      BY <1>4
    <3>1. FlatOf[l] = y + z
      BY <1>2, <1>6
    <3>2. ((x - (y + z)) + y) + z = x
      OBVIOUS
    <3>. QED  BY <3>1, <3>2, Zenon
  <2>. QED  BY <1>3, <2>1, <2>2, <2>4, Zenon DEF go
<1>. QED  BY <1>5, <1>6 DEF go

\* The two parts of a split are finitely many.
LEMMA TwoAreFinite == IsFiniteSet({1, 2}) /\ IsFiniteSet({2})
BY FS_EmptySet, FS_AddElement

\* The two parts of a split, added up.
LEMMA SumOfTwo ==
    ASSUME NEW f, DOMAIN f = {1, 2}, f[1] \in Int, f[2] \in Int
    PROVE  SumFunction(f) = f[1] + f[2]
<1>1. IsFiniteSet({1, 2}) /\ IsFiniteSet({2})
  BY TwoAreFinite
<1>2. {1, 2} \ {1} = {2} /\ {2} \ {2} = {} /\ \A x \in {1, 2} : f[x] \in Int
  OBVIOUS
<1>3. SumFunctionOnSet(f, {1, 2}) = f[1] + SumFunctionOnSet(f, {1, 2} \ {1})
  BY <1>1, <1>2, SumRemove
<1>4. SumFunctionOnSet(f, {2}) = f[2] + SumFunctionOnSet(f, {2} \ {2})
  BY <1>1, <1>2, SumRemove
<1>5. SumFunctionOnSet(f, {}) = 0
  BY SumOfNone
<1>6. SumFunctionOnSet(f, {2}) = f[2]
  BY <1>2, <1>4, <1>5
<1>. QED  BY <1>2, <1>3, <1>6 DEF SumFunction

\* No share is below nothing.
LEMMA SharesAreNat ==
    ASSUME NEW total \in Nat, NEW nets, IsFiniteSet(DOMAIN nets), \A i \in DOMAIN nets : nets[i] \in Nat,
           NEW i \in DOMAIN nets
    PROVE  Spread(total, nets)[i] \in Nat
<1>1. SumFunction(nets) \in Nat
  BY SumTyped
<1>2. CASE total = 0 \/ SumFunction(nets) = 0
  BY <1>2 DEF Spread
<1>3. CASE ~(total = 0 \/ SumFunction(nets) = 0)
  <2>. PICK all \in Nat \ {0} : all = SumFunction(nets)
    BY <1>1, <1>3
  <2>1. total \in Nat \ {0} /\ nets[i] \in Nat
    BY <1>3
  <2>2. Spread(total, nets)[i] \in Int /\ total * nets[i] < all * Spread(total, nets)[i] + all
    BY <2>1, SharesAreProportional
  <2>. PICK share \in Int : share = Spread(total, nets)[i]
    BY <2>2
  <2>. PICK n \in Nat : n = nets[i]
    BY <2>1
  <2>3. total * n < all * share + all
    BY <2>2
  <2>4. 0 <= total * n
    BY Z3
  <2>5. share >= 0
    <3>1. total * n \in Int /\ all * share \in Int
      OBVIOUS
    <3>2. 0 < all * share + all
      BY <2>3, <2>4, <3>1
    <3>3. all * 0 = 0 /\ all > 0
      OBVIOUS
    <3>4. all * 0 < all * share + all
      BY <3>2, <3>3
    <3>. QED  BY <3>3, <3>4, Products
  <2>. QED  BY <2>5
<1>. QED  BY <1>2, <1>3

\* The discount of a bill follows its two parts.
LEMMA OffInTwo ==
    ASSUME NEW total \in Nat, NEW a \in Nat, NEW b \in Nat
    PROVE  LET shares == Spread(total, <<a, b>>)
           IN /\ OffAmount(shares[1]) \in Discount /\ OffAmount(shares[2]) \in Discount
              /\ a + b # 0 => OffAmount(shares[1]).of + OffAmount(shares[2]).of = total
<1>. DEFINE nets == <<a, b>>
            shares == Spread(total, nets)
<1>1. DOMAIN nets = {1, 2} /\ nets[1] = a /\ nets[2] = b
  OBVIOUS
<1>2. IsFiniteSet(DOMAIN nets) /\ DOMAIN nets \subseteq Int /\ \A i \in DOMAIN nets : nets[i] \in Nat
  <2>1. IsFiniteSet({1, 2})
    BY TwoAreFinite
  <2>. HIDE DEF nets
  <2>. QED  BY <1>1, <2>1
<1>. HIDE DEF nets
<1>3. SumFunction(nets) = a + b
  BY <1>1, SumOfTwo
<1>4. shares[1] \in Nat /\ shares[2] \in Nat
  BY <1>1, <1>2, SharesAreNat
<1>5. DOMAIN shares = {1, 2}
  BY <1>1 DEF Spread
<1>6. a + b # 0 => SumFunction(shares) = total
  BY <1>2, <1>3, SharesAddUp
<1>. HIDE DEF shares
<1>7. SumFunction(shares) = shares[1] + shares[2]
  BY <1>4, <1>5, SumOfTwo
<1>8. \A n \in Nat : OffAmount(n) \in Discount /\ OffAmount(n).of = n
  BY DEF OffAmount, NoOff, Discount
<1>9. /\ OffAmount(shares[1]) \in Discount /\ OffAmount(shares[2]) \in Discount
      /\ a + b # 0 => OffAmount(shares[1]).of + OffAmount(shares[2]).of = total
  BY <1>4, <1>6, <1>7, <1>8
<1>. QED  BY <1>9 DEF shares, nets

----------------------------------------------------------------------------
(* The papers, step by step. *)

PaperTyped ==
    /\ shop \in ShopRules /\ cart \in Seq(CartLine) /\ off \in Discount
    /\ away \in [cart : Seq(CartLine), off : Discount]
    /\ payments \in Seq(Payment) /\ tip \in Nat
    /\ taken \in [Tenders -> Int] /\ back \in [Tenders -> Int]
    /\ goods \in Seq(InvoiceLine) /\ moves \in Seq(Movement)
    /\ carriage \in [off : Nat, charges : Nat]

\* A settled bill is paid, with change in cash at most; a reopened one holds no
\* more than is due; what was taken is in the register or was given back.
MoneyKept ==
    /\ stage = "settled" => /\ Paid(payments) >= Due
                            /\ Paid(payments) - PaidIn(payments, "cash") <= Due
    /\ stage = "reopened" => Paid(payments) <= Due
    /\ \A m \in Tenders : PaidIn(payments, m) + back[m] = taken[m]

\* No line of an invoice is below nothing, nor is its discount beyond them.
GoodsWorth ==
    /\ \A i \in DOMAIN goods : Worth(goods[i]) \in Nat
    /\ carriage.off <= SumFunction(NetsOf(goods))

PaperInv == PaperTyped /\ MoneyKept /\ GoodsWorth /\ SplitAdds

----------------------------------------------------------------------------
\* What is due is never below nothing nor below the tip.
LEMMA DueIs ==
    ASSUME PaperTyped
    PROVE  Bill.grand \in Nat /\ Due \in Nat /\ tip <= Due
<1>1. Bill.grand \in Nat /\ tip \in Nat
  BY BillAddsUp DEF PaperTyped, Bill
<1>2. Due = Bill.grand + tip
  BY DEF Due
<1>. PICK g \in Nat : g = Bill.grand
  BY <1>1
<1>3. g + tip \in Nat /\ tip <= g + tip
  BY <1>1
<1>. QED  BY <1>1, <1>2, <1>3

\* The discount of the lines, as `SplitAdds` adds it up.
Flat(c) == SumFunction([i \in DOMAIN c |-> IF c[i].off.kind = "amount" THEN c[i].off.of ELSE 0])

\* The flat discounts of a cart are a tally of its lines.
LEMMA FlatIs ==
    ASSUME NEW c \in Seq(CartLine)
    PROVE  Flat(c) = Tally(c, FlatOf)
<1>1. \A i \in DOMAIN c : c[i] \in CartLine
  BY Places
<1>2. [i \in DOMAIN c |-> IF c[i].off.kind = "amount" THEN c[i].off.of ELSE 0] = [i \in DOMAIN c |-> FlatOf[c[i]]]
  BY <1>1 DEF FlatOf
<1>. QED  BY <1>2, Zenon DEF Flat, Tally

\* The lines of an invoice.
WorthOf == [g \in InvoiceLine |-> Worth(g)]

\* What an invoice comes to is a tally of its lines.
LEMMA WorthIs ==
    ASSUME NEW gs \in Seq(InvoiceLine)
    PROVE  /\ WorthOf \in [InvoiceLine -> Int]
           /\ SumFunction(NetsOf(gs)) = Tally(gs, WorthOf)
<1>1. \A g \in InvoiceLine : Worth(g) \in Int
  <2>. TAKE g \in InvoiceLine
  <2>1. g.qty \in Nat /\ g.rate \in Nat /\ g.off \in Nat
    BY DEF InvoiceLine
  <2>2. Extend(g.qty, g.rate) \in Nat
    BY <2>1, ExtendIsNat
  <2>. QED  BY <2>1, <2>2 DEF Worth
<1>2. \A i \in DOMAIN gs : gs[i] \in InvoiceLine
  BY Places
<1>3. NetsOf(gs) = [i \in DOMAIN gs |-> WorthOf[gs[i]]]
  BY <1>2 DEF NetsOf, WorthOf
<1>4. SumFunction(NetsOf(gs)) = Tally(gs, WorthOf)
  BY <1>3, Zenon DEF Tally
<1>. QED  BY <1>1, <1>4 DEF WorthOf

----------------------------------------------------------------------------
(* What a step leaves alone. *)

\* The money stays as it is while the bill and its payments do.
LEMMA SameMoney ==
    ASSUME MoneyKept, UNCHANGED <<shop, stage, cart, off, payments, tip, taken, back>>
    PROVE  MoneyKept'
<1>1. Due' = Due
  BY DEF Due, Bill
<1>. QED  BY <1>1 DEF MoneyKept

\* Nothing is promised of the money before a bill is settled, but that it is there.
LEMMA StillOpen ==
    ASSUME MoneyKept, stage' \in {"open", "split"}, UNCHANGED <<payments, taken, back>>
    PROVE  MoneyKept'
BY DEF MoneyKept

\* An invoice keeps its worth while nobody touches it.
LEMMA SameBooks ==
    ASSUME GoodsWorth, UNCHANGED <<goods, carriage>>
    PROVE  GoodsWorth'
BY DEF GoodsWorth

\* Only a split has two parts to add up.
LEMMA NotSplit ==
    ASSUME stage' # "split"
    PROVE  SplitAdds'
BY DEF SplitAdds

----------------------------------------------------------------------------
(* The steps of a bill. *)

\* A line put on an open bill.
LEMMA PutLineKeeps ==
    ASSUME PaperInv, NEW l \in CartLine, NEW same, PutLine(l, same)
    PROVE  PaperInv'
<1>1. /\ stage' = "open" /\ cart' = Joined(cart, l, same)
      /\ UNCHANGED <<paper, shop, stage, off, away, before, payments, tip, taken, back, books>>
  BY DEF PutLine
<1>2. PaperTyped'
  <2>1. cart' \in Seq(CartLine)
    BY <1>1, JoinedTyped DEF PaperInv, PaperTyped
  <2>. QED  BY <1>1, <2>1 DEF PaperInv, PaperTyped, books
<1>3. MoneyKept'
  BY <1>1, StillOpen DEF PaperInv
<1>4. GoodsWorth'
  BY <1>1, SameBooks DEF PaperInv, books
<1>5. SplitAdds'
  BY <1>1, NotSplit
<1>. QED  BY <1>2, <1>3, <1>4, <1>5 DEF PaperInv

\* A discount for an open bill.
LEMMA SetOffKeeps ==
    ASSUME PaperInv, NEW o \in Discount, SetOff(o)
    PROVE  PaperInv'
<1>1. /\ stage' = "open" /\ off' = o
      /\ UNCHANGED <<paper, shop, stage, cart, away, before, payments, tip, taken, back, books>>
  BY DEF SetOff
<1>2. PaperTyped'
  BY <1>1 DEF PaperInv, PaperTyped, books
<1>3. MoneyKept'
  BY <1>1, StillOpen DEF PaperInv
<1>4. GoodsWorth'
  BY <1>1, SameBooks DEF PaperInv, books
<1>5. SplitAdds'
  BY <1>1, NotSplit
<1>. QED  BY <1>2, <1>3, <1>4, <1>5 DEF PaperInv

\* A split: two carts, each with its share of every discount.
LEMMA SplitKeeps ==
    ASSUME PaperInv, NEW i \in DOMAIN cart, NEW q \in Nat \ {0}, Split(i, q)
    PROVE  PaperInv'
<1>. DEFINE stays == Kept(cart, i, q)
            goes == <<Leaving(cart[i], q)>>
            shares == Spread(SumFunction(Shares(cart, off)), <<NetOf(stays), NetOf(goes)>>)
<1>1. /\ q <= cart[i].qty
      /\ cart' = stays /\ off' = OffAmount(shares[1])
      /\ away' = [cart |-> goes, off |-> OffAmount(shares[2])]
      /\ stage' = "split" /\ before' = [cart |-> cart, off |-> off]
      /\ UNCHANGED <<paper, shop, payments, tip, taken, back, books>>
  BY DEF Split
<1>2. cart \in Seq(CartLine) /\ off \in Discount
  BY DEF PaperInv, PaperTyped
<1>3. /\ stays \in Seq(CartLine) /\ goes \in Seq(CartLine)
      /\ Tally(stays, FlatOf) + Tally(goes, FlatOf) = Tally(cart, FlatOf)
  BY <1>1, <1>2, CartInTwo
<1>4. SumFunction(Shares(cart, off)) = Given(cart, off) /\ Given(cart, off) \in Nat
  BY <1>2, SharesAre
<1>. HIDE DEF stays, goes
<1>5. NetOf(stays) \in Nat /\ NetOf(goes) \in Nat
  BY <1>2, <1>3, SharesAre
<1>6. /\ OffAmount(shares[1]) \in Discount /\ OffAmount(shares[2]) \in Discount
      /\ NetOf(stays) + NetOf(goes) # 0 => OffAmount(shares[1]).of + OffAmount(shares[2]).of = Given(cart, off)
  BY <1>4, <1>5, OffInTwo
<1>. HIDE DEF shares
<1>7. away'.cart = goes /\ away'.off = OffAmount(shares[2]) /\ before'.cart = cart /\ before'.off = off
  BY <1>1
<1>8. PaperTyped'
  BY <1>1, <1>3, <1>6 DEF PaperInv, PaperTyped, books
<1>9. MoneyKept'
  BY <1>1, StillOpen DEF PaperInv
<1>10. GoodsWorth'
  BY <1>1, SameBooks DEF PaperInv, books
<1>11. SplitAdds'
  <2>1. Flat(stays) + Flat(goes) = Flat(cart)
    BY <1>2, <1>3, FlatIs
  <2>2. /\ Flat(cart') + Flat(away'.cart) = Flat(before'.cart)
        /\ NetOf(cart') + NetOf(away'.cart) # 0
             => off'.of + away'.off.of = Given(before'.cart, before'.off)
    BY <1>1, <1>6, <1>7, <2>1
  <2>. QED  BY <2>2 DEF SplitAdds, Flat
<1>. QED  BY <1>8, <1>9, <1>10, <1>11 DEF PaperInv

\* A payment: it is taken once, in its mode.
LEMMA PayKeeps ==
    ASSUME PaperInv, NEW mode \in Tenders, NEW amount \in Int, Pay(mode, amount)
    PROVE  PaperInv'
<1>. DEFINE p == [mode |-> mode, amount |-> amount]
<1>1. /\ stage' = "open" /\ amount > 0
      /\ payments' = Append(payments, p) /\ taken' = [taken EXCEPT ![mode] = @ + amount]
      /\ UNCHANGED <<paper, shop, stage, cart, off, away, before, tip, back, books>>
  BY DEF Pay
<1>2. /\ payments \in Seq(Payment) /\ taken \in [Tenders -> Int] /\ back \in [Tenders -> Int]
      /\ \A m \in Tenders : PaidIn(payments, m) + back[m] = taken[m]
  BY DEF PaperInv, PaperTyped, MoneyKept
<1>3. p \in Payment
  BY <1>1 DEF Payment
<1>4. ASSUME NEW m \in Tenders
      PROVE  PaidIn(payments', m) = PaidIn(payments, m) + (IF m = mode THEN amount ELSE 0)
             /\ PaidIn(payments, m) \in Int
  <2>1. InMode(Payment, m)[p] = IF m = mode THEN amount ELSE 0
    BY <1>3 DEF InMode
  <2>2. InMode(Payment, m) \in [Payment -> Int]
    BY DEF InMode, Payment
  <2>. HIDE DEF p
  <2>3. /\ Tally(Append(payments, p), InMode(Payment, m)) = Tally(payments, InMode(Payment, m)) + InMode(Payment, m)[p]
        /\ Append(payments, p) \in Seq(Payment)
    BY <1>2, <1>3, <2>2, TallyOfAppend
  <2>4. PaidIn(Append(payments, p), m) = Tally(Append(payments, p), InMode(Payment, m))
        /\ PaidIn(payments, m) = Tally(payments, InMode(Payment, m)) /\ PaidIn(payments, m) \in Nat
    BY <1>2, <2>3, RowsAre, PaidIs
  <2>. QED  BY <1>1, <2>1, <2>3, <2>4
<1>5. payments' \in Seq(Payment)
  BY <1>1, <1>2, <1>3
<1>6. taken' \in [Tenders -> Int]
  BY <1>1, <1>2
<1>7. PaperTyped'
  BY <1>1, <1>5, <1>6 DEF PaperInv, PaperTyped, books
<1>8. MoneyKept'
  <2>1. ASSUME NEW m \in Tenders PROVE PaidIn(payments', m) + back'[m] = taken'[m]
    <3>1. back'[m] = back[m] /\ back[m] \in Int /\ taken'[m] = taken[m] + (IF m = mode THEN amount ELSE 0)
          /\ taken[m] \in Int
      BY <1>1, <1>2
    <3>. QED  BY <1>2, <1>4, <3>1
  <2>. QED  BY <1>1, <2>1 DEF MoneyKept
<1>9. GoodsWorth'
  BY <1>1, SameBooks DEF PaperInv, books
<1>10. SplitAdds'
  BY <1>1, NotSplit
<1>. QED  BY <1>7, <1>8, <1>9, <1>10 DEF PaperInv

\* A tip for a bill that is being paid.
LEMMA SetTipKeeps ==
    ASSUME PaperInv, NEW t \in Nat, SetTip(t)
    PROVE  PaperInv'
<1>1. /\ stage' = "open" /\ tip' = t
      /\ UNCHANGED <<paper, shop, stage, cart, off, away, before, payments, taken, back, books>>
  BY DEF SetTip
<1>2. PaperTyped'
  BY <1>1 DEF PaperInv, PaperTyped, books
<1>3. MoneyKept'
  BY <1>1, StillOpen DEF PaperInv
<1>4. GoodsWorth'
  BY <1>1, SameBooks DEF PaperInv, books
<1>5. SplitAdds'
  BY <1>1, NotSplit
<1>. QED  BY <1>2, <1>3, <1>4, <1>5 DEF PaperInv

\* Settling: what was checked then holds from then on.
LEMMA SettleBillKeeps ==
    ASSUME PaperInv, SettleBill
    PROVE  PaperInv'
<1>1. /\ stage' = "settled"
      /\ Paid(payments) - PaidIn(payments, "cash") <= Due /\ Paid(payments) >= Due
      /\ UNCHANGED <<paper, shop, cart, off, away, before, payments, tip, taken, back, books>>
  BY DEF SettleBill
<1>2. PaperTyped'
  BY <1>1 DEF PaperInv, PaperTyped, books
<1>3. Due' = Due
  BY <1>1 DEF Due, Bill
<1>4. MoneyKept'
  BY <1>1, <1>3 DEF PaperInv, MoneyKept
<1>5. GoodsWorth'
  BY <1>1, SameBooks DEF PaperInv, books
<1>6. SplitAdds'
  BY <1>1, NotSplit
<1>. QED  BY <1>2, <1>4, <1>5, <1>6 DEF PaperInv

\* Money given back, in a bill that is reopened or is being reopened.
LEMMA GivenBack ==
    ASSUME PaperInv, NEW mode \in Tenders, NEW amount \in Nat, amount <= PaidIn(payments, mode),
           Paid(payments) - amount <= Due, stage' = "reopened",
           payments' = ReturnTo(payments, mode, amount), back' = [back EXCEPT ![mode] = @ + amount],
           UNCHANGED <<shop, cart, off, away, before, tip, taken, goods, carriage, moves>>
    PROVE  PaperInv'
<1>1. /\ payments \in Seq(Payment) /\ taken \in [Tenders -> Int] /\ back \in [Tenders -> Int]
      /\ \A m \in Tenders : PaidIn(payments, m) + back[m] = taken[m]
  BY DEF PaperInv, PaperTyped, MoneyKept
<1>2. /\ payments' \in Seq(Payment)
      /\ \A m \in Tenders : PaidIn(payments', m) = PaidIn(payments, m) - (IF m = mode THEN amount ELSE 0)
  BY <1>1, ReturnToGivesBack
<1>3. "cash" \in Tenders /\ "card" \in Tenders /\ Tenders = {"cash", "card"}
  BY DEF Tenders
<1>4. /\ \A m \in Tenders : PaidIn(payments, m) \in Nat
      /\ Paid(payments) = PaidIn(payments, "cash") + PaidIn(payments, "card")
      /\ Paid(payments') = PaidIn(payments', "cash") + PaidIn(payments', "card")
  BY <1>1, <1>2, RowsAre, PaidIs, PaidInBoth
<1>5. Paid(payments') = Paid(payments) - amount
  <2>. PICK a \in Nat : a = PaidIn(payments, "cash")
    BY <1>3, <1>4
  <2>. PICK b \in Nat : b = PaidIn(payments, "card")
    BY <1>3, <1>4
  <2>1. CASE mode = "cash"
    <3>1. Paid(payments') = (a - amount) + (b - 0) /\ Paid(payments) = a + b
      BY <1>2, <1>3, <1>4, <2>1
    <3>2. (a - amount) + (b - 0) = (a + b) - amount
      OBVIOUS
    <3>. QED  BY <3>1, <3>2, Zenon
  <2>2. CASE mode = "card"
    <3>1. Paid(payments') = (a - 0) + (b - amount) /\ Paid(payments) = a + b
      BY <1>2, <1>3, <1>4, <2>2
    <3>2. (a - 0) + (b - amount) = (a + b) - amount
      OBVIOUS
    <3>. QED  BY <3>1, <3>2, Zenon
  <2>. QED  BY <1>3, <2>1, <2>2
<1>6. Due' = Due
  BY DEF Due, Bill
<1>7. back' \in [Tenders -> Int]
  BY <1>1
<1>8. PaperTyped'
  BY <1>2, <1>7 DEF PaperInv, PaperTyped
<1>9. MoneyKept'
  <2>1. ASSUME NEW m \in Tenders PROVE PaidIn(payments', m) + back'[m] = taken'[m]
    <3>1. back'[m] = back[m] + (IF m = mode THEN amount ELSE 0) /\ back[m] \in Int /\ taken'[m] = taken[m]
          /\ taken[m] \in Int
      BY <1>1
    <3>. PICK a \in Nat : a = PaidIn(payments, m)
      BY <1>4
    <3>. QED  BY <1>1, <1>2, <3>1
  <2>. QED  BY <1>5, <1>6, <2>1 DEF MoneyKept
<1>10. GoodsWorth'
  BY SameBooks DEF PaperInv
<1>11. SplitAdds'
  BY NotSplit
<1>. QED  BY <1>8, <1>9, <1>10, <1>11 DEF PaperInv

\* Reopening: the change leaves the cash.
LEMMA ReopenKeeps ==
    ASSUME PaperInv, Reopen
    PROVE  PaperInv'
<1>. DEFINE change == Change(payments, Due)
<1>1. /\ stage = "settled" /\ stage' = "reopened"
      /\ payments' = ReturnTo(payments, "cash", change)
      /\ back' = [back EXCEPT !["cash"] = @ + change]
      /\ UNCHANGED <<paper, shop, cart, off, away, before, tip, taken, books>>
  BY DEF Reopen
<1>2. "cash" \in Tenders
  BY DEF Tenders
<1>3. /\ payments \in Seq(Payment) /\ Due \in Nat
      /\ Paid(payments) >= Due /\ Paid(payments) - PaidIn(payments, "cash") <= Due
  BY <1>1, DueIs DEF PaperInv, PaperTyped, MoneyKept
<1>4. Paid(payments) \in Nat /\ PaidIn(payments, "cash") \in Nat
  BY <1>2, <1>3, RowsAre, PaidIs
<1>5. change \in Nat /\ change <= PaidIn(payments, "cash") /\ Paid(payments) - change <= Due
  BY <1>3, <1>4 DEF Change
<1>. HIDE DEF change
<1>. QED  BY <1>1, <1>2, <1>5, GivenBack DEF books

\* Money given back on a reopened bill.
LEMMA ReturnsMoneyKeeps ==
    ASSUME PaperInv, NEW mode \in Tenders, NEW amount \in Nat, ReturnsMoney(mode, amount)
    PROVE  PaperInv'
<1>1. /\ stage = "reopened" /\ amount \in 1..PaidIn(payments, mode)
      /\ payments' = ReturnTo(payments, mode, amount)
      /\ back' = [back EXCEPT ![mode] = @ + amount]
      /\ UNCHANGED <<paper, shop, stage, cart, off, away, before, tip, taken, books>>
  BY DEF ReturnsMoney
<1>2. payments \in Seq(Payment) /\ Due \in Nat /\ Paid(payments) <= Due
  BY <1>1, DueIs DEF PaperInv, PaperTyped, MoneyKept
<1>3. Paid(payments) \in Nat /\ PaidIn(payments, mode) \in Nat
  BY <1>2, RowsAre, PaidIs
<1>4. amount <= PaidIn(payments, mode) /\ Paid(payments) - amount <= Due
  BY <1>1, <1>2, <1>3
<1>. QED  BY <1>1, <1>4, GivenBack DEF books

----------------------------------------------------------------------------
(* The steps of an invoice and of an account. *)

\* A split bill adds up while nobody touches its parts.
LEMMA SameBill ==
    ASSUME SplitAdds, UNCHANGED <<stage, cart, off, away, before>>
    PROVE  SplitAdds'
BY DEF SplitAdds

\* Goods received: a line of an invoice, worth nothing at least.
LEMMA ReceiveKeeps ==
    ASSUME PaperInv, NEW g \in InvoiceLine, Receive(g)
    PROVE  PaperInv'
<1>1. /\ Worth(g) >= 0 /\ goods' = Append(goods, g)
      /\ UNCHANGED <<paper, shop, bill, carriage, moves>>
  BY DEF Receive
<1>2. UNCHANGED <<stage, cart, off, away, before, payments, tip, taken, back>>
  BY <1>1 DEF bill
<1>3. /\ goods \in Seq(InvoiceLine) /\ carriage \in [off : Nat, charges : Nat]
      /\ \A i \in DOMAIN goods : Worth(goods[i]) \in Nat
      /\ carriage.off <= SumFunction(NetsOf(goods))
  BY DEF PaperInv, PaperTyped, GoodsWorth
<1>4. WorthOf \in [InvoiceLine -> Int] /\ WorthOf[g] = Worth(g)
  BY <1>3, WorthIs DEF WorthOf
<1>5. goods' \in Seq(InvoiceLine)
  BY <1>1, <1>3
<1>6. SumFunction(NetsOf(goods')) = SumFunction(NetsOf(goods)) + WorthOf[g] /\ SumFunction(NetsOf(goods)) \in Int
  <2>1. /\ Tally(Append(goods, g), WorthOf) = Tally(goods, WorthOf) + WorthOf[g]
        /\ Tally(goods, WorthOf) \in Int
    BY <1>3, <1>4, TallyOfAppend, TallyIsInt
  <2>2. SumFunction(NetsOf(goods)) = Tally(goods, WorthOf)
    BY <1>3, WorthIs
  <2>3. SumFunction(NetsOf(goods')) = Tally(goods', WorthOf)
    BY <1>5, WorthIs
  <2>. QED  BY <1>1, <2>1, <2>2, <2>3
<1>7. PaperTyped'
  BY <1>1, <1>2, <1>5 DEF PaperInv, PaperTyped
<1>8. MoneyKept'
  BY <1>1, <1>2, SameMoney DEF PaperInv
<1>9. GoodsWorth'
  <2>1. carriage'.off <= SumFunction(NetsOf(goods'))
    <3>. PICK s \in Int : s = SumFunction(NetsOf(goods))
      BY <1>6
    <3>. PICK w \in Int : w = WorthOf[g]
      BY <1>4
    <3>1. w >= 0 /\ carriage.off <= s /\ carriage.off \in Nat
      BY <1>1, <1>3, <1>4
    <3>2. SumFunction(NetsOf(goods')) = s + w
      BY <1>6
    <3>. QED  BY <1>1, <3>1, <3>2
  <2>2. ASSUME NEW i \in DOMAIN goods' PROVE Worth(goods'[i]) \in Nat
    <3>1. goods'[i] = g \/ (i \in DOMAIN goods /\ goods'[i] = goods[i])
      BY <1>1, <1>3
    <3>2. Worth(g) \in Nat
      BY <1>1, <1>4
    <3>. QED  BY <1>3, <3>1, <3>2
  <2>. QED  BY <2>1, <2>2 DEF GoodsWorth
<1>10. SplitAdds'
  BY <1>2, SameBill DEF PaperInv
<1>. QED  BY <1>7, <1>8, <1>9, <1>10 DEF PaperInv

\* The discount and the charges of an invoice.
LEMMA SetCarriageKeeps ==
    ASSUME PaperInv, NEW c \in [off : Nat, charges : Nat], SetCarriage(c)
    PROVE  PaperInv'
<1>1. /\ c.off <= SumFunction(NetsOf(goods)) /\ carriage' = c
      /\ UNCHANGED <<paper, shop, bill, goods, moves>>
  BY DEF SetCarriage
<1>2. UNCHANGED <<stage, cart, off, away, before, payments, tip, taken, back>>
  BY <1>1 DEF bill
<1>3. PaperTyped'
  BY <1>1, <1>2 DEF PaperInv, PaperTyped
<1>4. MoneyKept'
  BY <1>1, <1>2, SameMoney DEF PaperInv
<1>5. GoodsWorth'
  BY <1>1 DEF PaperInv, GoodsWorth
<1>6. SplitAdds'
  BY <1>2, SameBill DEF PaperInv
<1>. QED  BY <1>3, <1>4, <1>5, <1>6 DEF PaperInv

\* A movement of an account.
LEMMA EnterKeeps ==
    ASSUME PaperInv, NEW m \in Movement, Enter(m)
    PROVE  PaperInv'
<1>1. moves' = Append(moves, m) /\ UNCHANGED <<paper, shop, bill, goods, carriage>>
  BY DEF Enter
<1>2. UNCHANGED <<stage, cart, off, away, before, payments, tip, taken, back>>
  BY <1>1 DEF bill
<1>3. PaperTyped'
  BY <1>1, <1>2 DEF PaperInv, PaperTyped
<1>4. MoneyKept'
  BY <1>1, <1>2, SameMoney DEF PaperInv
<1>5. GoodsWorth'
  BY <1>1, SameBooks DEF PaperInv
<1>6. SplitAdds'
  BY <1>2, SameBill DEF PaperInv
<1>. QED  BY <1>3, <1>4, <1>5, <1>6 DEF PaperInv

\* A step that changes nothing.
LEMMA StutterKeeps ==
    ASSUME PaperInv, UNCHANGED paperVars
    PROVE  PaperInv'
<1>1. UNCHANGED <<shop, stage, cart, off, away, before, payments, tip, taken, back, goods, carriage, moves>>
  BY DEF paperVars
<1>2. PaperTyped'
  BY <1>1 DEF PaperInv, PaperTyped
<1>3. MoneyKept'
  BY <1>1, SameMoney DEF PaperInv
<1>4. GoodsWorth'
  BY <1>1, SameBooks DEF PaperInv
<1>5. SplitAdds'
  BY <1>1, SameBill DEF PaperInv
<1>. QED  BY <1>2, <1>3, <1>4, <1>5 DEF PaperInv

----------------------------------------------------------------------------
\* Every paper begins empty.
LEMMA PapersStart ==
    ASSUME SumsAssumption, PapersInit
    PROVE  PaperInv
<1>1. /\ shop \in Shops /\ stage = "open" /\ cart = <<>> /\ off = NoOff
      /\ away = [cart |-> <<>>, off |-> NoOff] /\ payments = <<>> /\ tip = 0
      /\ taken = [m \in Tenders |-> 0] /\ back = [m \in Tenders |-> 0]
      /\ goods = <<>> /\ carriage = [off |-> 0, charges |-> 0] /\ moves = <<>>
  BY DEF PapersInit, NoCart
<1>2. NoOff \in Discount
  BY DEF NoOff, Discount
<1>3. PaperTyped
  BY <1>1, <1>2, SumsAssumption DEF PaperTyped, SumsAssumption
<1>4. MoneyKept
  <2>1. ASSUME NEW m \in Tenders PROVE PaidIn(payments, m) + back[m] = taken[m]
    <3>1. payments \in Seq(Payment)
      BY <1>3 DEF PaperTyped
    <3>2. PaidIn(payments, m) = Tally(payments, InMode(Payment, m))
      BY <3>1, RowsAre, PaidIs
    <3>3. Tally(payments, InMode(Payment, m)) = 0
      BY <1>1, TallyOfNone
    <3>. QED  BY <1>1, <3>2, <3>3
  <2>. QED  BY <1>1, <2>1 DEF MoneyKept
<1>5. GoodsWorth
  <2>1. goods \in Seq(InvoiceLine)
    BY <1>3 DEF PaperTyped
  <2>2. SumFunction(NetsOf(goods)) = Tally(goods, WorthOf)
    BY <2>1, WorthIs
  <2>3. Tally(goods, WorthOf) = 0
    BY <1>1, TallyOfNone
  <2>. QED  BY <1>1, <2>2, <2>3 DEF GoodsWorth
<1>6. SplitAdds
  BY <1>1 DEF SplitAdds
<1>. QED  BY <1>3, <1>4, <1>5, <1>6 DEF PaperInv

\* Every step keeps the invariant of the papers.
LEMMA PapersStep ==
    ASSUME SumsAssumption, PaperInv, [PapersNext]_paperVars
    PROVE  PaperInv'
<1>1. /\ Lines \subseteq CartLine /\ Offs \subseteq Discount /\ Goods \subseteq InvoiceLine
      /\ Moves \subseteq Movement /\ Carriages \subseteq [off : Nat, charges : Nat]
      /\ Parts \subseteq Nat \ {0} /\ Extras \subseteq Nat /\ Tips \subseteq Nat
  BY DEF SumsAssumption
<1>2. Bill.grand \in Nat
  BY DueIs DEF PaperInv
<1>3. CASE OnTheBill
  <2>1. CASE \E l \in Lines : Add(l) \/ Push(l)
    BY <1>1, <2>1, PutLineKeeps DEF Add, Push
  <2>2. CASE \E o \in Offs : SetOff(o)
    BY <1>1, <2>2, SetOffKeeps
  <2>3. CASE \E i \in DOMAIN cart, q \in Parts : Split(i, q)
    BY <1>1, <2>3, SplitKeeps
  <2>4. CASE \E mode \in Tenders, x \in Extras :
               Pay(mode, Bill.grand \div 2) \/ Pay(mode, Bill.grand - Bill.grand \div 2 + x)
    <3>. PICK mode \in Tenders, x \in Extras :
                Pay(mode, Bill.grand \div 2) \/ Pay(mode, Bill.grand - Bill.grand \div 2 + x)
      BY <2>4
    <3>1. Bill.grand \div 2 \in Int /\ Bill.grand - Bill.grand \div 2 + x \in Int
      <4>. PICK b \in Nat : b = Bill.grand
        BY <1>2
      <4>1. x \in Int /\ b \div 2 \in Int
        BY <1>1
      <4>2. b - b \div 2 + x \in Int
        BY <4>1
      <4>. QED  BY <4>1, <4>2
    <3>. QED  BY <3>1, PayKeeps
  <2>5. CASE \E t \in Tips : SetTip(t)
    BY <1>1, <2>5, SetTipKeeps
  <2>6. CASE SettleBill
    BY <2>6, SettleBillKeeps
  <2>7. CASE Reopen
    BY <2>7, ReopenKeeps
  <2>8. CASE \E mode \in Tenders, x \in Extras : ReturnsMoney(mode, x)
    BY <1>1, <2>8, ReturnsMoneyKeeps
  <2>. QED  BY <1>3, <2>1, <2>2, <2>3, <2>4, <2>5, <2>6, <2>7, <2>8 DEF OnTheBill
<1>4. CASE OnTheInvoice
  BY <1>1, <1>4, ReceiveKeeps, SetCarriageKeeps DEF OnTheInvoice
<1>5. CASE OnTheAccount
  BY <1>1, <1>5, EnterKeeps DEF OnTheAccount
<1>6. CASE UNCHANGED paperVars
  BY <1>6, StutterKeeps
<1>. QED  BY <1>3, <1>4, <1>5, <1>6 DEF PapersNext

----------------------------------------------------------------------------
\* What is typed adds up, whatever is on the bill (BillAddsUp).
LEMMA BillTiesHolds ==
    ASSUME PaperInv
    PROVE  BillTies
<1>1. /\ shop \in ShopRules /\ cart \in Seq(CartLine) /\ off \in Discount
      /\ away.cart \in Seq(CartLine) /\ away.off \in Discount /\ SplitAdds
  BY DEF PaperInv, PaperTyped
<1>2. BillAdds(cart, off, BillOf(cart, off, shop)) /\ BillAdds(away.cart, away.off, BillOf(away.cart, away.off, shop))
  BY <1>1, BillAddsUp
<1>. QED  BY <1>1, <1>2 DEF BillTies, Bill

\* Money that is kept as `MoneyKept` says ties (ReceiptsTie).
LEMMA PaymentsTieHolds ==
    ASSUME PaperInv
    PROVE  PaymentsTie
<1>1. /\ payments \in Seq(Payment) /\ tip \in Nat /\ MoneyKept
      /\ Due \in Nat /\ tip <= Due
  BY DueIs DEF PaperInv, PaperTyped
<1>2. ASSUME stage = "settled" PROVE KeptAsDue(Receipts(payments, Due, tip))
  <2>1. Paid(payments) >= Due /\ Paid(payments) - PaidIn(payments, "cash") <= Due
    BY <1>1, <1>2 DEF MoneyKept
  <2>2. /\ Paid(Receipts(payments, Due, tip)) = Due
        /\ SumFunction([i \in DOMAIN Receipts(payments, Due, tip) |-> Receipts(payments, Due, tip)[i].tip]) = tip
        /\ PaidIn(Receipts(payments, Due, tip), "card") = PaidIn(payments, "card")
    BY <1>1, <2>1, ReceiptsTie
  <2>3. \A m \in Tenders \ {"cash"} : m = "card"
    BY DEF Tenders
  <2>. QED  BY <2>2, <2>3 DEF KeptAsDue
<1>. QED  BY <1>1, <1>2 DEF PaymentsTie, MoneyKept

\* Invoices and accounts tie (InvoiceTies, BucketsTie, ClosingIs).
LEMMA BooksTieHolds ==
    ASSUME SumsAssumption, PaperInv
    PROVE  BooksTie
<1>1. /\ shop \in ShopRules /\ goods \in Seq(InvoiceLine) /\ moves \in Seq(Movement)
      /\ carriage \in [off : Nat, charges : Nat] /\ Today \in Nat
      /\ \A i \in DOMAIN goods : Worth(goods[i]) \in Nat
      /\ carriage.off <= SumFunction(NetsOf(goods))
  BY DEF PaperInv, PaperTyped, GoodsWorth, SumsAssumption
<1>2. SumFunction(NetsOf(goods)) # 0 => InvoiceAdds(InvoiceOf(goods, carriage, shop))
  BY <1>1, InvoiceTies DEF InvoiceAdds
<1>3. SumFunction(Buckets(Aged(moves))) = Balance(moves)
  BY <1>1, BucketsTie
<1>4. ASSUME NEW from \in {m.day : m \in Range(moves)}, NEW to \in 1..Today, from <= to
      PROVE  Closing(moves, from, to) = Owed(moves, 1, to)
  <2>1. PICK i \in DOMAIN moves : from = moves[i].day
    BY DEF Range
  <2>2. moves[i] \in Movement
    BY <1>1, Places
  <2>3. from \in Int /\ 1 <= from /\ to \in Int
    BY <1>1, <2>1, <2>2 DEF Movement
  <2>. QED  BY <1>1, <1>4, <2>3, ClosingIs
<1>. QED  BY <1>2, <1>3, <1>4 DEF BooksTie

\* However a paper is filled, split, paid, settled, reopened and given back, it
\* keeps the invariant of the papers (bill.rs, cart.rs, payment.rs, transfer.rs,
\* purchase.rs, credit.rs).
THEOREM PapersKept == PapersSpec => []PaperInv
<1>1. PapersInit => PaperInv
  BY SumsAssumption, PapersStart
<1>2. PaperInv /\ [PapersNext]_paperVars => PaperInv'
  BY SumsAssumption, PapersStep
<1>. QED  BY <1>1, <1>2, PTL DEF PapersSpec

\* The printed lines of a bill sum to its printed total, its discount is taken in
\* full, its tax rows come to it and a split gives no discount away twice, for any
\* lines, discounts, taxes and shop (`compute_bill`, `take_lines`, `split_order_on`).
THEOREM BillsTie == PapersSpec => []BillTies
<1>1. PaperInv => BillTies
  BY BillTiesHolds
<1>. QED  BY <1>1, PapersKept, PTL

\* What the register keeps of the payments is what was due, change comes out of
\* cash only, and money given back comes off the mode it is given back in, for any
\* payments, tips and returns (`receipts`, `settle`, `reopen`, `return_to`).
THEOREM PaymentsAreKept == PapersSpec => []PaymentsTie
<1>1. PaperInv => PaymentsTie
  BY PaymentsTieHolds
<1>. QED  BY <1>1, PapersKept, PTL

\* The goods of an invoice carry its whole cost, the ageing of an account comes to
\* its balance and its statements follow from one another, for any goods and
\* movements (`cost_invoice`, `ageing`, `statement`).
THEOREM BooksAddUp == PapersSpec => []BooksTie
<1>1. PaperInv => BooksTie
  BY SumsAssumption, BooksTieHolds
<1>. QED  BY <1>1, PapersKept, PTL
=============================================================================
