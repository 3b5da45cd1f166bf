--------------------------- MODULE MCTillForwarding ---------------------------
(* Small shops for TillForwarding: which order is of which day, and how its *)
(* orders fare.                                                             *)
EXTENDS TillForwarding, TLC

OneDay == [x \in Bills |-> 1]
NoneYet == {<<"", "">>}

(* The second order is corrected or voided after it travelled, beside one  *)
(* that stays open; the cloud's sender may take either.                    *)
Corrected == [unreadable |-> {}, dangling |-> {}, copied |-> {1, 2}, saves |-> <<1, 3, 0>>]
(* The second order cannot be stored, and shares its batch with the first. *)
OneDangles == [unreadable |-> {}, dangling |-> {2}, copied |-> {1}, saves |-> <<2, 2, 0>>]
(* An open order and one that cannot be read fill the window before the    *)
(* third, unless the cloud's sender takes the first.                       *)
WindowFull == [unreadable |-> {2}, dangling |-> {}, copied |-> {1}, saves |-> <<1, 2, 2>>]

ThreeShops == {Corrected, OneDangles, WindowFull}
OneOrder == {[unreadable |-> {}, dangling |-> {}, copied |-> {}, saves |-> <<4>>]}
===============================================================================
