---------------------------- MODULE MCPrintQueue ----------------------------
(* Instances of PrintQueue for TLC: one printer, and one job or two of      *)
(* different urgency.                                                     *)
EXTENDS PrintQueue

CONSTANTS a, b, p1, p2

OnePrinterOf == [j \in {a, b} |-> p1]
OneJobOf == [j \in {a} |-> p1]
OneTicketOf == [j \in {a} |-> 20]
BillAndTicket == [j \in {a, b} |-> IF j = a THEN 20 ELSE 10]
NoneUnreadable == {}
BUnreadable == {b}
FirstOnly == {p1}
=============================================================================
