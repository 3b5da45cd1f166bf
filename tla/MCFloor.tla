------------------------------ MODULE MCFloor -------------------------------
(* A small room for Floor, and what its phones may be about to ask.        *)
EXTENDS Floor, TLC

Ask(kind, table) == [kind |-> kind, table |-> table]

\* The first waiter opens a table and works on it.
First(kind) == <<Ask("open", "t1"), Ask("add", "t1"), Ask(kind, "t2")>>

\* The second seats a party there, or joins and then seats one.
Second == <<Ask("party", "t1"), Ask("add", "t1")>>
Joins == <<Ask("open", "t1"), Ask("party", "t1"), Ask("add", "t1")>>

Plan(a, b) == [p \in Phones |-> IF p = "p1" THEN a ELSE b]
TwoWaiters ==
    {Plan(First("move"), Second), Plan(First("send"), <<>>), Plan(First("set"), <<>>),
     Plan(First("cancel"), <<>>), Plan(<<>>, Joins)}

\* An empty room, and one with a combined bill of two portions at the other table.
Empty == [o \in Orders |-> Blank]
WithBill ==
    [Empty EXCEPT ![1] = [New("t2", 0, 2, 2) EXCEPT !.sources = {2}, !.service = 1, !.serviceTold = 1],
                  ![2] = [New("t2", 1, 1, 1) EXCEPT !.into = 1]]
TwoRooms == {Empty, WithBill}
=============================================================================
