------------------------------- MODULE MCSums -------------------------------
(* Small papers for Sums: odd prices, shares of a portion, tied remainders. *)
EXTENDS Sums

TaxOf(kind, rate, inclusive) == [kind |-> kind, rate |-> rate, inclusive |-> inclusive]
Item(price, parcel, tax) == [price |-> price, parcel |-> parcel, tax |-> tax]
Tea == Item(333, 7, TaxOf("gst", 500, FALSE))
Roll == Item(99, 10, TaxOf("gst", 1800, TRUE))
Beer == Item(1001, 0, TaxOf("outside", 2000, TRUE))
Bread == Item(250, 3, TaxOf("exempt", 0, FALSE))

Line(item, qty, o) == [item |-> item, qty |-> qty, off |-> o]
SomeOff(kind, of) == [kind |-> kind, of |-> of]
SomeLines ==
    {Line(Tea, 1500, NoOff), Line(Tea, 1000, SomeOff("amount", 35)),
     Line(Roll, 500, SomeOff("percent", 1250)), Line(Beer, 1000, NoOff), Line(Bread, 333, SomeOff("amount", 500))}
SomeOffs == {SomeOff("percent", 333), SomeOff("amount", 1001)}

Shop(regular, rounding, service, parcel) ==
    [regular |-> regular, rounding |-> rounding, service |-> service, parcel |-> parcel, fee |-> 15,
     chargeTax |-> TaxOf("gst", 500, FALSE)]
SomeShops ==
    {Shop(TRUE, "nearest", 500, "off"), Shop(TRUE, "up", 0, "item"),
     Shop(FALSE, "down", 0, "bill"), Shop(TRUE, "none", 0, "off")}

Good(qty, rate, o) == [qty |-> qty, rate |-> rate, off |-> o, tax |-> 500]
SomeGoods == {Good(1500, 333, 0), Good(3000, 100, 1), Good(1000, 50, 50), Good(333, 1001, 3)}
Carriage(o, c) == [off |-> o, charges |-> c]
SomeCarriages == {Carriage(10, 0), Carriage(0, 100), Carriage(250, 35)}

A(day, adds, amount) == [day |-> day, adds |-> adds, amount |-> amount]
SomeMoves ==
    {A(1, TRUE, 50), A(40, TRUE, 20), A(71, TRUE, 20), A(72, TRUE, 30), A(100, TRUE, 5),
     A(20, FALSE, 60), A(72, FALSE, 25), A(100, FALSE, 100)}
=============================================================================
