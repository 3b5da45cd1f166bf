------------------------------ MODULE MCBillLife ------------------------------
(* A small instance of BillLife: the requests are told apart by what they   *)
(* asked for only.                                                          *)
EXTENDS BillLife, TLC

AnyRequest == Permutations(Requests)
===============================================================================
