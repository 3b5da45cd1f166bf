----------------------------- MODULE MCCloudCopy ------------------------------
(* A small shop for CloudCopy: one bill a day, the later one saved twice.  *)
EXTENDS CloudCopy, TLC

CONSTANTS a, b

TwoDays == [r \in Rows |-> IF r = a THEN 1 ELSE 2]
AllAtOpening == [x \in Orders |-> 1]
LaterTwice == [x \in Orders |-> IF x = a THEN 1 ELSE 2]
===============================================================================
