------------------------------ MODULE MCKitchen ------------------------------
(* Small kitchens for Kitchen: every dish of a kitchen goes to one screen   *)
(* and belongs to one course, or each to its own.                           *)
EXTENDS Kitchen, TLC

CONSTANTS soup, roast, hot, starter, main

OneScreen == [d \in Dishes |-> hot]
OneCourse == [d \in Dishes |-> main]
TwoCourses == [d \in Dishes |-> IF d = soup THEN starter ELSE main]
===============================================================================
