------------------------------ MODULE PrintSpool ------------------------------
(***************************************************************************)
(* What the print queue promises: a job it accepted is kept until it is on *)
(* paper or a person gives it up, a job that left never comes back, and    *)
(* paper comes out at most once for each time the job was put in.          *)
(***************************************************************************)
EXTENDS Naturals

CONSTANT Jobs

VARIABLES
  life,    \* "new", "kept" or "gone"
  passes,  \* how often the job was put in: by billing, a press or a start
  papers,  \* how often it came out
  givenUp  \* the jobs a person threw away

vars == <<life, passes, papers, givenUp>>

Accept(j) == /\ life[j] = "new"
             /\ life' = [life EXCEPT ![j] = "kept"]
             /\ passes' = [passes EXCEPT ![j] = 1]
             /\ UNCHANGED <<papers, givenUp>>

PutBack(S) == /\ S # {} /\ \A j \in S : life[j] = "kept"
              /\ passes' = [j \in Jobs |-> IF j \in S THEN passes[j] + 1
                                                      ELSE passes[j]]
              /\ UNCHANGED <<life, papers, givenUp>>

\* A printer may finish long after anybody waits for it, and several at once.
ComesOut == /\ papers' \in [Jobs -> Nat]
            /\ \A j \in Jobs : papers[j] <= papers'[j] /\ papers'[j] <= passes[j]
            /\ UNCHANGED <<life, passes, givenUp>>

Printed(j) == /\ life[j] = "kept" /\ papers[j] > 0
              /\ life' = [life EXCEPT ![j] = "gone"]
              /\ UNCHANGED <<passes, papers, givenUp>>

\* A job thrown away while its paper is being settled is already gone.
GiveUp(j) == /\ life[j] # "new"
             /\ life' = [life EXCEPT ![j] = "gone"]
             /\ givenUp' = givenUp \cup {j}
             /\ UNCHANGED <<passes, papers>>

Init == /\ life = [j \in Jobs |-> "new"]
        /\ passes = [j \in Jobs |-> 0] /\ papers = [j \in Jobs |-> 0]
        /\ givenUp = {}

Next == \/ \E j \in Jobs : Accept(j) \/ Printed(j) \/ GiveUp(j)
        \/ \E S \in SUBSET Jobs : PutBack(S)
        \/ ComesOut

Spec == Init /\ [][Next]_vars
=============================================================================
