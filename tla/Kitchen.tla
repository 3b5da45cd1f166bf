------------------------------- MODULE Kitchen -------------------------------
(***************************************************************************)
(* Telling the kitchen (src-tauri/src/kitchen.rs, flows.rs, orders.rs,     *)
(* corrections.rs).  The food of one order reaches the cooks by a card on  *)
(* a screen and by a ticket on paper; the order's ledger says what was     *)
(* told, so that only the difference is sent.  The counter, the phones and *)
(* the paper fallback change the order one at a time, under the action     *)
(* lock; the screen's buttons run on the counter's main thread without it. *)
(* A road that commits twice, or commits and prints, is two steps here,    *)
(* and the program may stop, or the second step fail, between them.        *)
(***************************************************************************)
EXTENDS Integers, FiniteSets

CONSTANTS
    Dishes,     \* the lines an order may have
    Stations,   \* the kitchen's screens, each with its printer
    Courses,    \* the courses a waiter can fire
    StationOf,  \* the screen of a dish
    CourseOf,   \* the course of a dish
    DefaultStation, \* where a ticket without food goes
    MaxQty,     \* how many of one dish an order has
    MaxFirings, \* how often the screens are sent something
    MaxStops,   \* how much of one dish the kitchen is told to stop
    MaxFaults,  \* how often a step fails or the program stops
    TicketOff,  \* the shop prints no kitchen ticket
    KeepPaid    \* a paid order's cards stay on the screen

All == "all"
NoCourse == "none"

ASSUME KitchenAssumption ==
    /\ StationOf \in [Dishes -> Stations] /\ CourseOf \in [Dishes -> Courses]
    /\ DefaultStation \in Stations /\ All \notin Courses /\ NoCourse \notin Courses
    /\ MaxQty \in Nat /\ MaxFirings \in Nat /\ MaxFaults \in Nat /\ MaxStops \in Nat
    /\ TicketOff \in BOOLEAN /\ KeepPaid \in BOOLEAN

(* A delivery is named by its firing and its station.                      *)
Keys == (1 .. MaxFirings) \X Stations
States == {"unsent", "pending", "shown", "bumped", "printed", "closed"}
Ticket == [state : States, course : Courses \cup {All}, shown : BOOLEAN,
           cancelled : BOOLEAN]

Food == [Dishes -> Nat]
NoFood == [d \in Dishes |-> 0]
Plus(f, g) == [d \in Dishes |-> f[d] + g[d]]
Minus(f, g) == [d \in Dishes |-> IF f[d] > g[d] THEN f[d] - g[d] ELSE 0]

VARIABLES
    order,      \* the order's state on disk
    day,        \* its business day: today, past, or closed
    cart, told, \* its food, and its kitchen ledger
    ahead,      \* what the counter's memory marked as told and the disk did not
    ticket,     \* the kitchen_deliveries rows
    firings,    \* how many firings there were
    firing,     \* the course `fire_on` has checked and not sent yet
    crossed,    \* the firings that were sent between its check and its send
    doing,      \* who holds the action lock between two of its steps
    newPaper, stopPaper, \* the food on tickets and on cancellation slips queued so far
    faults

book == <<order, day, cart, told, ahead>>
screen == <<ticket, firings, firing, crossed>>
paper == <<newPaper, stopPaper>>
vars == <<book, screen, doing, paper, faults>>

(* The owner of the lock, the food it is about, and the fallback's list.   *)
Who == {"nobody", "counter", "void", "cancel", "phoneNew", "phoneStop", "fallback", "mark"}
Nobody == [who |-> "nobody", food |-> NoFood, batch |-> {}]
By(who, food) == [who |-> who, food |-> food, batch |-> {}]

----------------------------------------------------------------------------
(* What the actions are made of. *)

(* `KitchenLedger::pending` and `over_told`.                               *)
Pending == Minus(cart, told)
OverTold(c) == Minus(told, c)

Has(c, d) == c[d] > 0
OfCourse(c, d) == c = All \/ CourseOf[d] = c

(* The bound on firings leaves room for the one that is under way.         *)
Room == firings + (IF firing = NoCourse THEN 0 ELSE 1) < MaxFirings

(* `send_in`: one delivery for each station that cooks something of it.    *)
SendIn(c, food) ==
    LET where == {StationOf[d] : d \in {x \in Dishes : Has(food, x) /\ OfCourse(c, x)}}
        at == IF where = {} THEN {DefaultStation} ELSE where
    IN /\ firings' = firings + 1
       /\ crossed' = IF firing \in {NoCourse, c} THEN crossed ELSE crossed \cup {firings + 1}
       /\ ticket' = [k \in Keys |->
            IF k[1] = firings + 1 /\ k[2] \in at
            THEN [state |-> "pending", course |-> c, shown |-> FALSE,
                  cancelled |-> FALSE]
            ELSE ticket[k]]

Closed(t) == IF t.state = "unsent" THEN t ELSE [t EXCEPT !.state = "closed"]
CloseAll == [k \in Keys |-> Closed(ticket[k])]

(* `reconcile_finished`: a voided order, and a paid one the shop does not  *)
(* keep or whose day is over.                                              *)
Over == order = "voided" \/ (order = "settled" /\ (~KeepPaid \/ day = "past"))
Reconciled == IF Over THEN CloseAll ELSE ticket

(* The main thread, and the action lock.                                   *)
MainIsFree == firing = NoCourse /\ doing.who \notin {"counter", "void", "cancel"}
LockIsFree == doing = Nobody
CounterMay == MainIsFree /\ LockIsFree

Fault == faults < MaxFaults /\ faults' = faults + 1

(* Parking the counter's order writes the ledger of its memory with it.    *)
Parked == Plus(told, ahead)

(* A phone changed the order: what the counter's memory was ahead by is    *)
(* merged into it, or given up when the cashier takes the saved order.     *)
Refreshed == ahead' \in {ahead, NoFood}

----------------------------------------------------------------------------
(* The order: food comes from the counter, which parks it, or a phone. *)

Add(d) ==
    /\ LockIsFree /\ order = "open" /\ cart[d] < MaxQty
    /\ cart' = [cart EXCEPT ![d] = @ + 1]
    /\ \/ firing = NoCourse /\ told' = Parked /\ ahead' = NoFood
       \/ told' = told /\ Refreshed
    /\ UNCHANGED <<order, day, screen, doing, paper, faults>>

(* "Print KOT": the order is parked; what the kitchen has not seen is      *)
(* queued on paper, or goes on to the record at once in a shop without a   *)
(* ticket.  With nothing to send the press only parks.                     *)
CounterTicket ==
    /\ CounterMay /\ order = "open"
    /\ told' = Parked /\ ahead' = NoFood
    /\ LET delta == Minus(cart, Parked)
       IN IF delta = NoFood
          THEN ahead # NoFood /\ UNCHANGED <<doing, newPaper, faults>>
          ELSE \/ /\ Room /\ doing' = By("counter", delta)
                  /\ newPaper' = IF TicketOff THEN newPaper ELSE Plus(newPaper, delta)
                  /\ UNCHANGED faults
               \/ ~TicketOff /\ Fault /\ UNCHANGED <<doing, newPaper>>
    /\ UNCHANGED <<order, day, cart, screen, stopPaper>>

(* The ledger, the event and the screens in one commit.                    *)
CounterRecord ==
    /\ doing.who = "counter"
    /\ told' = Plus(told, doing.food)
    /\ SendIn(All, cart)
    /\ doing' = Nobody
    /\ UNCHANGED <<order, day, cart, ahead, firing, paper, faults>>

(* The commit fails: the cart in memory was marked before it.              *)
CounterRecordFails ==
    /\ doing.who = "counter" /\ Fault
    /\ ahead' = doing.food /\ doing' = Nobody
    /\ UNCHANGED <<order, day, cart, told, screen, paper>>

(* Taking food off at the counter: the cart is parked first, ...           *)
CounterVoid(d, qty) ==
    /\ CounterMay /\ order = "open" /\ qty < cart[d] /\ stopPaper[d] < MaxStops
    /\ cart' = [cart EXCEPT ![d] = qty]
    /\ told' = Parked /\ ahead' = NoFood
    /\ LET stop == Minus(Parked, cart')
       IN doing' = IF stop = NoFood THEN Nobody ELSE By("void", stop)
    /\ UNCHANGED <<order, day, screen, paper, faults>>

(* ... then the slip is queued, and only then does the ledger forget the   *)
(* food; a slip that cannot be queued leaves the ledger as it was, and so  *)
(* does a stop of the program after the slip.                              *)
CounterVoidSlip ==
    /\ doing.who = "void"
    /\ doing' = Nobody
    /\ \/ /\ stopPaper' = Plus(stopPaper, doing.food)
          /\ told' = Minus(told, doing.food)
          /\ UNCHANGED faults
       \/ Fault /\ UNCHANGED <<stopPaper, told>>
       \/ Fault /\ stopPaper' = Plus(stopPaper, doing.food) /\ UNCHANGED told
    /\ UNCHANGED <<order, day, cart, ahead, screen, newPaper>>

(* Cancelling at the counter: the order, then the slip, then the screen.   *)
CounterCancel ==
    /\ CounterMay /\ order = "open"
    /\ order' = "cancelled" /\ ahead' = NoFood
    /\ doing' = By("cancel", told)
    /\ UNCHANGED <<day, cart, told, screen, paper, faults>>

CounterCancelRest ==
    /\ doing.who = "cancel"
    /\ doing' = Nobody
    /\ \E slip, mark \in BOOLEAN :
         /\ stopPaper' = IF slip THEN Plus(stopPaper, doing.food) ELSE stopPaper
         /\ ticket' = [k \in Keys |->
              IF mark /\ ticket[k].state # "unsent"
              THEN [ticket[k] EXCEPT !.cancelled = TRUE] ELSE ticket[k]]
         /\ IF slip /\ mark THEN UNCHANGED faults ELSE Fault
    /\ UNCHANGED <<book, firings, firing, crossed, newPaper>>

----------------------------------------------------------------------------
(* A phone's intent: everything in one commit, the paper after it.         *)

\* Mutant: the screen is not told.
PhoneTicketPaperOnly ==
    /\ LockIsFree /\ order = "open" /\ Pending # NoFood /\ Room
    /\ told' = Plus(told, Pending)
    /\ ahead' = NoFood
    /\ doing' = IF TicketOff THEN Nobody ELSE By("phoneNew", Pending)
    /\ UNCHANGED <<order, day, cart, screen, paper, faults>>

PhoneTicket ==
    /\ LockIsFree /\ order = "open" /\ Pending # NoFood /\ Room
    /\ told' = Plus(told, Pending)
    /\ ahead' = NoFood
    /\ SendIn(All, cart)
    /\ doing' = IF TicketOff THEN Nobody ELSE By("phoneNew", Pending)
    /\ UNCHANGED <<order, day, cart, firing, paper, faults>>

\* Mutant: the ledger is not told of the stop.
PhoneVoidKeepsLedger(d, qty) ==
    /\ LockIsFree /\ order = "open" /\ qty < cart[d] /\ stopPaper[d] < MaxStops
    /\ cart' = [cart EXCEPT ![d] = qty]
    /\ Refreshed
    /\ doing' = IF OverTold(cart') = NoFood \/ TicketOff
                THEN Nobody ELSE By("phoneStop", OverTold(cart'))
    /\ UNCHANGED <<order, day, told, screen, paper, faults>>

PhoneVoid(d, qty) ==
    /\ LockIsFree /\ order = "open" /\ qty < cart[d] /\ stopPaper[d] < MaxStops
    /\ cart' = [cart EXCEPT ![d] = qty]
    /\ told' = Minus(told, OverTold(cart'))
    /\ Refreshed
    /\ doing' = IF OverTold(cart') = NoFood \/ TicketOff
                THEN Nobody ELSE By("phoneStop", OverTold(cart'))
    /\ UNCHANGED <<order, day, screen, paper, faults>>

(* The ticket or the slip; what cannot be queued is only logged.           *)
PhonePaper ==
    /\ doing.who \in {"phoneNew", "phoneStop"}
    /\ doing' = Nobody
    /\ \/ /\ newPaper' = IF doing.who = "phoneNew" THEN Plus(newPaper, doing.food) ELSE newPaper
          /\ stopPaper' = IF doing.who = "phoneStop" THEN Plus(stopPaper, doing.food) ELSE stopPaper
          /\ UNCHANGED faults
       \/ Fault /\ UNCHANGED paper
    /\ UNCHANGED <<book, screen>>

PhoneCancel ==
    /\ LockIsFree /\ order = "open"
    /\ order' = "cancelled" /\ Refreshed
    /\ UNCHANGED <<day, cart, told, screen, doing, paper, faults>>

----------------------------------------------------------------------------
(* Settling, voiding the bill and closing the day. *)

Settle ==
    /\ CounterMay /\ order = "open" /\ cart # NoFood
    /\ order' = "settled" /\ told' = Parked /\ ahead' = NoFood
    /\ ticket' = IF KeepPaid THEN ticket ELSE CloseAll
    /\ UNCHANGED <<day, cart, firings, firing, crossed, doing, paper, faults>>

Void ==
    /\ CounterMay /\ order = "settled"
    /\ order' = "voided"
    /\ ticket' = CloseAll
    /\ UNCHANGED <<day, cart, told, ahead, firings, firing, crossed, doing, paper, faults>>

(* The day turns, which is read of a paid order only; a close needs every  *)
(* order finished and sweeps.                                              *)
DayTurns ==
    /\ order = "settled" /\ day = "today" /\ day' = "past"
    /\ UNCHANGED <<order, cart, told, ahead, screen, doing, paper, faults>>

CloseDay ==
    /\ MainIsFree /\ order # "open" /\ day # "closed"
    /\ day' = "closed"
    /\ ticket' = CloseAll
    /\ UNCHANGED <<order, cart, told, ahead, firings, firing, crossed, doing, paper, faults>>

----------------------------------------------------------------------------
(* The screen.  Every button closes first what is finished, and finds its  *)
(* ticket gone when it is closed.                                          *)

Press(k, new) ==
    /\ MainIsFree
    /\ Reconciled[k].state \notin {"unsent", "closed"}
    /\ ticket' = [Reconciled EXCEPT ![k] = new]
    /\ UNCHANGED <<book, firings, firing, crossed, doing, paper, faults>>

Shown(k) ==
    /\ ticket[k].state = "pending"
    /\ Press(k, [ticket[k] EXCEPT !.state = "shown", !.shown = TRUE])

Bump(k) ==
    /\ ticket[k].state \in {"shown", "printed"}
    /\ Press(k, [ticket[k] EXCEPT !.state = "bumped"])

Recall(k) ==
    /\ ticket[k].state = "bumped"
    /\ Press(k, [ticket[k] EXCEPT !.state = IF ticket[k].shown THEN "shown" ELSE "printed"])

(* "Got it": seen, so it leaves the screen; a cleared card stays cleared.  *)
(* When it was seen only colours the card, and is left out.                *)
Acknowledge(k) ==
    /\ Press(k, [ticket[k] EXCEPT !.state = IF @ = "bumped" THEN @ ELSE "closed"])

(* Looking at the screen sweeps as well.                                   *)
Look ==
    /\ MainIsFree
    /\ ticket' = Reconciled /\ ticket # Reconciled
    /\ UNCHANGED <<book, firings, firing, crossed, doing, paper, faults>>

\* Mutant: the courses fired by name are not looked at.
CoveredByAll(c) == \E k \in Keys : ticket[k].state # "unsent" /\ ticket[k].course = All

(* Firing a course: what was fired is read in one transaction and the      *)
(* tickets are written in the next.  Nobody asks whether the order is open *)
(* or has food of that course.                                             *)
Covered(c) == \E k \in Keys : ticket[k].state # "unsent" /\ ticket[k].course \in {c, All}

FireCheck(c) ==
    /\ MainIsFree /\ ~Covered(c) /\ Room
    /\ firing' = c
    /\ UNCHANGED <<book, ticket, firings, crossed, doing, paper, faults>>

FireSend ==
    /\ firing # NoCourse
    /\ SendIn(firing, cart)
    /\ firing' = NoCourse
    /\ UNCHANGED <<book, doing, paper, faults>>

----------------------------------------------------------------------------
(* The paper fallback: a thread that looks every five seconds. *)

\* Mutant: a fired course is not waited for.
OverdueWhole(f) ==
    {k \in Keys : k[1] <= f /\ Reconciled[k].state = "pending" /\ ticket[k].course = All}

(* Those that were sent twenty seconds ago or more and still wait: the     *)
(* clock may have reached any firing.                                      *)
Overdue(f) == {k \in Keys : k[1] <= f /\ Reconciled[k].state = "pending"}

FallbackRead ==
    /\ LockIsFree
    /\ ticket' = Reconciled
    /\ \/ \E f \in 1 .. firings :
            /\ Overdue(f) # {}
            /\ doing' = [who |-> "fallback", food |-> NoFood, batch |-> Overdue(f)]
       \/ ticket # Reconciled /\ UNCHANGED doing
    /\ UNCHANGED <<book, firings, firing, crossed, paper, faults>>

(* What the ledger says is missing, for the whole order, is queued and     *)
(* recorded; or the queue refuses, or the record fails after the queue.    *)
FallbackPaper ==
    /\ doing.who = "fallback"
    /\ doing' = [doing EXCEPT !.who = "mark"]
    /\ \/ /\ newPaper' = Plus(newPaper, Pending) /\ told' = Plus(told, Pending)
          /\ UNCHANGED faults
       \/ Pending # NoFood /\ Fault /\ UNCHANGED <<newPaper, told>>
       \/ Pending # NoFood /\ Fault /\ newPaper' = Plus(newPaper, Pending) /\ UNCHANGED told
    /\ UNCHANGED <<order, day, cart, ahead, screen, stopPaper>>

(* Marked as printed whatever became of the paper, unless it is not        *)
(* pending any more; the next of the list follows.                         *)
FallbackMark ==
    /\ doing.who = "mark"
    /\ \E k \in doing.batch :
         /\ ticket' = IF Reconciled[k].state = "pending"
                      THEN [Reconciled EXCEPT ![k].state = "printed"] ELSE Reconciled
         /\ doing' = IF doing.batch = {k} THEN Nobody
                     ELSE [who |-> "fallback", food |-> NoFood, batch |-> doing.batch \ {k}]
    /\ UNCHANGED <<book, firings, firing, crossed, paper, faults>>

(* The program stops between two steps and is started again.               *)
Restart ==
    /\ doing # Nobody \/ firing # NoCourse \/ ahead # NoFood
    /\ Fault
    /\ doing' = Nobody /\ firing' = NoCourse /\ ahead' = NoFood
    /\ UNCHANGED <<order, day, cart, told, ticket, firings, crossed, paper>>

----------------------------------------------------------------------------
Init ==
    /\ order = "open" /\ day = "today"
    /\ cart = NoFood /\ told = NoFood /\ ahead = NoFood
    /\ ticket = [k \in Keys |-> [state |-> "unsent", course |-> All, shown |-> FALSE,
                                 cancelled |-> FALSE]]
    /\ firings = 0 /\ firing = NoCourse /\ crossed = {} /\ doing = Nobody
    /\ newPaper = NoFood /\ stopPaper = NoFood /\ faults = 0

Counter ==
    \/ \E d \in Dishes : Add(d) \/ \E q \in 0 .. MaxQty : CounterVoid(d, q)
    \/ CounterTicket \/ CounterRecord \/ CounterRecordFails
    \/ CounterVoidSlip \/ CounterCancel \/ CounterCancelRest
    \/ Settle \/ Void \/ CloseDay

Phone ==
    \/ PhoneTicket \/ PhonePaper \/ PhoneCancel
    \/ \E d \in Dishes, q \in 0 .. MaxQty : PhoneVoid(d, q)

Screen ==
    \/ \E k \in Keys : Shown(k) \/ Bump(k) \/ Recall(k) \/ Acknowledge(k)
    \/ \E c \in Courses : FireCheck(c)
    \/ FireSend \/ Look

Fallback == FallbackRead \/ FallbackPaper \/ FallbackMark

Next == Counter \/ Phone \/ Screen \/ Fallback \/ DayTurns \/ Restart

(* A step that has the lock ends, and the fallback's thread, which looks   *)
(* every five seconds, finds a ticket overdue and gets the lock in the     *)
(* end: every action under it is short.                                    *)
Fairness ==
    /\ WF_vars(FireSend) /\ WF_vars(CounterRecord \/ CounterRecordFails) /\ WF_vars(CounterVoidSlip)
    /\ WF_vars(CounterCancelRest) /\ WF_vars(PhonePaper)
    /\ WF_vars(FallbackPaper) /\ WF_vars(FallbackMark)
    /\ SF_vars(FallbackRead)

Spec == Init /\ [][Next]_vars /\ Fairness
----------------------------------------------------------------------------
(* Type invariant of the kitchen's state.                                  *)
TypeOK ==
    /\ order \in {"open", "settled", "voided", "cancelled"} /\ day \in {"today", "past", "closed"}
    /\ cart \in [Dishes -> 0 .. MaxQty] /\ told \in Food /\ ahead \in Food
    /\ ticket \in [Keys -> Ticket]
    /\ firings \in 0 .. MaxFirings /\ firing \in Courses \cup {NoCourse}
    /\ crossed \subseteq 1 .. MaxFirings
    /\ doing \in [who : Who, food : Food, batch : SUBSET Keys]
    /\ newPaper \in Food /\ stopPaper \in Food /\ faults \in 0 .. MaxFaults

(* The food on paper: what is about to be queued or recorded is the one    *)
(* difference a road may leave between its two steps.                      *)
OnPaper(d) == newPaper[d] - stopPaper[d]
Between(d) ==
    CASE doing.who = "counter"   -> doing.food[d]
      [] doing.who = "phoneNew"  -> -doing.food[d]
      [] doing.who = "phoneStop" -> doing.food[d]
      [] OTHER -> 0

(* Where tickets are printed and nothing fails, the paper in the kitchen   *)
(* adds up to the ledger, by whichever of the six roads food was sent or   *)
(* taken off: no dish is printed twice and no stop is forgotten.           *)
PaperTellsTheLedger ==
    ~TicketOff /\ faults = 0 /\ order # "cancelled"
        => \A d \in Dishes : OnPaper(d) = told[d] + Between(d)

(* The ledger is never ahead of the kitchen, whatever fails where tickets  *)
(* are printed, and where nothing fails everywhere: food it says was told  *)
(* had a card on its own screen, or went out on paper.                     *)
CardFor(d) == \E k \in Keys : /\ ticket[k].state # "unsent" /\ k[2] = StationOf[d]
                              /\ OfCourse(ticket[k].course, d)
ToldIsKnown ==
    ~TicketOff \/ faults = 0 =>
        \A d \in Dishes : Has(told, d) => CardFor(d) \/ newPaper[d] >= told[d]

(* "The kitchen is never told twice": a course is not fired when a firing  *)
(* of it, or of the whole order, is with any of the kitchen's stations.    *)
(* The exception is a ticket a phone sends while the course is between its *)
(* check and its send: the check has not seen it, and the kitchen is told  *)
(* of the course a second time.                                            *)
CourseFiredOnce ==
    \A j, k \in Keys :
        /\ k[1] < j[1]
        /\ ticket[j].state # "unsent" /\ ticket[k].state # "unsent"
        /\ ticket[j].course # All /\ ticket[k].course \in {ticket[j].course, All}
        => k[1] \in crossed

(* A ticket no screen draws does not wait for ever.                        *)
NoneIsLeftPending ==
    \A k \in Keys : ticket[k].state = "pending" ~> ticket[k].state # "pending"

(* "Nobody acked in time, so it went to paper": the food of a ticket that  *)
(* is marked as printed is on paper.                                       *)
PrintedIsOnPaper ==
    \A k \in Keys : ticket[k].state = "printed" =>
        \A d \in Dishes : k[2] = StationOf[d] /\ OfCourse(ticket[k].course, d)
            => OnPaper(d) >= told[d]
===============================================================================
