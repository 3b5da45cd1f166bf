--------------------------- MODULE KitchenProofs ----------------------------
(***************************************************************************)
(* The kitchen's ledger, its paper and its screens agree in every kitchen: *)
(* any dishes, stations and courses, any bounds, any faults.               *)
(***************************************************************************)
EXTENDS Kitchen, TLAPS

(* Who has the lock between two steps kept room for the firing to come,    *)
(* and the counter's main thread does one thing at a time.                 *)
OneAtATime ==
    /\ doing.who = "counter" => firings < MaxFirings
    /\ firing # NoCourse => firings < MaxFirings
    /\ doing.who \in {"counter", "void", "cancel"} => firing = NoCourse

Inv == TypeOK /\ OneAtATime

(* Adding to and taking from plates of food gives plates of food           *)
(* (order.rs, KitchenLedger).                                              *)
LEMMA FoodIsFood ==
    /\ NoFood \in Food
    /\ \A f, g \in Food : Plus(f, g) \in Food /\ Minus(f, g) \in Food
BY DEF Food, NoFood, Plus, Minus

(* What the lock's holder carries is typed, whoever takes it.              *)
LEMMA DoingIsTyped ==
    /\ Nobody \in [who : Who, food : Food, batch : SUBSET Keys]
    /\ \A w \in Who, f \in Food : By(w, f) \in [who : Who, food : Food, batch : SUBSET Keys]
BY FoodIsFood DEF Nobody, By, Who

(* A sent ticket may be closed; none is unsent.                            *)
LEMMA ClosingKeepsType ==
    ASSUME TypeOK
    PROVE CloseAll \in [Keys -> Ticket] /\ Reconciled \in [Keys -> Ticket]
BY DEF TypeOK, CloseAll, Reconciled, Closed, Ticket, States

(* Sending a ticket (kitchen.rs, send_in) keeps the tickets typed and      *)
(* counts one firing.                                                      *)
LEMMA SendingKeepsType ==
    ASSUME TypeOK, NEW c \in Courses \cup {All}, NEW food, SendIn(c, food)
    PROVE /\ ticket' \in [Keys -> Ticket] /\ firings' = firings + 1
          /\ firings < MaxFirings => crossed' \subseteq 1 .. MaxFirings
<1>1. ticket' \in [Keys -> Ticket] /\ firings' = firings + 1
  BY DEF TypeOK, SendIn, Ticket, States
<1>2. firings < MaxFirings => firings + 1 \in 1 .. MaxFirings
  BY KitchenAssumption DEF TypeOK
<1>. QED  BY <1>1, <1>2 DEF TypeOK, SendIn

(* An empty kitchen is typed and nobody is in the middle of anything.      *)
THEOREM InvInit == Init => Inv
BY KitchenAssumption, FoodIsFood, DoingIsTyped
   DEF Init, Inv, TypeOK, OneAtATime, Ticket, States, Nobody, NoFood, Food

(* Every step of the counter, the phones, the screens and the fallback     *)
(* keeps the types and the one-thing-at-a-time of the main thread.         *)
THEOREM InvStep == Inv /\ [Next]_vars => Inv'
<1>. SUFFICES ASSUME Inv, [Next]_vars PROVE Inv'
  OBVIOUS
<1>. USE KitchenAssumption DEF Inv
<1>0. TypeOK /\ OneAtATime
  OBVIOUS
<1>1. ASSUME NEW d \in Dishes, Add(d) PROVE Inv'
  <2>. USE <1>1 DEF Add
  <2>1. cart' \in [Dishes -> 0 .. MaxQty]
    BY DEF TypeOK
  <2>2. told' \in Food /\ ahead' \in Food
    BY FoodIsFood DEF TypeOK, Parked, Refreshed
  <2>. QED  BY <2>1, <2>2 DEF TypeOK, OneAtATime, screen, paper
<1>2. ASSUME NEW d \in Dishes, NEW q \in 0 .. MaxQty, CounterVoid(d, q) PROVE Inv'
  <2>. USE <1>2 DEF CounterVoid
  <2>1. cart' \in [Dishes -> 0 .. MaxQty] /\ cart' \in Food
    BY DEF TypeOK, Food
  <2>2. told' \in Food /\ ahead' \in Food /\ Minus(Parked, cart') \in Food
    BY <2>1, FoodIsFood DEF TypeOK, Parked
  <2>3. doing' \in [who : Who, food : Food, batch : SUBSET Keys] /\ doing'.who \in {"void", "nobody"}
    BY <2>2, DoingIsTyped DEF Who, By, Nobody
  <2>. QED  BY <2>1, <2>2, <2>3 DEF TypeOK, OneAtATime, screen, paper, CounterMay, MainIsFree
<1>3. CASE CounterTicket
  <2>. USE <1>3 DEF CounterTicket
  <2>0. cart \in Food
    BY DEF TypeOK, Food
  <2>1. told' \in Food /\ ahead' \in Food /\ Minus(cart, Parked) \in Food
    BY <2>0, FoodIsFood DEF TypeOK, Parked
  <2>2. doing' \in [who : Who, food : Food, batch : SUBSET Keys]
           /\ (doing' = doing \/ (doing'.who = "counter" /\ Room))
    BY <2>1, DoingIsTyped DEF Who, By, TypeOK
  <2>3. newPaper' \in Food /\ faults' \in 0 .. MaxFaults
    BY <2>1, FoodIsFood DEF TypeOK, Fault
  <2>4. firings' = firings /\ firing' = firing /\ firing = NoCourse
    BY DEF screen, CounterMay, MainIsFree
  <2>5. TypeOK'
    BY <2>1, <2>2, <2>3, <2>4 DEF TypeOK, screen
  <2>6. OneAtATime'
    BY <2>2, <2>4 DEF OneAtATime, Room, TypeOK
  <2>. QED  BY <2>5, <2>6
<1>4. CASE CounterRecord
  <2>. USE <1>4 DEF CounterRecord
  <2>1. ticket' \in [Keys -> Ticket] /\ firings' = firings + 1 /\ crossed' \subseteq 1 .. MaxFirings
    BY SendingKeepsType DEF OneAtATime
  <2>2. told' \in Food
    BY FoodIsFood DEF TypeOK
  <2>3. doing' = Nobody /\ Nobody.who = "nobody" /\ firing = NoCourse /\ firings < MaxFirings
    BY DEF Nobody, OneAtATime
  <2>. QED  BY <2>1, <2>2, <2>3, DoingIsTyped DEF TypeOK, OneAtATime, paper
<1>5. CASE CounterRecordFails
  <2>1. doing' = Nobody /\ Nobody.who = "nobody"
    BY <1>5 DEF CounterRecordFails, Nobody
  <2>. QED  BY <1>5, <2>1, DoingIsTyped DEF CounterRecordFails, Fault, TypeOK, OneAtATime, screen, paper
<1>6. CASE CounterVoidSlip
  <2>1. doing' = Nobody /\ Nobody.who = "nobody"
    BY <1>6 DEF CounterVoidSlip, Nobody
  <2>2. stopPaper' \in Food /\ told' \in Food /\ faults' \in 0 .. MaxFaults
    BY <1>6, FoodIsFood DEF CounterVoidSlip, Fault, TypeOK
  <2>. QED  BY <1>6, <2>1, <2>2, DoingIsTyped DEF CounterVoidSlip, TypeOK, OneAtATime, screen
<1>7. CASE CounterCancel
  <2>1. doing' \in [who : Who, food : Food, batch : SUBSET Keys] /\ doing'.who = "cancel"
    BY <1>7, DoingIsTyped DEF CounterCancel, TypeOK, Who, By
  <2>2. firing = NoCourse
    BY <1>7 DEF CounterCancel, CounterMay, MainIsFree
  <2>. QED  BY <1>7, <2>1, <2>2, FoodIsFood DEF CounterCancel, TypeOK, OneAtATime, screen, paper
<1>8. CASE CounterCancelRest
  <2>1. doing' = Nobody /\ Nobody.who = "nobody"
    BY <1>8 DEF CounterCancelRest, Nobody
  <2>2. stopPaper' \in Food /\ faults' \in 0 .. MaxFaults
    BY <1>8, FoodIsFood DEF CounterCancelRest, Fault, TypeOK
  <2>3. ticket' \in [Keys -> Ticket]
    <3>1. PICK mark \in BOOLEAN :
             ticket' = [k \in Keys |-> IF mark /\ ticket[k].state # "unsent"
                                      THEN [ticket[k] EXCEPT !.cancelled = TRUE] ELSE ticket[k]]
      BY <1>8 DEF CounterCancelRest
    <3>2. \A t \in Ticket : [t EXCEPT !.cancelled = TRUE] \in Ticket
      BY DEF Ticket
    <3>. QED  BY <3>1, <3>2 DEF TypeOK
  <2>. QED  BY <1>8, <2>1, <2>2, <2>3, DoingIsTyped DEF CounterCancelRest, TypeOK, OneAtATime, book
<1>9. CASE Settle
  <2>1. told' \in Food
    BY <1>9, FoodIsFood DEF Settle, Parked, TypeOK
  <2>. QED  BY <1>9, <2>1, ClosingKeepsType, FoodIsFood DEF Settle, TypeOK, OneAtATime, paper
<1>10. CASE Void \/ CloseDay
  BY <1>10, ClosingKeepsType DEF Void, CloseDay, TypeOK, OneAtATime, paper
<1>11. CASE PhoneTicket
  <2>. USE <1>11 DEF PhoneTicket
  <2>0. cart \in Food /\ Pending \in Food
    BY FoodIsFood DEF TypeOK, Food, Pending
  <2>1. ticket' \in [Keys -> Ticket] /\ firings' = firings + 1 /\ crossed' \subseteq 1 .. MaxFirings
    <3>1. firings < MaxFirings
      BY KitchenAssumption DEF Room, TypeOK
    <3>. QED  BY <3>1, SendingKeepsType
  <2>2. told' \in Food /\ ahead' \in Food
    BY <2>0, FoodIsFood DEF TypeOK
  <2>3. doing' \in [who : Who, food : Food, batch : SUBSET Keys] /\ doing'.who \in {"nobody", "phoneNew"}
    BY <2>0, DoingIsTyped DEF Who, By, Nobody
  <2>4. firings' \in 0 .. MaxFirings /\ (firing # NoCourse => firings' < MaxFirings)
    BY <2>1 DEF Room, TypeOK
  <2>. QED  BY <2>1, <2>2, <2>3, <2>4 DEF TypeOK, OneAtATime, paper
<1>12. ASSUME NEW d \in Dishes, NEW q \in 0 .. MaxQty, PhoneVoid(d, q) PROVE Inv'
  <2>. USE <1>12 DEF PhoneVoid
  <2>1. cart' \in [Dishes -> 0 .. MaxQty] /\ cart' \in Food
    BY DEF TypeOK, Food
  <2>2. OverTold(cart') \in Food
    BY <2>1, FoodIsFood DEF TypeOK, OverTold
  <2>3. told' \in Food /\ ahead' \in Food
    BY <2>2, FoodIsFood DEF TypeOK, Refreshed
  <2>4. doing' \in [who : Who, food : Food, batch : SUBSET Keys] /\ doing'.who \in {"nobody", "phoneStop"}
    BY <2>2, DoingIsTyped DEF Who, By, Nobody
  <2>. QED  BY <2>1, <2>3, <2>4 DEF TypeOK, OneAtATime, screen, paper
<1>13. CASE PhonePaper
  <2>1. doing' = Nobody /\ Nobody.who = "nobody"
    BY <1>13 DEF PhonePaper, Nobody
  <2>2. newPaper' \in Food /\ stopPaper' \in Food /\ faults' \in 0 .. MaxFaults
    BY <1>13, FoodIsFood DEF PhonePaper, Fault, TypeOK, paper
  <2>. QED  BY <1>13, <2>1, <2>2, DoingIsTyped DEF PhonePaper, TypeOK, OneAtATime, book, screen
<1>14. CASE PhoneCancel
  BY <1>14, FoodIsFood DEF PhoneCancel, Refreshed, TypeOK, OneAtATime, screen, paper
<1>15. ASSUME NEW k \in Keys, Shown(k) \/ Bump(k) \/ Recall(k) \/ Acknowledge(k) PROVE Inv'
  <2>1. PICK new \in Ticket : Press(k, new)
    BY <1>15 DEF Shown, Bump, Recall, Acknowledge, TypeOK, Ticket, States
  <2>2. ticket' \in [Keys -> Ticket]
    BY <2>1, ClosingKeepsType DEF Press
  <2>. QED  BY <2>1, <2>2 DEF Press, TypeOK, OneAtATime, book, paper
<1>16. ASSUME NEW c \in Courses, FireCheck(c) PROVE Inv'
  <2>1. firing' = c /\ firing = NoCourse /\ firings < MaxFirings
           /\ doing.who \notin {"counter", "void", "cancel"}
    BY <1>16 DEF FireCheck, MainIsFree, Room, TypeOK
  <2>. QED  BY <1>16, <2>1 DEF FireCheck, TypeOK, OneAtATime, book, paper
<1>17. CASE FireSend
  <2>1. ticket' \in [Keys -> Ticket] /\ firings' = firings + 1 /\ crossed' \subseteq 1 .. MaxFirings
    BY <1>17, SendingKeepsType DEF FireSend, TypeOK, OneAtATime
  <2>2. firings < MaxFirings /\ doing.who \notin {"counter", "void", "cancel"}
    BY <1>17 DEF FireSend, OneAtATime
  <2>. QED  BY <1>17, <2>1, <2>2 DEF FireSend, TypeOK, OneAtATime, book, paper
<1>18. CASE Look
  BY <1>18, ClosingKeepsType DEF Look, TypeOK, OneAtATime, book, paper
<1>19. CASE FallbackRead
  <2>1. doing' \in [who : Who, food : Food, batch : SUBSET Keys]
           /\ (doing' = doing \/ doing'.who = "fallback")
    BY <1>19, FoodIsFood DEF FallbackRead, Overdue, Who, TypeOK
  <2>. QED  BY <1>19, <2>1, ClosingKeepsType DEF FallbackRead, TypeOK, OneAtATime, book, paper
<1>20. CASE FallbackPaper
  <2>0. cart \in Food /\ Pending \in Food
    BY FoodIsFood DEF TypeOK, Food, Pending
  <2>1. doing' \in [who : Who, food : Food, batch : SUBSET Keys] /\ doing'.who = "mark"
    BY <1>20 DEF FallbackPaper, Who, TypeOK
  <2>2. newPaper' \in Food /\ told' \in Food /\ faults' \in 0 .. MaxFaults
    BY <1>20, <2>0, FoodIsFood DEF FallbackPaper, Fault, TypeOK
  <2>. QED  BY <1>20, <2>1, <2>2 DEF FallbackPaper, TypeOK, OneAtATime, screen
<1>21. CASE FallbackMark
  <2>1. PICK k \in doing.batch :
           /\ ticket' = IF Reconciled[k].state = "pending"
                        THEN [Reconciled EXCEPT ![k].state = "printed"] ELSE Reconciled
           /\ doing' = IF doing.batch = {k} THEN Nobody
                       ELSE [who |-> "fallback", food |-> NoFood, batch |-> doing.batch \ {k}]
    BY <1>21 DEF FallbackMark
  <2>2. ticket' \in [Keys -> Ticket]
    <3>1. \A t \in Ticket : [t EXCEPT !.state = "printed"] \in Ticket
      BY DEF Ticket, States
    <3>2. Reconciled \in [Keys -> Ticket]
      BY ClosingKeepsType
    <3>. QED  BY <2>1, <3>1, <3>2
  <2>3. doing' \in [who : Who, food : Food, batch : SUBSET Keys] /\ doing'.who \in {"nobody", "fallback"}
    BY <2>1, DoingIsTyped, FoodIsFood DEF TypeOK, Who, Nobody
  <2>. QED  BY <1>21, <2>2, <2>3 DEF FallbackMark, TypeOK, OneAtATime, book, paper
<1>22. CASE DayTurns
  BY <1>22 DEF DayTurns, TypeOK, OneAtATime, screen, paper
<1>23. CASE Restart
  <2>1. doing' = Nobody /\ Nobody.who = "nobody"
    BY <1>23 DEF Restart, Nobody
  <2>. QED  BY <1>23, <2>1, DoingIsTyped, FoodIsFood DEF Restart, Fault, TypeOK, OneAtATime, paper
<1>24. CASE UNCHANGED vars
  BY <1>24 DEF vars, book, screen, paper, TypeOK, OneAtATime
<1>. QED
  BY <1>1, <1>2, <1>3, <1>4, <1>5, <1>6, <1>7, <1>8, <1>9, <1>10, <1>11, <1>12, <1>13, <1>14,
     <1>15, <1>16, <1>17, <1>18, <1>19, <1>20, <1>21, <1>22, <1>23, <1>24
     DEF Next, Counter, Phone, Screen, Fallback

(* Types, and one thing at a time, hold in every reachable state.          *)
THEOREM InvHolds == Spec => []Inv
BY InvInit, InvStep, PTL DEF Spec

(* Type correctness: every reachable state of every kitchen is well typed. *)
THEOREM TypeHolds == Spec => []TypeOK
BY InvHolds, PTL DEF Inv

----------------------------------------------------------------------------
(* The paper adds up.  A void about to be told is of food that was told,   *)
(* and the counter's memory is ahead of the disk only after a fault.       *)
PaperInv ==
    /\ doing.who = "void" => \A d \in Dishes : doing.food[d] <= told[d]
    /\ doing.who = "cancel" => order = "cancelled"
    /\ faults = 0 => ahead = NoFood
    /\ PaperTellsTheLedger

(* What the arithmetic of food is, dish by dish.                           *)
LEMMA FoodByDish ==
    ASSUME NEW d \in Dishes
    PROVE /\ NoFood[d] = 0
          /\ \A f, g \in Food : /\ f[d] \in Nat
                               /\ Plus(f, g)[d] = f[d] + g[d]
                               /\ Minus(f, g)[d] = IF f[d] > g[d] THEN f[d] - g[d] ELSE 0
BY DEF Food, NoFood, Plus, Minus

(* While the counter's memory is not ahead of the disk, parking the order  *)
(* changes no ledger.                                                      *)
LEMMA AddingNothing ==
    ASSUME TypeOK, ahead = NoFood
    PROVE Parked = told
BY DEF TypeOK, Food, Parked, Plus, NoFood

(* Nobody and a holder of the lock are told apart, and a holder carries    *)
(* what it took.                                                           *)
LEMMA ByFields ==
    /\ Nobody.who = "nobody"
    /\ \A w \in Who, f \in Food : By(w, f).who = w /\ By(w, f).food = f
BY DEF Nobody, By

(* What the paper is short or ahead of, for each of the steps it depends on. *)
LEMMA BetweenWhat ==
    ASSUME NEW d \in Dishes
    PROVE /\ doing.who \in {"counter", "phoneStop"} => Between(d) = doing.food[d]
          /\ doing.who = "phoneNew" => Between(d) = -doing.food[d]
          /\ doing.who \notin {"counter", "phoneStop", "phoneNew"} => Between(d) = 0
BY DEF Between

(* Nothing told, nothing printed: paper and ledger start in agreement.     *)
THEOREM PaperInit == Init => PaperInv
BY KitchenAssumption DEF Init, PaperInv, PaperTellsTheLedger, OnPaper, Between, Nobody, NoFood

(* No step of a shop that prints its tickets and has had no fault lets     *)
(* paper and ledger part: each road owes exactly what it holds between its *)
(* two halves.                                                             *)
THEOREM PaperStep == Inv /\ Inv' /\ PaperInv /\ [Next]_vars => PaperInv'
<1>. SUFFICES ASSUME Inv, Inv', PaperInv, [Next]_vars PROVE PaperInv'
  OBVIOUS
<1>. USE DEF Inv
<1>0. TypeOK /\ TypeOK' /\ cart \in Food /\ cart' \in Food /\ told \in Food /\ told' \in Food
        /\ ahead \in Food /\ newPaper \in Food /\ newPaper' \in Food
        /\ stopPaper \in Food /\ stopPaper' \in Food /\ doing.food \in Food /\ doing'.food \in Food
        /\ faults \in Nat /\ doing.who \in Who
  BY DEF TypeOK, Food
<1>. DEFINE Adds == \A d \in Dishes : OnPaper(d) = told[d] + Between(d)
            Calm == ~TicketOff /\ faults = 0 /\ faults' = 0 /\ ahead = NoFood /\ Adds
<1>1. ASSUME doing'.who = "void" => \A d \in Dishes : doing'.food[d] <= told'[d],
             faults' = 0 => faults = 0 /\ (faults = 0 /\ ahead = NoFood => ahead' = NoFood),
             order' # "cancelled" => order # "cancelled",
             doing'.who = "cancel" => order' = "cancelled",
             order' # "cancelled" /\ Calm => Adds'
      PROVE PaperInv'
  BY <1>1 DEF PaperInv, PaperTellsTheLedger
<1>2. ASSUME UNCHANGED <<told, ahead, doing, newPaper, stopPaper, faults>>,
             order' # "cancelled" => order # "cancelled"
      PROVE PaperInv'
  <2>1. Adds => Adds'
    BY <1>2 DEF OnPaper, Between
  <2>. QED  BY <1>1, <1>2, <2>1 DEF PaperInv
<1>3. ASSUME NEW d \in Dishes, Add(d) PROVE PaperInv'
  <2>1. Calm => Adds'
    BY <1>3, AddingNothing DEF Add, OnPaper, Between, Refreshed, paper
  <2>2. doing = Nobody /\ doing' = doing /\ doing.who = "nobody"
    BY <1>3, ByFields DEF Add, LockIsFree
  <2>. QED  BY <1>1, <1>3, <2>1, <2>2 DEF Add, Refreshed
<1>4. ASSUME NEW d \in Dishes, NEW q \in 0 .. MaxQty, CounterVoid(d, q) PROVE PaperInv'
  <2>. USE <1>4 DEF CounterVoid
  <2>1. told' = Parked /\ Minus(Parked, cart') \in Food
    BY <1>0, FoodIsFood
  <2>2. doing = Nobody /\ doing.who = "nobody"
           /\ (doing' = Nobody \/ (doing'.who = "void" /\ doing'.food = Minus(told', cart')))
    BY <2>1, ByFields DEF CounterMay, LockIsFree, Who
  <2>3. doing'.who = "void" => \A x \in Dishes : doing'.food[x] <= told'[x]
    <3>1. \A x \in Dishes : Minus(told', cart')[x] <= told'[x]
      BY <1>0, FoodByDish
    <3>. QED  BY <2>2, <3>1, ByFields
  <2>4. Calm => Adds'
    <3>1. doing'.who \in {"nobody", "void"}
      BY <2>2, ByFields
    <3>2. \A x \in Dishes : Between(x) = 0 /\ Between(x)' = 0
      BY <2>2, <3>1 DEF Between
    <3>. QED  BY <2>1, <3>2, AddingNothing DEF OnPaper, paper
  <2>. QED  BY <1>1, <2>2, <2>3, <2>4, ByFields
<1>5. CASE CounterTicket
  <2>. USE <1>5 DEF CounterTicket
  <2>1. doing = Nobody /\ doing.who = "nobody"
    BY ByFields DEF CounterMay, LockIsFree
  <2>2. CASE doing' = doing /\ newPaper' = newPaper
    <3>1. Calm => Adds'
      BY <2>2, AddingNothing DEF OnPaper, Between
    <3>. QED  BY <1>1, <2>1, <2>2, <3>1 DEF Fault, TypeOK
  <2>3. CASE /\ doing' = By("counter", Minus(cart, Parked)) /\ UNCHANGED faults
             /\ newPaper' = IF TicketOff THEN newPaper ELSE Plus(newPaper, Minus(cart, Parked))
    <3>1. Minus(cart, Parked) \in Food
      BY <1>0, FoodIsFood DEF Parked
    <3>2. doing'.who = "counter" /\ doing'.food = Minus(cart, Parked)
      BY <2>3, <3>1, ByFields DEF Who
    <3>3. Calm => Adds'
      <4>1. SUFFICES ASSUME Calm, NEW d \in Dishes PROVE OnPaper(d)' = told'[d] + Between(d)'
        OBVIOUS
      <4>2. newPaper'[d] = newPaper[d] + doing'.food[d]
        BY <1>0, <2>3, <3>1, <3>2, <4>1, FoodByDish
      <4>3. Between(d) = 0 /\ Between(d)' = doing'.food[d]
        BY <2>1, <3>2 DEF Between
      <4>4. told' = told
        BY <4>1, AddingNothing
      <4>. QED  BY <1>0, <4>1, <4>2, <4>3, <4>4, FoodByDish DEF OnPaper
    <3>. QED  BY <1>1, <2>3, <3>2, <3>3
  <2>. QED  BY <2>2, <2>3
<1>6. CASE CounterRecord
  <2>. USE <1>6 DEF CounterRecord
  <2>1. doing'.who = "nobody"
    BY ByFields
  <2>2. Calm => Adds'
    <3>1. SUFFICES ASSUME Calm, NEW d \in Dishes PROVE OnPaper(d)' = told'[d] + Between(d)'
      OBVIOUS
    <3>2. told'[d] = told[d] + doing.food[d]
      BY <1>0, FoodByDish
    <3>3. Between(d) = doing.food[d] /\ Between(d)' = 0
      BY <2>1 DEF Between
    <3>. QED  BY <1>0, <3>1, <3>2, <3>3, FoodByDish DEF OnPaper, paper
  <2>. QED  BY <1>1, <2>1, <2>2
<1>7. CASE CounterRecordFails \/ Restart
  <2>1. doing'.who = "nobody" /\ faults' # 0 /\ order' = order
    BY <1>0, <1>7, ByFields DEF CounterRecordFails, Restart, Fault
  <2>. QED  BY <1>1, <2>1
<1>8. CASE CounterVoidSlip
  <2>. USE <1>8 DEF CounterVoidSlip
  <2>1. doing'.who = "nobody"
    BY ByFields
  <2>2. Calm => Adds'
    <3>1. SUFFICES ASSUME Calm, NEW d \in Dishes PROVE OnPaper(d)' = told'[d] + Between(d)'
      OBVIOUS
    <3>2. stopPaper' = Plus(stopPaper, doing.food) /\ told' = Minus(told, doing.food)
      BY <1>0, <3>1 DEF Fault
    <3>3. doing.food[d] <= told[d]
      BY DEF PaperInv
    <3>4. told'[d] = told[d] - doing.food[d] /\ stopPaper'[d] = stopPaper[d] + doing.food[d]
      <4>1. told[d] \in Nat /\ doing.food[d] \in Nat
        BY <1>0, FoodByDish
      <4>2. Minus(told, doing.food)[d] = IF told[d] > doing.food[d] THEN told[d] - doing.food[d] ELSE 0
        BY <1>0, FoodByDish
      <4>3. Plus(stopPaper, doing.food)[d] = stopPaper[d] + doing.food[d]
        BY <1>0, FoodByDish
      <4>. QED  BY <3>2, <3>3, <4>1, <4>2, <4>3
    <3>5. Between(d) = 0 /\ Between(d)' = 0
      BY <2>1 DEF Between
    <3>. QED  BY <1>0, <3>1, <3>4, <3>5, FoodByDish DEF OnPaper
  <2>3. (faults' = 0 => faults = 0) /\ ahead' = ahead /\ order' = order
    BY <1>0 DEF Fault
  <2>. QED  BY <1>1, <2>1, <2>2, <2>3
<1>9. CASE CounterCancel
  <2>1. doing'.who = "cancel"
    BY <1>0, <1>9, ByFields DEF CounterCancel, Who
  <2>. QED  BY <1>1, <1>9, <2>1 DEF CounterCancel, paper
<1>10. CASE CounterCancelRest
  <2>1. doing'.who = "nobody" /\ doing.who = "cancel"
    BY <1>10, ByFields DEF CounterCancelRest
  <2>2. PICK slip \in BOOLEAN, mark \in BOOLEAN :
           /\ stopPaper' = IF slip THEN Plus(stopPaper, doing.food) ELSE stopPaper
           /\ IF slip /\ mark THEN UNCHANGED faults ELSE Fault
    BY <1>10 DEF CounterCancelRest
  <2>3. order = "cancelled" /\ order' = "cancelled"
    BY <1>10, <2>1 DEF CounterCancelRest, book, PaperInv
  <2>. QED  BY <1>0, <1>1, <1>10, <2>1, <2>2, <2>3 DEF CounterCancelRest, Fault, book
<1>11. CASE Settle
  <2>1. Calm => Adds'
    BY <1>11, AddingNothing DEF Settle, OnPaper, Between, paper
  <2>2. doing' = Nobody /\ doing'.who = "nobody"
    BY <1>11, ByFields DEF Settle, CounterMay, LockIsFree
  <2>. QED  BY <1>1, <1>11, <2>1, <2>2 DEF Settle
<1>12. CASE PhoneTicket
  <2>. USE <1>12 DEF PhoneTicket
  <2>0. Pending \in Food
    BY <1>0, FoodIsFood DEF Pending
  <2>1. doing = Nobody /\ doing.who = "nobody" /\ doing'.who \in {"nobody", "phoneNew"}
           /\ (~TicketOff => doing'.who = "phoneNew" /\ doing'.food = Pending)
    BY <2>0, ByFields DEF LockIsFree, Who
  <2>2. Calm => Adds'
    <3>1. SUFFICES ASSUME Calm, NEW d \in Dishes PROVE OnPaper(d)' = told'[d] + Between(d)'
      OBVIOUS
    <3>2. told'[d] = told[d] + Pending[d]
      BY <1>0, <2>0, FoodByDish
    <3>3. Between(d) = 0 /\ Between(d)' = -Pending[d]
      BY <2>1, <3>1 DEF Between
    <3>. QED  BY <1>0, <2>0, <3>1, <3>2, <3>3, FoodByDish DEF OnPaper, paper
  <2>. QED  BY <1>1, <2>1, <2>2
<1>13. ASSUME NEW d \in Dishes, NEW q \in 0 .. MaxQty, PhoneVoid(d, q) PROVE PaperInv'
  <2>. USE <1>13 DEF PhoneVoid
  <2>0. OverTold(cart') \in Food
    BY <1>0, FoodIsFood DEF OverTold
  <2>1. doing = Nobody /\ doing.who = "nobody" /\ doing'.who \in {"nobody", "phoneStop"}
           /\ (~TicketOff => \/ doing'.who = "phoneStop" /\ doing'.food = OverTold(cart')
                             \/ doing'.who = "nobody" /\ OverTold(cart') = NoFood)
    BY <2>0, ByFields DEF LockIsFree, Who
  <2>2. Calm => Adds'
    <3>1. SUFFICES ASSUME Calm, NEW x \in Dishes PROVE OnPaper(x)' = told'[x] + Between(x)'
      OBVIOUS
    <3>2. OverTold(cart')[x] <= told[x]
      <4>1. told[x] \in Nat /\ cart'[x] \in Nat
        BY <1>0 DEF Food
      <4>2. OverTold(cart')[x] = IF told[x] > cart'[x] THEN told[x] - cart'[x] ELSE 0
        BY DEF OverTold, Minus
      <4>. QED  BY <4>1, <4>2
    <3>3. told'[x] = told[x] - OverTold(cart')[x]
      BY <1>0, <2>0, <3>2, FoodByDish
    <3>4. Between(x) = 0 /\ Between(x)' = OverTold(cart')[x]
      BY <2>1, <3>1, FoodByDish DEF Between
    <3>. QED  BY <1>0, <2>0, <3>1, <3>3, <3>4, FoodByDish DEF OnPaper, paper
  <2>. QED  BY <1>1, <2>1, <2>2 DEF Refreshed
<1>14. CASE PhonePaper
  <2>. USE <1>14 DEF PhonePaper
  <2>1. doing'.who = "nobody"
    BY ByFields
  <2>2. Calm => Adds'
    <3>1. SUFFICES ASSUME Calm, NEW d \in Dishes PROVE OnPaper(d)' = told'[d] + Between(d)'
      OBVIOUS
    <3>2. told' = told /\ Between(d)' = 0
      BY <2>1 DEF Between, book
    <3>5. /\ newPaper[d] \in Nat /\ stopPaper[d] \in Nat /\ told[d] \in Nat /\ doing.food[d] \in Nat
          /\ newPaper[d] - stopPaper[d] = told[d] + Between(d)
      BY <1>0, <3>1, FoodByDish DEF OnPaper
    <3>3. CASE doing.who = "phoneNew"
      <4>1. newPaper'[d] = newPaper[d] + doing.food[d] /\ stopPaper' = stopPaper
        BY <1>0, <3>1, <3>3, FoodByDish DEF Fault
      <4>2. Between(d) = -doing.food[d]
        BY <3>3 DEF Between
      <4>3. newPaper'[d] - stopPaper'[d] = told[d]
        BY <3>5, <4>1, <4>2
      <4>. QED  BY <3>2, <3>5, <4>3 DEF OnPaper
    <3>4. CASE doing.who = "phoneStop"
      <4>1. stopPaper'[d] = stopPaper[d] + doing.food[d] /\ newPaper' = newPaper
        BY <1>0, <3>1, <3>4, FoodByDish DEF Fault
      <4>2. Between(d) = doing.food[d]
        BY <3>4 DEF Between
      <4>3. newPaper'[d] - stopPaper'[d] = told[d]
        BY <3>5, <4>1, <4>2
      <4>. QED  BY <3>2, <3>5, <4>3 DEF OnPaper
    <3>. QED  BY <3>3, <3>4
  <2>. QED  BY <1>0, <1>1, <2>1, <2>2 DEF Fault, book
<1>15. CASE PhoneCancel
  BY <1>1, <1>15, ByFields DEF PhoneCancel, LockIsFree, Refreshed
<1>16. CASE Void \/ CloseDay \/ DayTurns \/ Look
  BY <1>2, <1>16 DEF Void, CloseDay, DayTurns, Look, book, paper, screen
<1>17. ASSUME NEW k \in Keys, Shown(k) \/ Bump(k) \/ Recall(k) \/ Acknowledge(k) PROVE PaperInv'
  BY <1>2, <1>17 DEF Shown, Bump, Recall, Acknowledge, Press, book, paper
<1>18. ASSUME NEW c \in Courses, FireCheck(c) PROVE PaperInv'
  BY <1>2, <1>18 DEF FireCheck, book, paper
<1>19. CASE FireSend
  BY <1>2, <1>19 DEF FireSend, book, paper
<1>20. CASE FallbackRead
  <2>1. doing.who = "nobody" /\ doing'.who \in {"nobody", "fallback"}
    BY <1>20, ByFields DEF FallbackRead, LockIsFree
  <2>2. Adds => Adds'
    BY <1>20, <2>1 DEF FallbackRead, OnPaper, Between, book, paper
  <2>. QED  BY <1>1, <1>20, <2>1, <2>2 DEF FallbackRead, book
<1>21. CASE FallbackPaper
  <2>. USE <1>21 DEF FallbackPaper
  <2>0. Pending \in Food
    BY <1>0, FoodIsFood DEF Pending
  <2>1. doing'.who = "mark"
    BY DEF TypeOK
  <2>2. Calm => Adds'
    <3>1. SUFFICES ASSUME Calm, NEW d \in Dishes PROVE OnPaper(d)' = told'[d] + Between(d)'
      OBVIOUS
    <3>2. newPaper'[d] = newPaper[d] + Pending[d] /\ told'[d] = told[d] + Pending[d]
      BY <1>0, <2>0, <3>1, FoodByDish DEF Fault
    <3>3. Between(d) = 0 /\ Between(d)' = 0
      BY <2>1 DEF Between
    <3>. QED  BY <1>0, <2>0, <3>1, <3>2, <3>3, FoodByDish DEF OnPaper
  <2>. QED  BY <1>0, <1>1, <2>1, <2>2 DEF Fault
<1>22. CASE FallbackMark
  <2>1. doing.who = "mark" /\ doing'.who \in {"nobody", "fallback"}
    BY <1>22, ByFields DEF FallbackMark
  <2>2. Adds => Adds'
    BY <1>22, <2>1 DEF FallbackMark, OnPaper, Between, book, paper
  <2>. QED  BY <1>1, <1>22, <2>1, <2>2 DEF FallbackMark, book
<1>23. CASE UNCHANGED vars
  BY <1>2, <1>23 DEF vars, book, paper
<1>. QED
  BY <1>3, <1>4, <1>5, <1>6, <1>7, <1>8, <1>9, <1>10, <1>11, <1>12, <1>13, <1>14,
     <1>15, <1>16, <1>17, <1>18, <1>19, <1>20, <1>21, <1>22, <1>23
     DEF Next, Counter, Phone, Screen, Fallback

(* What the slips ask of the cooks is what the ledger says was told, at    *)
(* every moment between the two halves of a ticket, a void or a            *)
(* cancellation (flows.rs:335, corrections.rs:1526, orders.rs:171).        *)
THEOREM PaperHolds == Spec => []PaperTellsTheLedger
BY InvHolds, InvInit, InvStep, PaperInit, PaperStep, PTL DEF Spec, PaperInv

----------------------------------------------------------------------------
(* The tickets.  Only three steps send one; none is ever taken back.       *)
Keeps ==
    /\ firings' = firings /\ crossed' = crossed
    /\ \A k \in Keys : /\ ticket'[k].state = "unsent" <=> ticket[k].state = "unsent"
                       /\ ticket'[k].course = ticket[k].course

UnusedIsUnsent == \A k \in Keys : k[1] > firings => ticket[k].state = "unsent"

(* Closing an order's tickets unsends none and moves none to another       *)
(* course.                                                                 *)
LEMMA ClosingKeepsTickets ==
    ASSUME TypeOK, NEW k \in Keys
    PROVE /\ Reconciled[k].state = "unsent" <=> ticket[k].state = "unsent"
          /\ Reconciled[k].course = ticket[k].course
          /\ CloseAll[k].state = "unsent" <=> ticket[k].state = "unsent"
          /\ CloseAll[k].course = ticket[k].course
BY DEF TypeOK, Ticket, Reconciled, CloseAll, Closed

(* Only the counter's record, the phone's ticket and a fired course send a *)
(* ticket; every other step leaves the sent ones as they are.              *)
LEMMA OnlySendingSends ==
    ASSUME Inv, [Next]_vars
    PROVE Keeps \/ CounterRecord \/ PhoneTicket \/ FireSend
<1>. USE DEF Inv
<1>1. ticket' = ticket /\ firings' = firings /\ crossed' = crossed => Keeps
  BY DEF Keeps
<1>2. (ticket' = CloseAll \/ ticket' = Reconciled) /\ firings' = firings /\ crossed' = crossed => Keeps
  BY ClosingKeepsTickets DEF Keeps
<1>3. ASSUME NEW d \in Dishes, NEW q \in 0 .. MaxQty, CounterVoid(d, q) \/ PhoneVoid(d, q)
      PROVE Keeps
  BY <1>1, <1>3 DEF CounterVoid, PhoneVoid, screen
<1>10. ASSUME NEW d \in Dishes, Add(d) PROVE Keeps
  BY <1>1, <1>10 DEF Add, screen
<1>4. CASE \/ CounterTicket \/ CounterRecordFails \/ CounterVoidSlip \/ CounterCancel
           \/ PhonePaper \/ PhoneCancel \/ FallbackPaper \/ DayTurns \/ Restart \/ UNCHANGED vars
  BY <1>1, <1>4 DEF CounterTicket, CounterRecordFails, CounterVoidSlip, CounterCancel,
     PhonePaper, PhoneCancel, FallbackPaper, DayTurns, Restart, vars, screen
<1>5. CASE Settle \/ Void \/ CloseDay \/ Look \/ FallbackRead
  BY <1>1, <1>2, <1>5 DEF Settle, Void, CloseDay, Look, FallbackRead
<1>6. CASE CounterCancelRest
  <2>1. PICK mark \in BOOLEAN :
           ticket' = [k \in Keys |-> IF mark /\ ticket[k].state # "unsent"
                                     THEN [ticket[k] EXCEPT !.cancelled = TRUE] ELSE ticket[k]]
    BY <1>6 DEF CounterCancelRest
  <2>2. \A t \in Ticket : /\ [t EXCEPT !.cancelled = TRUE].state = t.state
                          /\ [t EXCEPT !.cancelled = TRUE].course = t.course
    BY DEF Ticket
  <2>. QED  BY <1>6, <2>1, <2>2 DEF CounterCancelRest, Keeps, TypeOK
<1>7. ASSUME NEW k \in Keys, Shown(k) \/ Bump(k) \/ Recall(k) \/ Acknowledge(k) PROVE Keeps
  <2>1. PICK new \in Ticket : /\ Press(k, new) /\ new.state # "unsent" /\ ticket[k].state # "unsent"
                              /\ new.course = ticket[k].course
    <3>0. ticket[k] \in Ticket
      BY DEF TypeOK
    <3>1. CASE Acknowledge(k)
      <4>1. Press(k, [ticket[k] EXCEPT !.state = IF @ = "bumped" THEN @ ELSE "closed"])
        BY <3>1 DEF Acknowledge
      <4>2. ticket[k].state # "unsent"
        BY <4>1, ClosingKeepsTickets DEF Press
      <4>3. ASSUME NEW t \in Ticket, t.state # "unsent"
            PROVE LET seen == [t EXCEPT !.state = IF @ = "bumped" THEN @ ELSE "closed"]
                  IN seen \in Ticket /\ seen.state # "unsent" /\ seen.course = t.course
        BY <4>3 DEF Ticket, States
      <4>. QED  BY <3>0, <4>1, <4>2, <4>3
    <3>2. CASE Shown(k)
      <4>1. /\ Press(k, [ticket[k] EXCEPT !.state = "shown", !.shown = TRUE])
            /\ ticket[k].state = "pending"
        BY <3>2 DEF Shown
      <4>2. ASSUME NEW t \in Ticket
            PROVE /\ [t EXCEPT !.state = "shown", !.shown = TRUE] \in Ticket
                  /\ [t EXCEPT !.state = "shown", !.shown = TRUE].state = "shown"
                  /\ [t EXCEPT !.state = "shown", !.shown = TRUE].course = t.course
        BY DEF Ticket, States
      <4>. QED  BY <3>0, <4>1, <4>2
    <3>3. CASE Bump(k)
      <4>1. Press(k, [ticket[k] EXCEPT !.state = "bumped"]) /\ ticket[k].state \in {"shown", "printed"}
        BY <3>3 DEF Bump
      <4>2. ASSUME NEW t \in Ticket
            PROVE /\ [t EXCEPT !.state = "bumped"] \in Ticket
                  /\ [t EXCEPT !.state = "bumped"].state = "bumped"
                  /\ [t EXCEPT !.state = "bumped"].course = t.course
        BY DEF Ticket, States
      <4>. QED  BY <3>0, <4>1, <4>2
    <3>4. CASE Recall(k)
      <4>1. /\ Press(k, [ticket[k] EXCEPT !.state = IF ticket[k].shown THEN "shown" ELSE "printed"])
            /\ ticket[k].state = "bumped"
        BY <3>4 DEF Recall
      <4>. QED  BY <3>0, <4>1 DEF Ticket, States
    <3>. QED  BY <1>7, <3>1, <3>2, <3>3, <3>4
  <2>2. Reconciled \in [Keys -> Ticket]
    BY ClosingKeepsType
  <2>. QED  BY <2>1, <2>2, ClosingKeepsTickets DEF Press, Keeps
<1>8. ASSUME NEW c \in Courses, FireCheck(c) PROVE Keeps
  BY <1>1, <1>8 DEF FireCheck
<1>9. CASE FallbackMark
  <2>1. PICK k \in doing.batch :
           ticket' = IF Reconciled[k].state = "pending"
                     THEN [Reconciled EXCEPT ![k].state = "printed"] ELSE Reconciled
    BY <1>9 DEF FallbackMark
  <2>2. \A t \in Ticket : /\ [t EXCEPT !.state = "printed"].state = "printed"
                          /\ [t EXCEPT !.state = "printed"].course = t.course
    BY DEF Ticket
  <2>3. Reconciled \in [Keys -> Ticket] /\ k \in Keys
    BY ClosingKeepsType DEF TypeOK
  <2>. QED  BY <1>9, <2>1, <2>2, <2>3, ClosingKeepsTickets DEF FallbackMark, Keeps
<1>. QED
  BY <1>3, <1>4, <1>5, <1>6, <1>7, <1>8, <1>9, <1>10 DEF Next, Counter, Phone, Screen, Fallback

(* A sending leaves earlier tickets alone, gives the new ones its own      *)
(* course and number, and puts a card on the screen of every dish it       *)
(* speaks of.                                                              *)
LEMMA SendingSends ==
    ASSUME TypeOK, UnusedIsUnsent, firings < MaxFirings,
           NEW c \in Courses \cup {All}, NEW food, SendIn(c, food)
    PROVE /\ \A k \in Keys : ticket[k].state # "unsent" => ticket'[k] = ticket[k]
          /\ \A k \in Keys : ticket[k].state = "unsent" /\ ticket'[k].state # "unsent"
                                => ticket'[k].course = c /\ k[1] = firings + 1
          /\ UnusedIsUnsent'
          /\ \A d \in Dishes : Has(food, d) /\ OfCourse(c, d) => CardFor(d)'
<1>. DEFINE where == {StationOf[d] : d \in {x \in Dishes : Has(food, x) /\ OfCourse(c, x)}}
            at == IF where = {} THEN {DefaultStation} ELSE where
            sent == [state |-> "pending", course |-> c, shown |-> FALSE,
                     cancelled |-> FALSE]
<1>1. firings' = firings + 1 /\ firings \in Nat
        /\ \A k \in Keys : ticket'[k] = IF k[1] = firings + 1 /\ k[2] \in at THEN sent ELSE ticket[k]
  BY KitchenAssumption DEF SendIn, TypeOK
<1>2. sent.state = "pending" /\ sent.course = c
  OBVIOUS
<1>. HIDE DEF sent, at
<1>3. \A k \in Keys : ticket[k].state # "unsent" => ticket'[k] = ticket[k]
  BY <1>1 DEF UnusedIsUnsent, Keys
<1>4. \A k \in Keys : ticket[k].state = "unsent" /\ ticket'[k].state # "unsent"
                         => ticket'[k].course = c /\ k[1] = firings + 1
  BY <1>1, <1>2
<1>5. UnusedIsUnsent'
  BY <1>1 DEF UnusedIsUnsent, Keys
<1>6. ASSUME NEW d \in Dishes, Has(food, d), OfCourse(c, d) PROVE CardFor(d)'
  <2>. DEFINE key == <<firings + 1, StationOf[d]>>
  <2>1. key \in Keys /\ key[1] = firings + 1 /\ key[2] = StationOf[d]
    BY <1>1, KitchenAssumption DEF Keys, TypeOK
  <2>2. key[2] \in at
    BY <1>6, <2>1 DEF at
  <2>3. ticket'[key] = sent
    BY <1>1, <2>1, <2>2
  <2>. HIDE DEF key
  <2>. QED  BY <1>2, <1>6, <2>1, <2>3 DEF CardFor, OfCourse
<1>. QED  BY <1>3, <1>4, <1>5, <1>6

(* A step either keeps the tickets or sends some.                          *)
LEMMA TicketsStay ==
    ASSUME Inv, UnusedIsUnsent, [Next]_vars
    PROVE /\ \A k \in Keys : ticket[k].state # "unsent"
                                => ticket'[k].state # "unsent" /\ ticket'[k].course = ticket[k].course
          /\ UnusedIsUnsent'
<1>1. CASE Keeps
  BY <1>1 DEF Keeps, UnusedIsUnsent
<1>2. ASSUME NEW c \in Courses \cup {All}, NEW food, SendIn(c, food), firings < MaxFirings
      PROVE /\ \A k \in Keys : ticket[k].state # "unsent"
                                  => ticket'[k].state # "unsent" /\ ticket'[k].course = ticket[k].course
            /\ UnusedIsUnsent'
  BY <1>2, SendingSends DEF Inv
<1>3. CASE CounterRecord
  BY <1>2, <1>3 DEF CounterRecord, Inv, OneAtATime
<1>4. CASE PhoneTicket
  <2>1. SendIn(All, cart) /\ firings < MaxFirings
    BY <1>4, KitchenAssumption DEF PhoneTicket, Inv, Room, TypeOK
  <2>. QED  BY <1>2, <2>1
<1>5. CASE FireSend
  BY <1>2, <1>5 DEF FireSend, Inv, OneAtATime, TypeOK
<1>. QED  BY <1>1, <1>3, <1>4, <1>5, OnlySendingSends

----------------------------------------------------------------------------
(* The ledger is never ahead of the kitchen.  What the counter has printed *)
(* and not recorded is on paper already, and its memory may be ahead of    *)
(* the disk by that much.                                                  *)
Marked(d) == IF ~TicketOff /\ doing.who = "counter" THEN doing.food[d] ELSE 0
Trusted == ~TicketOff \/ faults = 0

KnownInv ==
    /\ UnusedIsUnsent
    /\ doing.who = "counter" => /\ ahead = NoFood
                                /\ \A d \in Dishes : doing.food[d] > 0 => cart[d] > 0
    /\ Trusted => \A d \in Dishes : CardFor(d) \/ newPaper[d] >= told[d] + ahead[d] + Marked(d)

(* With nothing told there is nothing the kitchen should know.             *)
THEOREM KnownInit == Init => KnownInv
BY KitchenAssumption DEF Init, KnownInv, UnusedIsUnsent, Marked, Nobody, NoFood, Keys

(* No step tells the ledger of food that neither a screen's card nor a     *)
(* slip carries, unless paper was off and something failed.                *)
THEOREM KnownStep == Inv /\ Inv' /\ KnownInv /\ [Next]_vars => KnownInv'
<1>. SUFFICES ASSUME Inv, Inv', KnownInv, [Next]_vars PROVE KnownInv'
  OBVIOUS
<1>. USE DEF Inv
<1>0. TypeOK /\ TypeOK' /\ cart \in Food /\ cart' \in Food /\ told \in Food /\ told' \in Food
        /\ ahead \in Food /\ ahead' \in Food /\ newPaper \in Food /\ newPaper' \in Food
        /\ doing.food \in Food /\ doing'.food \in Food /\ faults \in Nat /\ doing.who \in Who
  BY DEF TypeOK, Food
<1>1. UnusedIsUnsent' /\ \A d \in Dishes : CardFor(d) => CardFor(d)'
  BY TicketsStay DEF KnownInv, CardFor, OfCourse
<1>2. \A d \in Dishes : /\ cart[d] \in Nat /\ told[d] \in Nat /\ told'[d] \in Nat /\ ahead[d] \in Nat
                        /\ ahead'[d] \in Nat /\ newPaper[d] \in Nat /\ newPaper'[d] \in Nat
                        /\ doing.food[d] \in Nat /\ doing'.food[d] \in Nat /\ NoFood[d] = 0
  BY <1>0, FoodByDish
<1>3. \A d \in Dishes : Marked(d) \in Nat /\ (doing.who # "counter" => Marked(d) = 0)
                        /\ (doing'.who # "counter" => Marked(d)' = 0)
  BY <1>2 DEF Marked
<1>4. ASSUME doing'.who # "counter",
             Trusted' => Trusted,
             Trusted' /\ Trusted => \A d \in Dishes :
                \/ CardFor(d)'
                \/ /\ newPaper'[d] >= newPaper[d]
                   /\ told'[d] + ahead'[d] <= told[d] + ahead[d] + Marked(d)
                \/ newPaper'[d] - newPaper[d] = told'[d] - told[d] /\ ahead'[d] <= ahead[d]
      PROVE KnownInv'
  BY <1>1, <1>2, <1>3, <1>4 DEF KnownInv
<1>5. ASSUME doing'.who # "counter", faults' = faults \/ Fault, newPaper' = newPaper,
             \/ UNCHANGED <<told, ahead>>
             \/ told' = Parked /\ ahead' = NoFood
             \/ told' = told /\ Refreshed
      PROVE KnownInv'
  <2>1. \A d \in Dishes : Parked[d] = told[d] + ahead[d]
    BY <1>0, FoodByDish DEF Parked
  <2>2. Trusted' => Trusted
    BY <1>0, <1>5 DEF Trusted, Fault
  <2>3. \A d \in Dishes : /\ newPaper'[d] >= newPaper[d]
                          /\ told'[d] + ahead'[d] <= told[d] + ahead[d] + Marked(d)
    BY <1>2, <1>3, <1>5, <2>1 DEF Refreshed
  <2>. QED  BY <1>4, <1>5, <2>2, <2>3
<1>6. ASSUME NEW d \in Dishes, Add(d) PROVE KnownInv'
  BY <1>5, <1>6, ByFields DEF Add, LockIsFree, paper
<1>7. ASSUME NEW d \in Dishes, NEW q \in 0 .. MaxQty, CounterVoid(d, q) PROVE KnownInv'
  <2>1. Minus(Parked, cart') \in Food
    BY <1>0, FoodIsFood DEF Parked
  <2>2. doing'.who # "counter"
    BY <1>7, <2>1, ByFields DEF CounterVoid, Who
  <2>. QED  BY <1>5, <1>7, <2>2 DEF CounterVoid, paper
<1>8. CASE CounterTicket
  <2>. USE <1>8 DEF CounterTicket
  <2>1. doing.who = "nobody"
    BY ByFields DEF CounterMay, LockIsFree
  <2>2. CASE doing' = doing /\ newPaper' = newPaper /\ (faults' = faults \/ Fault)
    BY <1>5, <2>1, <2>2
  <2>3. CASE /\ doing' = By("counter", Minus(cart, Parked)) /\ UNCHANGED faults
             /\ newPaper' = IF TicketOff THEN newPaper ELSE Plus(newPaper, Minus(cart, Parked))
    <3>1. Minus(cart, Parked) \in Food /\ Parked \in Food
      BY <1>0, FoodIsFood DEF Parked
    <3>2. doing'.who = "counter" /\ doing'.food = Minus(cart, Parked)
      BY <2>3, <3>1, ByFields DEF Who
    <3>3. \A d \in Dishes : doing'.food[d] > 0 => cart'[d] > 0
      <4>1. \A d \in Dishes : Parked[d] \in Nat
                /\ Minus(cart, Parked)[d] = IF cart[d] > Parked[d] THEN cart[d] - Parked[d] ELSE 0
        BY <1>0, <3>1, FoodByDish
      <4>. QED  BY <1>2, <3>2, <4>1
    <3>4. ASSUME Trusted', NEW d \in Dishes, ~CardFor(d)'
          PROVE newPaper'[d] >= told'[d] + ahead'[d] + Marked(d)'
      <4>1. newPaper[d] >= told[d] + ahead[d]
        BY <1>1, <1>2, <1>3, <2>1, <2>3, <3>4 DEF KnownInv, Trusted
      <4>2. told'[d] + ahead'[d] = told[d] + ahead[d]
        <5>1. told' = Parked /\ ahead' = NoFood /\ Parked[d] = told[d] + ahead[d]
          BY DEF Parked, Plus
        <5>. QED  BY <1>2, <5>1
      <4>3. newPaper'[d] = IF TicketOff THEN newPaper[d] ELSE newPaper[d] + doing'.food[d]
        BY <1>0, <2>3, <3>1, <3>2, FoodByDish
      <4>4. Marked(d)' = IF TicketOff THEN 0 ELSE doing'.food[d]
        BY <3>2 DEF Marked
      <4>. QED  BY <1>2, <4>1, <4>2, <4>3, <4>4
    <3>. QED  BY <1>1, <3>3, <3>4 DEF KnownInv
  <2>. QED  BY <2>2, <2>3
<1>9. ASSUME SendIn(All, cart), firings < MaxFirings, doing'.who # "counter",
             faults' = faults, newPaper' = newPaper,
             \A d \in Dishes : (cart[d] > 0 \/ told'[d] = told[d]) /\ ahead'[d] <= ahead[d]
      PROVE KnownInv'
  <2>1. \A d \in Dishes : cart[d] > 0 => CardFor(d)'
    <3>1. \A d \in Dishes : Has(cart, d) => CardFor(d)'
      BY <1>9, SendingSends DEF KnownInv, OfCourse
    <3>. QED  BY <3>1 DEF Has
  <2>2. Trusted' => Trusted
    BY <1>9 DEF Trusted
  <2>. QED  BY <1>2, <1>4, <1>9, <2>1, <2>2
<1>10. CASE CounterRecord
  <2>. USE <1>10 DEF CounterRecord
  <2>1. \A d \in Dishes : cart[d] > 0 \/ told'[d] = told[d]
    <3>1. \A d \in Dishes : told'[d] = told[d] + doing.food[d]
      BY <1>0, FoodByDish
    <3>. QED  BY <1>2, <3>1 DEF KnownInv
  <2>2. firings < MaxFirings /\ doing'.who # "counter"
    BY ByFields DEF OneAtATime
  <2>. QED  BY <1>2, <1>9, <2>1, <2>2 DEF paper
<1>11. CASE PhoneTicket
  <2>. USE <1>11 DEF PhoneTicket
  <2>0. Pending \in Food
    BY <1>0, FoodIsFood DEF Pending
  <2>1. \A d \in Dishes : cart[d] > 0 \/ told'[d] = told[d]
    <3>1. \A d \in Dishes : /\ told'[d] = told[d] + Pending[d]
                            /\ Pending[d] = IF cart[d] > told[d] THEN cart[d] - told[d] ELSE 0
      BY <1>0, <2>0, FoodByDish DEF Pending
    <3>. QED  BY <1>2, <3>1
  <2>2. firings < MaxFirings
    BY KitchenAssumption DEF Room, TypeOK
  <2>3. doing'.who # "counter"
    BY <2>0, ByFields DEF Who
  <2>. QED  BY <1>2, <1>9, <2>1, <2>2, <2>3 DEF paper
<1>12. CASE CounterRecordFails
  <2>. USE <1>12 DEF CounterRecordFails
  <2>1. doing'.who # "counter" /\ faults' # 0
    BY <1>0, ByFields DEF Fault
  <2>2. ASSUME Trusted', NEW d \in Dishes, ~CardFor(d)'
        PROVE newPaper'[d] >= told'[d] + ahead'[d] + Marked(d)'
    <3>1. ~TicketOff
      BY <2>1, <2>2 DEF Trusted
    <3>2. newPaper[d] >= told[d] + ahead[d] + doing.food[d]
      BY <1>1, <2>2, <3>1 DEF KnownInv, Marked, Trusted
    <3>. QED  BY <1>2, <1>3, <2>1, <3>2 DEF paper
  <2>. QED  BY <1>1, <2>1, <2>2 DEF KnownInv
<1>13. CASE CounterVoidSlip
  <2>1. doing'.who # "counter" /\ newPaper' = newPaper /\ ahead' = ahead /\ (Trusted' => Trusted)
    BY <1>0, <1>13, ByFields DEF CounterVoidSlip, Fault, Trusted
  <2>2. \A d \in Dishes : told'[d] <= told[d]
    <3>1. told' = told \/ told' = Minus(told, doing.food)
      BY <1>13 DEF CounterVoidSlip
    <3>. QED  BY <1>0, <1>2, <3>1, FoodByDish
  <2>. QED  BY <1>2, <1>3, <1>4, <2>1, <2>2
<1>14. ASSUME NEW d \in Dishes, NEW q \in 0 .. MaxQty, PhoneVoid(d, q) PROVE KnownInv'
  <2>0. OverTold(cart') \in Food
    BY <1>0, FoodIsFood DEF OverTold
  <2>1. doing'.who # "counter" /\ newPaper' = newPaper /\ (Trusted' => Trusted)
    BY <1>14, <2>0, ByFields DEF PhoneVoid, Who, Trusted, paper
  <2>2. \A x \in Dishes : told'[x] <= told[x] /\ ahead'[x] <= ahead[x]
    <3>1. told' = Minus(told, OverTold(cart')) /\ ahead' \in {ahead, NoFood}
      BY <1>14 DEF PhoneVoid, Refreshed
    <3>2. ASSUME NEW x \in Dishes PROVE told'[x] <= told[x]
      <4>1. told'[x] = IF told[x] > OverTold(cart')[x] THEN told[x] - OverTold(cart')[x] ELSE 0
        BY <3>1 DEF Minus
      <4>2. told[x] \in Nat /\ OverTold(cart')[x] \in Nat
        BY <1>2, <2>0 DEF Food
      <4>. QED  BY <4>1, <4>2
    <3>3. \A x \in Dishes : ahead'[x] <= ahead[x]
      BY <1>2, <3>1
    <3>. QED  BY <3>2, <3>3
  <2>. QED  BY <1>2, <1>3, <1>4, <2>1, <2>2
<1>15. CASE PhonePaper
  <2>1. doing'.who # "counter" /\ UNCHANGED <<told, ahead>> /\ (Trusted' => Trusted)
    BY <1>0, <1>15, ByFields DEF PhonePaper, Fault, Trusted, book
  <2>2. \A d \in Dishes : newPaper'[d] >= newPaper[d]
    <3>1. newPaper' = newPaper \/ newPaper' = Plus(newPaper, doing.food)
      BY <1>15 DEF PhonePaper, paper
    <3>. QED  BY <1>0, <1>2, <3>1, FoodByDish
  <2>. QED  BY <1>2, <1>3, <1>4, <2>1, <2>2
<1>16. CASE FallbackPaper
  <2>. USE <1>16 DEF FallbackPaper
  <2>0. Pending \in Food
    BY <1>0, FoodIsFood DEF Pending
  <2>1. doing'.who # "counter" /\ ahead' = ahead /\ (Trusted' => Trusted)
    BY <1>0 DEF Fault, Trusted, TypeOK
  <2>2. \A d \in Dishes : \/ newPaper'[d] >= newPaper[d] /\ told'[d] = told[d]
                          \/ newPaper'[d] - newPaper[d] = told'[d] - told[d]
    <3>1. \A d \in Dishes : /\ Plus(newPaper, Pending)[d] = newPaper[d] + Pending[d]
                            /\ Plus(told, Pending)[d] = told[d] + Pending[d] /\ Pending[d] \in Nat
      BY <1>0, <2>0, FoodByDish
    <3>. QED  BY <1>2, <3>1
  <2>. QED  BY <1>2, <1>3, <1>4, <2>1, <2>2
<1>17. CASE CounterCancel \/ PhoneCancel \/ Settle \/ Restart
  <2>1. doing'.who # "counter"
    BY <1>0, <1>17, ByFields DEF CounterCancel, PhoneCancel, Settle, Restart, CounterMay, LockIsFree, Who
  <2>2. (faults' = faults \/ Fault) /\ newPaper' = newPaper
    BY <1>17 DEF CounterCancel, PhoneCancel, Settle, Restart, paper
  <2>3. (told' = Parked /\ ahead' = NoFood) \/ (told' = told /\ Refreshed)
    BY <1>17 DEF CounterCancel, PhoneCancel, Settle, Restart, Refreshed
  <2>. QED  BY <1>5, <2>1, <2>2, <2>3
<1>18. CASE CounterCancelRest \/ FallbackRead \/ FallbackMark
  <2>1. doing'.who # "counter"
    BY <1>18, ByFields DEF CounterCancelRest, FallbackRead, FallbackMark, LockIsFree
  <2>2. (faults' = faults \/ Fault) /\ newPaper' = newPaper /\ UNCHANGED <<told, ahead>>
    BY <1>18 DEF CounterCancelRest, FallbackRead, FallbackMark, book, paper
  <2>. QED  BY <1>5, <2>1, <2>2
<1>19. ASSUME UNCHANGED <<cart, told, ahead, doing, newPaper, faults>> PROVE KnownInv'
  BY <1>1, <1>19 DEF KnownInv, Marked, Trusted
<1>20. CASE Void \/ CloseDay \/ DayTurns \/ Look \/ FireSend \/ UNCHANGED vars
  BY <1>19, <1>20 DEF Void, CloseDay, DayTurns, Look, FireSend, vars, book, screen, paper
<1>21. ASSUME NEW k \in Keys, Shown(k) \/ Bump(k) \/ Recall(k) \/ Acknowledge(k) PROVE KnownInv'
  BY <1>19, <1>21 DEF Shown, Bump, Recall, Acknowledge, Press, book, paper
<1>22. ASSUME NEW c \in Courses, FireCheck(c) PROVE KnownInv'
  BY <1>19, <1>22 DEF FireCheck, book, paper
<1>. QED
  BY <1>6, <1>7, <1>8, <1>10, <1>11, <1>12, <1>13, <1>14, <1>15, <1>16, <1>17, <1>18, <1>20,
     <1>21, <1>22 DEF Next, Counter, Phone, Screen, Fallback

(* The strengthened invariant implies that what is told is known.          *)
LEMMA KnownMeansTold ==
    ASSUME Inv, KnownInv
    PROVE ToldIsKnown
<1>1. \A d \in Dishes : ahead[d] \in Nat /\ Marked(d) \in Nat /\ told[d] \in Nat /\ newPaper[d] \in Nat
  BY FoodByDish DEF Inv, TypeOK, Marked, Food
<1>. QED  BY <1>1 DEF KnownInv, ToldIsKnown, Trusted

(* Food the ledger calls told is on a screen's card or on a slip, whatever *)
(* the phones, the counter, the fallback and a failed record do            *)
(* (kitchen.rs:648, flows.rs:381).                                         *)
THEOREM KnownHolds == Spec => []ToldIsKnown
BY InvHolds, InvInit, InvStep, KnownInit, KnownStep, KnownMeansTold, PTL DEF Spec

----------------------------------------------------------------------------
(* A course that is about to be sent has no ticket yet, save one that a    *)
(* phone sent for the whole order since the check.                         *)
CourseInv ==
    /\ UnusedIsUnsent
    /\ firing # NoCourse =>
         \A k \in Keys : ticket[k].state # "unsent" /\ ticket[k].course \in {firing, All}
                          => k[1] \in crossed
    /\ CourseFiredOnce

(* No course is fired before the first ticket.                             *)
THEOREM CourseInit == Init => CourseInv
BY KitchenAssumption DEF Init, CourseInv, UnusedIsUnsent, CourseFiredOnce, Keys

(* Every step that comes between the check that a course is new and its    *)
(* sending, and tells the kitchen of it, is a crossing (kitchen.rs:536).   *)
THEOREM CourseStep == Inv /\ Inv' /\ CourseInv /\ [Next]_vars => CourseInv'
<1>. SUFFICES ASSUME Inv, Inv', CourseInv, [Next]_vars PROVE CourseInv'
  OBVIOUS
<1>. USE DEF Inv
<1>0. UnusedIsUnsent /\ UnusedIsUnsent'
  BY TicketsStay DEF CourseInv
<1>1. CASE Keeps
  <2>1. CourseFiredOnce'
    BY <1>1 DEF Keeps, CourseInv, CourseFiredOnce
  <2>2. CASE firing' = firing \/ firing' = NoCourse
    BY <1>0, <1>1, <2>1, <2>2 DEF Keeps, CourseInv
  <2>3. CASE firing' # firing /\ firing' # NoCourse
    <3>1. PICK c \in Courses : FireCheck(c)
      BY <2>3 DEF Next, vars, screen, Counter, Phone, Screen, Fallback, Add, CounterVoid, CounterTicket,
         CounterRecord, CounterRecordFails, CounterVoidSlip, CounterCancel, CounterCancelRest, Settle,
         Void, CloseDay, PhoneTicket, PhonePaper, PhoneCancel, PhoneVoid, Shown, Bump, Recall,
         Acknowledge, Press, FireSend, Look, FallbackRead, FallbackPaper, FallbackMark, DayTurns, Restart
    <3>2. ticket' = ticket /\ firing' = c /\ ~Covered(c)
      BY <3>1 DEF FireCheck
    <3>. QED  BY <1>0, <2>1, <3>2 DEF CourseInv, Covered
  <2>. QED  BY <2>2, <2>3
<1>2. ASSUME NEW c \in Courses \cup {All}, NEW food, SendIn(c, food), firings < MaxFirings,
             c # All => firing = c /\ firing # NoCourse,
             firing' = firing \/ firing' = NoCourse,
             firing' # NoCourse => firing' # c
      PROVE CourseInv'
  <2>1. /\ \A k \in Keys : ticket[k].state # "unsent" => ticket'[k] = ticket[k]
        /\ \A k \in Keys : ticket[k].state = "unsent" /\ ticket'[k].state # "unsent"
                              => ticket'[k].course = c /\ k[1] = firings + 1
    BY <1>0, <1>2, SendingSends
  <2>2. /\ crossed \subseteq crossed'
        /\ firing \notin {NoCourse, c} => firings + 1 \in crossed'
    BY <1>2 DEF SendIn
  <2>3. \A k \in Keys : ticket[k].state # "unsent" => k[1] < firings + 1
    BY <1>0, KitchenAssumption DEF UnusedIsUnsent, TypeOK, Keys
  <2>4. ASSUME firing' # NoCourse, NEW k \in Keys, ticket'[k].state # "unsent",
               ticket'[k].course \in {firing', All}
        PROVE k[1] \in crossed'
    <3>1. CASE ticket[k].state # "unsent"
      BY <1>2, <2>1, <2>2, <2>4, <3>1 DEF CourseInv
    <3>2. CASE ticket[k].state = "unsent"
      BY <1>2, <2>1, <2>2, <2>4, <3>2
    <3>. QED  BY <3>1, <3>2
  <2>5. ASSUME NEW j \in Keys, NEW k \in Keys, k[1] < j[1],
               ticket'[j].state # "unsent", ticket'[k].state # "unsent", ticket'[j].course # All,
               ticket'[k].course \in {ticket'[j].course, All}
        PROVE k[1] \in crossed'
    <3>1. CASE ticket[j].state # "unsent" /\ ticket[k].state # "unsent"
      BY <2>1, <2>2, <2>5, <3>1 DEF CourseInv, CourseFiredOnce
    <3>2. CASE ticket[k].state = "unsent"
      <4>1. k[1] = firings + 1
        BY <2>1, <2>5, <3>2
      <4>2. CASE ticket[j].state = "unsent"
        BY <2>1, <2>5, <4>1, <4>2 DEF Keys
      <4>3. CASE ticket[j].state # "unsent"
        BY <2>3, <2>5, <4>1, <4>3 DEF Keys, TypeOK
      <4>. QED  BY <4>2, <4>3
    <3>3. CASE ticket[j].state = "unsent" /\ ticket[k].state # "unsent"
      <4>1. ticket'[j].course = c /\ ticket'[k] = ticket[k]
        BY <2>1, <2>5, <3>3
      <4>2. c # All /\ firing = c /\ firing # NoCourse
        BY <1>2, <2>5, <4>1
      <4>. QED  BY <2>2, <2>5, <3>3, <4>1, <4>2 DEF CourseInv
    <3>. QED  BY <3>1, <3>2, <3>3
  <2>6. CourseFiredOnce'
    BY <2>5 DEF CourseFiredOnce
  <2>. QED  BY <1>0, <2>4, <2>6 DEF CourseInv
<1>3. CASE CounterRecord
  <2>1. firings < MaxFirings /\ firing = NoCourse /\ firing' = firing
    BY <1>3 DEF CounterRecord, OneAtATime
  <2>. QED  BY <1>2, <1>3, <2>1 DEF CounterRecord
<1>4. CASE PhoneTicket
  <2>1. SendIn(All, cart) /\ firings < MaxFirings /\ firing' = firing
    BY <1>4, KitchenAssumption DEF PhoneTicket, Room, TypeOK
  <2>2. firing # NoCourse => firing # All
    BY KitchenAssumption DEF TypeOK
  <2>. QED  BY <1>2, <2>1, <2>2
<1>5. CASE FireSend
  <2>1. SendIn(firing, cart) /\ firings < MaxFirings /\ firing # NoCourse /\ firing' = NoCourse
    BY <1>5 DEF FireSend, OneAtATime
  <2>2. firing \in Courses
    BY <2>1 DEF TypeOK
  <2>. QED  BY <1>2, <2>1, <2>2
<1>. QED  BY <1>1, <1>3, <1>4, <1>5, OnlySendingSends

(* A course is fired once, although it is checked in one transaction and   *)
(* sent in another: only a phone's ticket for the whole order, sent in     *)
(* between, makes the kitchen hear of it twice.                            *)
THEOREM CourseHolds == Spec => []CourseFiredOnce
BY InvHolds, InvInit, InvStep, CourseInit, CourseStep, PTL DEF Spec, CourseInv
=============================================================================
