------------------------------- MODULE Floor --------------------------------
(***************************************************************************)
(* The orders on the floor: opened, filled and moved by phones whose       *)
(* answers may be lost, and opened, moved, split and combined at the       *)
(* counter.  Phones: src-tauri/orders.rs; counter: src-tauri/floor.rs,     *)
(* ipc.rs, flows.rs, corrections.rs; the transfer of lines:                *)
(* mb-core/transfer.rs; the settlement of a combined bill: mb-db/settle.rs.*)
(* `app.begin_action` makes each action below one step.                    *)
(***************************************************************************)
EXTENDS Integers, FiniteSets, Functions, Sequences, FiniteSetsExt

CONSTANTS
    Tables,
    Phones,
    Older,      \* the phones that do not name the intent that opened an order
    Scripts,    \* what the phones may be about to ask: a set of functions
    MaxQueue,   \* bound: the intents of a phone
    MaxOrders,  \* bound: orders ever opened
    MaxSeats,   \* letters after A on a table (B to Z in the code)
    MaxFood,    \* bound: portions ever ordered
    MaxDeeds,   \* bound: what the counter does
    Rooms       \* the order tables at the start

Orders == 1..MaxOrders
Seats == 0..MaxSeats        \* 0: the table's own party, which has no letter
NoOrder == 0
Unasked == -1
Refused == 0
NoCart == [table |-> "none", seat |-> 0]
NoCall == [at |-> 0, opened |-> NoOrder]

Kinds == {"open", "party", "add", "set", "send", "move", "cancel"}
Opening == {"open", "party"}

\* An open order is what an "open" or "party" asks for; the others are about
\* the order of the last one before them.
Intent == [kind : Kinds, table : Tables]
IsScript(s) == Len(s) <= MaxQueue /\ (s # <<>> => s[1].kind \in Opening)

Order ==
    [state : {"none", "open", "settled", "cancelled"}, table : Tables \cup {"none"},
     seat : Seats, food : Nat, told : Nat, into : Orders \cup {NoOrder},
     sources : SUBSET Orders, service : Nat, serviceTold : Nat]
Blank == [state |-> "none", table |-> "none", seat |-> 0, food |-> 0, told |-> 0,
          into |-> NoOrder, sources |-> {}, service |-> 0, serviceTold |-> 0]

\* The portions an order serves at its own table; a combined bill keeps them
\* apart from what it charges for.
Own(x) == IF x.sources = {} THEN x.food ELSE x.service
OwnTold(x) == IF x.sources = {} THEN x.told ELSE x.serviceTold

\* A combined bill charges what its tables serve, each of them points at it, and
\* none of them leaves before it is paid.
Charges(os, r) ==
    /\ os[r].food = os[r].service + SumFunctionOnSet([o \in Orders |-> Own(os[o])], os[r].sources)
    /\ \A o \in os[r].sources : os[o].into = r /\ (os[o].state = "open" \/ os[r].state = "settled")
Ties(os) ==
    \A r \in Orders :
        /\ os[r].sources # {} /\ os[r].into = NoOrder => Charges(os, r)
        /\ os[r].into # NoOrder =>
             os[os[r].into].state \in {"open", "settled"} /\ os[os[r].into].into = NoOrder

\* What is on a bill that is not paid is one of its sources.
Linked(os) ==
    \A x \in Orders : os[x].into # NoOrder /\ os[os[x].into].state = "open" => x \in os[os[x].into].sources

\* A room to start from: its combined bills tie, and its parties are apart.
IsRoom(os) ==
    /\ os \in [Orders -> Order]
    /\ \A o \in Orders : os[o].state = "none" => os[o] = Blank
    /\ Ties(os) /\ Linked(os)
    /\ \A o, x \in Orders :
          os[o].state = "open" /\ os[x].state = "open" /\ o # x =>
              <<os[o].table, os[o].seat>> # <<os[x].table, os[x].seat>>

ASSUME FloorAssumption ==
    /\ Older \subseteq Phones
    /\ MaxQueue \in Nat /\ MaxOrders \in Nat /\ MaxSeats \in Nat
    /\ MaxFood \in Nat /\ MaxDeeds \in Nat
    /\ \A s \in Scripts : \A p \in Phones : s[p] \in Seq(Intent) /\ IsScript(s[p])
    /\ \A r \in Rooms : IsRoom(r)

VARIABLES
    script,     \* the intents of each phone, fixed at the start
    orders,     \* the order table
    ledger,     \* `applied_events`: what was answered to each intent
    call,       \* the batch of each phone that is being applied
    cart,       \* the counter's new cart: where it sits, not in the books
    deeds,      \* what the counter has done
    ordered,    \* history: portions asked for and not taken back
    told,       \* history: portions the kitchen was told of
    late        \* history: orders put where a party already sat

vars == <<script, orders, ledger, call, cart, deeds, ordered, told, late>>
history == <<ordered, told, late>>
phones == <<ledger, call>>
counter == <<cart, deeds>>

----------------------------------------------------------------------------
(* Reading the floor. *)

IsOpen(o) == orders[o].state = "open"
Combined(o) == orders[o].into # NoOrder \/ orders[o].sources # {}

SitsAt(o, t, s) == IsOpen(o) /\ orders[o].table = t /\ orders[o].seat = s
Occupied(t, s) == \E o \in Orders : SitsAt(o, t, s)
Busy(t) == \E s \in Seats : Occupied(t, s)

\* `first_party_at`, `list_open` in the order of `created_at`.
PartyAt(t) == IF Occupied(t, 0) THEN Min({o \in Orders : SitsAt(o, t, 0)}) ELSE NoOrder

\* `next_free_seat`: the first letter after A.
FreeSeats(t) == {s \in Seats \ {0} : ~Occupied(t, s)}

\* The id the next order gets.
Unused == {o \in Orders : orders[o].state = "none"}
IsNextId(n) == Unused # {} /\ n = Min(Unused)

\* The bills people pay: every order but those another bill charges for.
Bills == {o \in Orders : orders[o].state # "none" /\ orders[o].into = NoOrder}

Charged == SumFunctionOnSet([o \in Orders |-> orders[o].food], Bills)
Sent == SumFunctionOnSet([o \in Orders |-> orders[o].told], Bills)

New(t, s, food, tld) ==
    [Blank EXCEPT !.state = "open", !.table = t, !.seat = s, !.food = food, !.told = tld]

Lesser(a, b) == IF a < b THEN a ELSE b
Greater(a, b) == IF a < b THEN b ELSE a

----------------------------------------------------------------------------
(* The phones.  A batch is a phone's queue from some intent on; any of it  *)
(* may be sent again, and the counter may stop in the middle of one.       *)

Intents == {<<p, k>> : p \in Phones, k \in 1..MaxQueue}
At(p) == script[p][call[p].at]
Opens(p) == At(p).kind \in Opening
OpenerIn(sc, k) == Max({j \in 1..k : sc[j].kind \in Opening})
Opener(p, k) == <<p, OpenerIn(script[p], k)>>

\* Mutant: a refused open leaves the order of the one before it.
BorrowsLastOk(p, answer) ==
    IF Opens(p) /\ answer # Refused THEN answer ELSE call[p].opened

\* `apply_batch`: what the next intents of the batch borrow.
Borrows(p, answer) == IF Opens(p) THEN answer ELSE call[p].opened

Advance(p, answer) ==
    call' = [call EXCEPT ![p] =
                IF @.at = Len(script[p]) THEN NoCall
                ELSE [at |-> @.at + 1, opened |-> Borrows(p, answer)]]

\* Mutant: the ledger is not asked.
IsNewAlways(p) == TRUE

\* `recall`: an intent that was answered is not applied again.
IsNew(p) == ledger[<<p, call[p].at>>] = Unasked

Answer(p, answer) ==
    /\ IsNew(p)
    /\ ledger' = [ledger EXCEPT ![<<p, call[p].at>>] = answer]
    /\ Advance(p, answer)
    /\ UNCHANGED <<script, counter>>

SendBatch(p) ==
    /\ call[p] = NoCall
    /\ \E k \in DOMAIN script[p] : call' = [call EXCEPT ![p].at = k]
    /\ UNCHANGED <<script, orders, ledger, counter, history>>

BatchBreaks(p) ==
    /\ call[p] # NoCall
    /\ call' = [call EXCEPT ![p] = NoCall]
    /\ UNCHANGED <<script, orders, ledger, counter, history>>

Recall(p) ==
    /\ ~IsNew(p)
    /\ Advance(p, ledger[<<p, call[p].at>>])
    /\ UNCHANGED <<script, orders, ledger, counter, history>>

(* `open_order`: the second to open a table joins the first. *)
PhoneJoins(p) ==
    /\ At(p).kind = "open" /\ PartyAt(At(p).table) # NoOrder
    /\ Answer(p, PartyAt(At(p).table))
    /\ UNCHANGED <<orders, history>>

PhoneOpens(p) ==
    /\ At(p).kind = "open" /\ PartyAt(At(p).table) = NoOrder
    /\ \E n \in Orders :
           /\ IsNextId(n) /\ Answer(p, n)
           /\ orders' = [orders EXCEPT ![n] = New(At(p).table, 0, 0, 0)]
    /\ UNCHANGED history

PhoneSeatsParty(p) ==
    /\ At(p).kind = "party" /\ FreeSeats(At(p).table) # {}
    /\ \E n \in Orders :
           /\ IsNextId(n) /\ Answer(p, n)
           /\ orders' = [orders EXCEPT ![n] =
                            New(At(p).table, Min(FreeSeats(At(p).table)), 0, 0)]
    /\ UNCHANGED history

\* The order an intent is about: the one its opener was answered with, which a
\* newer phone names by the opener and an older one by its id or not at all.
Targets(p) ==
    LET known == {ledger[Opener(p, call[p].at)]} \ {Unasked, Refused}
    IN IF p \in Older THEN ({call[p].opened} \ {NoOrder}) \cup known ELSE known

\* An order the phones may change.
Editable(o) == IsOpen(o) /\ ~Combined(o)

\* "set" asks for one portion: not below what the kitchen was told.
MaySet(o) == orders[o].food >= 1 /\ orders[o].told <= 1

PhoneRefused(p) ==
    /\ \/ At(p).kind = "party" /\ FreeSeats(At(p).table) = {}
       \/ /\ ~Opens(p)
          /\ \/ Targets(p) = {}
             \/ p \in Older /\ call[p].opened = NoOrder
             \/ \E o \in Targets(p) :
                   ~Editable(o) \/ (At(p).kind = "set" /\ ~MaySet(o))
    /\ Answer(p, Refused)
    /\ UNCHANGED <<orders, history>>

PhoneChanges(p, kind, o) ==
    /\ At(p).kind = kind
    /\ o \in Targets(p) /\ Editable(o)
    /\ Answer(p, o)

\* What the guests asked for: an intent counts once, however often it is sent.
Once(p, n) == IF ledger[<<p, call[p].at>>] = Unasked THEN n ELSE 0

PhoneAdds(p, o) ==
    /\ PhoneChanges(p, "add", o)
    /\ orders' = [orders EXCEPT ![o].food = @ + 1]
    /\ ordered' = ordered + Once(p, 1)
    /\ UNCHANGED <<told, late>>

PhoneSets(p, o) ==
    /\ PhoneChanges(p, "set", o) /\ MaySet(o)
    /\ orders' = [orders EXCEPT ![o].food = 1]
    /\ ordered' = ordered - Once(p, orders[o].food - 1)
    /\ UNCHANGED <<told, late>>

PhoneSends(p, o) ==
    /\ PhoneChanges(p, "send", o)
    /\ orders' = [orders EXCEPT ![o].told = Greater(@, orders[o].food)]
    /\ told' = told + (Greater(orders[o].told, orders[o].food) - orders[o].told)
    /\ UNCHANGED <<ordered, late>>

Sits(o, others) ==
    late' = IF others THEN late \cup {o} ELSE late \ {o}

\* `Placement::on_table`: whoever sits there, and the letter goes.
PhoneMoves(p, o) ==
    /\ PhoneChanges(p, "move", o)
    /\ orders' = [orders EXCEPT ![o].table = At(p).table, ![o].seat = 0]
    /\ Sits(o, \E x \in Orders \ {o} : SitsAt(x, At(p).table, 0))
    /\ UNCHANGED <<ordered, told>>

PhoneCancels(p, o) ==
    /\ PhoneChanges(p, "cancel", o)
    /\ orders' = [orders EXCEPT ![o].state = "cancelled"]
    /\ UNCHANGED history

Apply(p) ==
    /\ call[p].at # 0
    /\ \/ Recall(p)
       \/ PhoneJoins(p) \/ PhoneOpens(p) \/ PhoneSeatsParty(p) \/ PhoneRefused(p)
       \/ \E o \in Orders :
             \/ PhoneAdds(p, o) \/ PhoneSets(p, o) \/ PhoneSends(p, o)
             \/ PhoneMoves(p, o) \/ PhoneCancels(p, o)

Phone(p) == SendBatch(p) \/ BatchBreaks(p) \/ Apply(p)

----------------------------------------------------------------------------
(* The counter.  What it does to an order it has loaded is one action here; *)
(* a cart that is not in the books yet only knows where it sits.           *)

(* `open_table`: a free table takes the cart, typed or new. *)
CounterSits(t) ==
    /\ PartyAt(t) = NoOrder
    /\ cart' = [table |-> t, seat |-> 0]
    /\ UNCHANGED <<script, orders, phones, history>>

(* `join_table`: a letter of its own, given or the next. *)
CounterJoins(t, s) ==
    /\ s \in FreeSeats(t)
    /\ cart' = [table |-> t, seat |-> s]
    /\ UNCHANGED <<script, orders, phones, history>>

(* `park_open_order` of a new cart: `open_draft` asks nothing of the table. *)
CounterParks ==
    /\ cart # NoCart /\ cart' = NoCart /\ ordered < MaxFood
    /\ \E n \in Orders :
           /\ IsNextId(n)
           /\ orders' = [orders EXCEPT ![n] = New(cart.table, cart.seat, 1, 0)]
           /\ Sits(n, Occupied(cart.table, cart.seat))
    /\ ordered' = ordered + 1
    /\ UNCHANGED <<script, phones, told>>

\* An order the counter may load.
Loadable(o) == IsOpen(o) /\ orders[o].into = NoOrder

\* `reconcile_service_from`: what changes on a combined bill changes for its
\* own table, and nothing of another table's may go.
Serves(o, food, tld) ==
    IF orders[o].sources = {} THEN orders' = [orders EXCEPT ![o].food = @ + food, ![o].told = @ + tld]
    ELSE /\ orders[o].service + food >= 0 /\ orders[o].serviceTold + tld >= 0
         /\ orders' = [orders EXCEPT ![o].food = @ + food, ![o].told = @ + tld,
                                     ![o].service = @ + food, ![o].serviceTold = @ + tld]

CounterAdds(o) ==
    /\ Loadable(o) /\ ordered < MaxFood /\ Serves(o, 1, 0)
    /\ ordered' = ordered + 1
    /\ UNCHANGED <<script, phones, cart, told, late>>

\* What the kitchen has been told beyond `food`.
OverTold(o, food) == IF orders[o].told > food THEN orders[o].told - food ELSE 0

(* `change_line`: the food goes, and what the kitchen must stop is told on a
   slip; without the slip its ledger stays ahead. *)
\* Mutant: an order without food loses one more.
CounterRemovesAny(o, slip) ==
    LET stopped == IF slip THEN OverTold(o, orders[o].food - 1) ELSE 0
    IN /\ Loadable(o) /\ Serves(o, -1, -stopped)
       /\ ordered' = ordered - 1 /\ told' = told - stopped
       /\ UNCHANGED <<script, phones, cart, late>>

CounterRemoves(o, slip) ==
    LET stopped == IF slip THEN OverTold(o, orders[o].food - 1) ELSE 0
    IN /\ Loadable(o) /\ orders[o].food >= 1 /\ Serves(o, -1, -stopped)
       /\ ordered' = ordered - 1 /\ told' = told - stopped
       /\ UNCHANGED <<script, phones, cart, late>>

(* The counter's ticket: the ledger follows the cart. *)
CounterTickets(o) ==
    LET change == orders[o].food - orders[o].told
    IN /\ Loadable(o) /\ change > 0 /\ Serves(o, 0, change)
       /\ told' = told + change
       /\ UNCHANGED <<script, phones, cart, ordered, late>>

(* `move_order`: only to a table with no order at all. *)
CounterMoves(o, t) ==
    /\ IsOpen(o) /\ orders[o].table # t /\ ~Busy(t)
    /\ orders' = [orders EXCEPT ![o].table = t, ![o].seat = 0]
    /\ Sits(o, FALSE)
    /\ UNCHANGED <<script, phones, cart, ordered, told>>

\* `merge_eligible`.
Eligible(o) ==
    IsOpen(o) /\ orders[o].into = NoOrder /\ orders[o].food > 0 /\ orders[o].told > 0

\* Mutant: the sources of a combined bill that joins another are left behind.
MergedAlone(a, s) ==
    [o \in Orders |->
        CASE o = s ->
               [orders[s] EXCEPT !.food = @ + orders[a].food,
                                 !.told = @ + orders[a].told,
                                 !.sources = @ \cup {a} \cup orders[a].sources,
                                 !.service = Own(orders[s]), !.serviceTold = OwnTold(orders[s])]
          [] o = a -> [orders[o] EXCEPT !.into = s]
          [] OTHER -> orders[o]]

\* `merged_order`, and the absorbed orders that now point at it.
Merged(a, s) ==
    [o \in Orders |->
        CASE o = s ->
               [orders[s] EXCEPT !.food = @ + orders[a].food,
                                 !.told = @ + orders[a].told,
                                 !.sources = @ \cup {a} \cup orders[a].sources,
                                 !.service = Own(orders[s]), !.serviceTold = OwnTold(orders[s])]
          [] o \in {a} \cup orders[a].sources -> [orders[o] EXCEPT !.into = s]
          [] OTHER -> orders[o]]

CounterMerges(a, s) ==
    /\ a # s /\ Eligible(a) /\ Eligible(s)
    /\ orders' = Merged(a, s)
    /\ UNCHANGED <<script, phones, cart, history>>

\* `take_lines`: the origin keeps what it was told of as far as it can.
StaysTold(o, q) == Lesser(orders[o].told, orders[o].food - q)

\* The seat a split asks for, or the first letter at a table that has a party;
\* a table without one takes the new order as its own.
NeedsLetter(o, t, s) == s = 0 /\ (orders[o].table = t \/ Occupied(t, 0))
SeatFor(o, t, s) == IF NeedsLetter(o, t, s) THEN Min(FreeSeats(t)) ELSE s
\* Mutant: a letter that is asked for is not looked up.
MayTakeAsked(o, t, s) == NeedsLetter(o, t, s) => FreeSeats(t) # {}

MayTake(o, t, s) == IF NeedsLetter(o, t, s) THEN FreeSeats(t) # {} ELSE ~Occupied(t, s)

CounterSplits(o, q, t, s) ==
    /\ IsOpen(o) /\ ~Combined(o)
    /\ q \in 1..(orders[o].food - 1)
    /\ MayTake(o, t, s)
    /\ \E n \in Orders :
           /\ IsNextId(n)
           /\ orders' = [orders EXCEPT
                 ![o].food = @ - q, ![o].told = StaysTold(o, q),
                 ![n] = New(t, SeatFor(o, t, s), q, orders[o].told - StaysTold(o, q))]
    /\ UNCHANGED <<script, phones, cart, history>>

\* `settle`: a combined bill leaves an order behind that serves its own table,
\* if nobody without a letter sits there.
LeavesService(o) ==
    orders[o].sources # {} /\ PartyAt(orders[o].table) \in {NoOrder, o}

CounterSettles(o) ==
    /\ Loadable(o) /\ orders[o].food > 0
    /\ \/ /\ ~LeavesService(o)
          /\ orders' = [orders EXCEPT ![o].state = "settled"]
          /\ UNCHANGED late
       \/ /\ LeavesService(o)
          /\ \E n \in Orders :
                /\ IsNextId(n)
                /\ orders' = [orders EXCEPT
                      ![o].state = "settled",
                      ![n] = [New(orders[o].table, orders[o].seat, Own(orders[o]), OwnTold(orders[o]))
                                EXCEPT !.into = o]]
                /\ Sits(n, \E x \in Orders \ {o} : SitsAt(x, orders[o].table, orders[o].seat))
    /\ UNCHANGED <<script, phones, cart, ordered, told>>

(* `release_serving_table`: the party leaves, its bill is paid. *)
CounterReleases(o) ==
    /\ IsOpen(o) /\ orders[o].into # NoOrder /\ orders[orders[o].into].state = "settled"
    /\ orders' = [orders EXCEPT ![o].state = "cancelled"]
    /\ UNCHANGED <<script, phones, cart, history>>

CounterCancels(o) ==
    /\ IsOpen(o) /\ ~Combined(o)
    /\ orders' = [orders EXCEPT ![o].state = "cancelled"]
    /\ UNCHANGED <<script, phones, cart, history>>

Counter ==
    /\ deeds < MaxDeeds /\ deeds' = deeds + 1
    /\ \/ CounterParks
       \/ \E t \in Tables : CounterSits(t) \/ \E k \in Seats : CounterJoins(t, k)
       \/ \E o \in Orders :
             \/ CounterAdds(o) \/ CounterTickets(o)
             \/ \E slip \in BOOLEAN : CounterRemoves(o, slip)
             \/ CounterSettles(o) \/ CounterReleases(o) \/ CounterCancels(o)
             \/ \E t \in Tables : CounterMoves(o, t)
             \/ \E x \in Orders : CounterMerges(o, x)
             \/ \E q \in 1..MaxFood, t \in Tables, k \in Seats : CounterSplits(o, q, t, k)

Init ==
    /\ script \in Scripts
    /\ orders \in Rooms
    /\ ledger = [i \in Intents |-> Unasked]
    /\ call = [p \in Phones |-> NoCall]
    /\ cart = NoCart /\ deeds = 0
    /\ ordered = Charged /\ told = Sent /\ late = {}

Next == (\E p \in Phones : Phone(p)) \/ Counter

Spec == Init /\ [][Next]_vars

----------------------------------------------------------------------------
\* Every order, answer, batch and cart has its type.
TypeOK ==
    /\ script \in Scripts
    /\ orders \in [Orders -> Order]
    /\ ledger \in [Intents -> Orders \cup {Unasked, Refused}]
    /\ call \in [Phones -> [at : Nat, opened : Orders \cup {NoOrder}]]
    /\ cart \in [table : Tables \cup {"none"}, seat : Seats]
    /\ deeds \in Nat /\ ordered \in Nat /\ told \in Nat /\ late \subseteq Orders

\* Each portion asked for is on exactly one bill, and each portion the kitchen
\* was told of is in exactly one bill's ledger, however often an intent is sent
\* and however orders are split, combined, moved and settled.
OnOneBill ==
    /\ ordered = Charged
    /\ told = Sent

\* However orders are combined, split, changed, settled and released, a combined
\* bill charges what its tables serve, and none of them leaves before it is paid.
AccountsTie == Ties(orders)

\* LAN_PROTOCOL, conflict (a): what is typed for one party is on the order its
\* open was answered with, and nowhere when that was refused.
OnItsOwnParty ==
    \A p \in Phones : \A k \in DOMAIN script[p] :
        ledger[<<p, k>>] > 0 => ledger[Opener(p, k)] = ledger[<<p, k>>]

\* Two parties are told apart by their letter, but where a phone moved an order
\* onto a table, or the counter wrote a new cart to one, that had been taken.
PartiesApart ==
    \A o, x \in Orders :
        o # x /\ IsOpen(o) /\ SitsAt(x, orders[o].table, orders[o].seat) =>
            o \in late \/ x \in late
=============================================================================
