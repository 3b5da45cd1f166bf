---------------------------- MODULE TillForwarding ----------------------------
(***************************************************************************)
(* Bills travelling from a second till to the main till.  A till that      *)
(* joins a shop keeps its own book and its own numbers; what it finishes   *)
(* is sent to the main till in batches, over and over, and leaves its      *)
(* outbox when the main till has said that it is stored                    *)
(* (src-tauri/src/forwarding.rs, terminals.rs).  Here are the counter of   *)
(* that till, the two places that send (the thread `mb-forward` and the    *)
(* button "Send now"), the network that loses an answer or delivers a      *)
(* request after its sender gave up, and the main till's book, its ledger  *)
(* of what it applied, its closed days, its stock and its own numbers.     *)
(***************************************************************************)
EXTENDS Integers, FiniteSets

CONSTANTS
    MaxBill,     \* how many orders the joining till takes
    Days,        \* business days
    DayOf,       \* the business day of an order
    Window,      \* how many entries a sender looks at (200)
    Senders,     \* who sends: the thread and the button
    Sweeper,     \* the thread
    Prefixes,    \* what a person may type in front of a till's numbers
    NoPrefix,    \* the empty prefix, which only a single till may have
    MaxVersion,  \* how often any order is saved
    Shops,       \* what may be true of the orders of a shop (see `shop`)
    Starting,    \* the pairs of prefixes the two tills may start with
    MaxLost,     \* how often the link or this till fails
    MaxDeeds     \* how often a prefix is changed or the main till issues a bill of its own

Bills == 1 .. MaxBill

(* `terminal_default`: the id of a till that never joined one, and the id   *)
(* the main till itself has kept since its first run.                       *)
Default == "terminal_default"
(* The id this till is given when it joins.                                 *)
Joined == "term_new"
Ids == {Default, Joined}
Unknown == "unknown"

ASSUME ForwardingAssumption ==
    /\ MaxBill \in Nat /\ Window \in Nat \ {0}
    /\ DayOf \in [Bills -> Days] /\ Sweeper \in Senders
    /\ NoPrefix \in Prefixes /\ Unknown \notin Prefixes
    /\ Starting \subseteq Prefixes \X Prefixes /\ MaxVersion \in Nat
    /\ Shops \subseteq [unreadable : SUBSET Bills, dangling : SUBSET Bills,
                        copied : SUBSET Bills, saves : [Bills -> 0 .. MaxVersion]]
    /\ MaxLost \in Nat /\ MaxDeeds \in Nat

Finished == {"settled", "voided", "cancelled"}
Stages == Finished \cup {"none", "open"}

(* An order as it stands on disk or in a batch; version 0 is no order, and  *)
(* number 0 a bill that was never made.                                     *)
Version == [v : 0 .. MaxVersion, stage : Stages, no : 0 .. MaxBill]
NoVersion == [v |-> 0, stage |-> "none", no |-> 0]

Request == [id : Ids, prefix : Prefixes, orders : [Bills -> Version]]
NoRequest == [id |-> Default, prefix |-> NoPrefix, orders |-> [b \in Bills |-> NoVersion]]

VARIABLES
    shop,       \* what is true of the orders; it never changes
    \* the joining till
    bill,       \* its orders
    home,       \* the terminal id each was first written under
    queue,      \* the orders with an entry in the outbox
    issued,     \* the last bill number each id has issued here
    linked,     \* the identity file says Joined and names the main till
    me,         \* the id the running process started with
    prefixHere, \* the prefix of each id's row in this till's own database
    \* its senders and the network
    at, req, stored, stray,
    \* the main till
    book,       \* the joining till's orders, as the main till has them
    ledger,     \* the orders whose `forward:` event it remembers
    prefixAt,   \* the prefix of each id's row in its database
    own,        \* the last bill number it issued itself
    locked, frozen, \* its closed days, and the figures frozen for them
    drawn,      \* the versions whose ingredients left its stock
    \* bounds, and what the properties must know of the past
    lost, renames, late, pruned, taken

till == <<bill, home, queue, issued, linked, me, prefixHere>>
wire == <<at, req, stored, stray>>
main == <<book, ledger, prefixAt, own, locked, frozen, drawn>>
past == <<lost, renames, late, pruned, taken>>
vars == <<shop, till, wire, main, past>>

Unreadable == shop.unreadable  \* orders the main till's build cannot parse
Dangling == shop.dangling      \* orders with an item, a table or a person it lacks
Copied == shop.copied          \* orders this till's own cloud sender gets to: none
                               \* before it has a login

----------------------------------------------------------------------------
(* This till. *)

IsFinished(b) == bill[b].stage \in Finished

(* The first `Window` entries: the outbox is read in the order the orders  *)
(* were opened, whatever was saved since.                                  *)
Head == {b \in queue : Cardinality({c \in queue : c < b}) < Window}

(* What travels: a draft or an open order is not a fact.                   *)
Waiting == {b \in Head : IsFinished(b)}

Carries(q, b) == q.orders[b].v > 0

(* The prefix of the running till's own row, empty before it has one.      *)
PrefixSent == IF prefixHere[me] = Unknown THEN NoPrefix ELSE prefixHere[me]

(* The batch a sender would make now, under the id of the process.         *)
BatchFrom(bs) ==
    [id |-> me,
     prefix |-> PrefixSent,
     orders |-> [b \in Bills |-> IF b \in bs THEN bill[b] ELSE NoVersion]]

(* Somebody has seen an older version of this order.                       *)
HasTravelled(b) ==
    \/ book[b].v > 0
    \/ \E s \in Senders : at[s] # "idle" /\ Carries(req[s], b)
    \/ \E q \in stray : Carries(q, b)

(* Every save writes the order and its outbox entry in one transaction.    *)
Save(b, stage, no) ==
    /\ bill[b].v < shop.saves[b]
    /\ bill' = [bill EXCEPT ![b] = [v |-> bill[b].v + 1, stage |-> stage, no |-> no]]
    /\ queue' = queue \cup {b}
    /\ late' = IF HasTravelled(b) THEN late \cup {b} ELSE late
    /\ taken' = taken \ {b}

(* Orders are opened one after the other; the token is claimed against the *)
(* till's own row, so there must be one.                                   *)
Open(b) ==
    /\ bill[b].v = 0 /\ \A c \in Bills : c < b => bill[c].v > 0
    /\ prefixHere[me] # Unknown
    /\ Save(b, "open", 0)
    /\ home' = [home EXCEPT ![b] = me]
    /\ UNCHANGED <<issued, linked, me, prefixHere, wire, main, lost, renames, pruned>>

(* The bill number is claimed from the running till's own series, in the   *)
(* transaction that settles.                                               *)
Settle(b) ==
    /\ bill[b].stage = "open" /\ prefixHere[me] # Unknown
    /\ issued[me] < MaxBill
    /\ Save(b, "settled", issued[me] + 1)
    /\ issued' = [issued EXCEPT ![me] = @ + 1]
    /\ UNCHANGED <<home, linked, me, prefixHere, wire, main, lost, renames, pruned>>

Cancel(b) ==
    /\ bill[b].stage = "open"
    /\ Save(b, "cancelled", bill[b].no)
    /\ UNCHANGED <<home, issued, linked, me, prefixHere, wire, main, lost, renames, pruned>>

(* A bill taken back to the counter stays settled on disk until its        *)
(* corrected version replaces it, under the same number.                   *)
Correct(b) ==
    /\ bill[b].stage = "settled"
    /\ Save(b, "settled", bill[b].no)
    /\ UNCHANGED <<home, issued, linked, me, prefixHere, wire, main, lost, renames, pruned>>

Void(b) ==
    /\ bill[b].stage = "settled"
    /\ Save(b, "voided", bill[b].no)
    /\ UNCHANGED <<home, issued, linked, me, prefixHere, wire, main, lost, renames, pruned>>

(* Joining writes the identity file first and the till's row after it; a   *)
(* prefix this till already uses stops it in between.  The process goes on *)
(* under the id it started with.                                           *)
Join(p) ==
    /\ ~linked /\ p # NoPrefix
    /\ linked' = TRUE
    /\ prefixHere' = IF p = prefixHere[Default] THEN prefixHere
                     ELSE [prefixHere EXCEPT ![Joined] = p]
    /\ UNCHANGED <<bill, home, queue, issued, me, wire, main, past>>

(* A person saves this till again, under this prefix or another; its       *)
(* database knows only its own rows to compare with.                       *)
RenameHere(p) ==
    /\ own + renames < MaxDeeds
    /\ prefixHere[Joined] # Unknown
    /\ p \notin {NoPrefix, prefixHere[Default]}
    /\ prefixHere' = [prefixHere EXCEPT ![Joined] = p]
    /\ renames' = renames + 1
    /\ UNCHANGED <<bill, home, queue, issued, linked, me, wire, main, lost, late, pruned,
                   taken>>

----------------------------------------------------------------------------
(* The senders.  Nothing is locked between the read of the outbox and the  *)
(* transaction that clears it.                                             *)

Read(s) ==
    /\ linked /\ at[s] = "idle" /\ Waiting # {}
    /\ at' = [at EXCEPT ![s] = "sent"]
    /\ req' = [req EXCEPT ![s] = BatchFrom(Waiting)]
    /\ UNCHANGED <<till, stored, stray, main, past>>

\* Mutant: everything that was sent leaves the outbox.
ConfirmSent(s) ==
    /\ at[s] = "told"
    /\ queue' = {b \in queue : ~Carries(req[s], b)}
    /\ at' = [at EXCEPT ![s] = "idle"]
    /\ req' = [req EXCEPT ![s] = NoRequest]
    /\ stored' = [stored EXCEPT ![s] = {}]
    /\ UNCHANGED <<bill, home, issued, linked, me, prefixHere, stray, main, past>>

(* Only what the receipt calls stored leaves the outbox, by its id.        *)
Confirm(s) ==
    /\ at[s] = "told"
    /\ queue' = queue \ stored[s]
    /\ at' = [at EXCEPT ![s] = "idle"]
    /\ req' = [req EXCEPT ![s] = NoRequest]
    /\ stored' = [stored EXCEPT ![s] = {}]
    /\ UNCHANGED <<bill, home, issued, linked, me, prefixHere, stray, main, past>>

(* The main till does not answer, or the answer is lost; the request may   *)
(* still be on its way.                                                    *)
GiveUp(s) ==
    /\ at[s] # "idle" /\ lost < MaxLost
    /\ stray' \in IF at[s] = "sent" THEN {stray, stray \cup {req[s]}} ELSE {stray}
    /\ at' = [at EXCEPT ![s] = "idle"]
    /\ req' = [req EXCEPT ![s] = NoRequest]
    /\ stored' = [stored EXCEPT ![s] = {}]
    /\ lost' = lost + 1
    /\ UNCHANGED <<till, main, renames, late, pruned, taken>>

(* The cloud's sender runs on this till too and clears the same outbox: an *)
(* entry it has pushed, or left to the file of its day, is gone for both,  *)
(* whatever was saved since it read it.                                    *)
CloudTakes(b) ==
    /\ b \in Copied \cap queue
    /\ queue' = queue \ {b}
    /\ taken' = taken \cup {b}
    /\ UNCHANGED <<bill, home, issued, linked, me, prefixHere, wire, main, lost, renames,
                   late, pruned>>

TakesNewId == linked /\ me = Default

(* This till stops and starts again, under the id its file names.  A       *)
(* request it had out is lost or is applied without it.  The restart that  *)
(* takes up a new id is not counted as a failure.                          *)
Restart ==
    /\ lost < MaxLost \/ TakesNewId
    /\ me' = IF linked THEN Joined ELSE Default
    /\ \E S \in SUBSET {s \in Senders : at[s] = "sent"} :
           stray' = stray \cup {req[s] : s \in S}
    /\ at' = [s \in Senders |-> "idle"]
    /\ req' = [s \in Senders |-> NoRequest]
    /\ stored' = [s \in Senders |-> {}]
    /\ lost' = IF TakesNewId THEN lost ELSE lost + 1
    /\ UNCHANGED <<bill, home, queue, issued, linked, prefixHere, main, renames, late, pruned,
                   taken>>

----------------------------------------------------------------------------
(* The main till. *)

InBook(b) == book[b].v > 0

(* TerminalRepo::save: an empty prefix is for a single till, and no two    *)
(* tills share one.                                                        *)
MaySave(id, p) ==
    \A t \in Ids \ {id} : prefixAt[t] = Unknown \/ (p # NoPrefix /\ p # prefixAt[t])

(* The row is written only for a till it does not know, or knows by        *)
(* another prefix.                                                         *)
Fits(id, p) == prefixAt[id] = p \/ MaySave(id, p)

Readable(q) == {b \in Bills \ Unreadable : Carries(q, b)}
\* Mutant: the ledger is not asked.
NewAlways(q) == Readable(q)
New(q) == Readable(q) \ ledger

\* Mutant: stored under the receiver's own terminal.
BookAfterAsOwn(q) ==
    [b \in Bills |->
        IF b \in New(q)
        THEN [v |-> q.orders[b].v, stage |-> q.orders[b].stage, no |-> q.orders[b].no,
              till |-> Default]
        ELSE book[b]]

(* A row keeps the terminal it was first stored under.                     *)
BookAfter(q) ==
    [b \in Bills |->
        IF b \in New(q)
        THEN [v |-> q.orders[b].v, stage |-> q.orders[b].stage, no |-> q.orders[b].no,
              till |-> IF InBook(b) THEN book[b].till ELSE q.id]
        ELSE book[b]]

(* idx_orders_bill_number: one terminal never has a number twice.  The     *)
(* main till's own bills have the numbers up to `own`.                     *)
NumberTwice(bk) ==
    \E b \in Bills :
        /\ bk[b].v > 0 /\ bk[b].no > 0
        /\ \/ bk[b].till = Default /\ bk[b].no <= own
           \/ \E c \in Bills \ {b} :
                 bk[c].v > 0 /\ bk[c].no = bk[b].no /\ bk[c].till = bk[b].till

(* The figures of a day: its bills that are settled, as they stand.        *)
Figures(bk, d) == {<<b, bk[b].v>> : b \in {c \in Bills : DayOf[c] = d /\ bk[c].stage = "settled"}}

Drawn(q) ==
    [b \in Bills |->
        IF b \in New(q) /\ q.orders[b].stage = "settled"
        THEN drawn[b] \cup {q.orders[b].v} ELSE drawn[b]]

(* The whole batch can be stored: its prefix fits, every new order finds   *)
(* the rows it points at, and no number is there twice.                    *)
Storable(q) ==
    /\ Fits(q.id, q.prefix)
    /\ New(q) \cap Dangling = {}
    /\ ~NumberTwice(BookAfter(q))

\* Mutant: a day that is closed keeps the figures it was closed with.
AppliesUnfrozen(q) ==
    /\ Storable(q)
    /\ prefixAt' = [prefixAt EXCEPT ![q.id] = q.prefix]
    /\ book' = BookAfter(q)
    /\ drawn' = Drawn(q)
    /\ ledger' = ledger \cup New(q)
    /\ UNCHANGED <<own, locked, frozen>>

(* One transaction: this till's row, every readable order that is new with *)
(* its stock and its event, the frozen figures of the days it touched.  An *)
(* order it remembers counts as stored and is left alone.                  *)
Applies(q) ==
    /\ Storable(q)
    /\ prefixAt' = [prefixAt EXCEPT ![q.id] = q.prefix]
    /\ book' = BookAfter(q)
    /\ drawn' = Drawn(q)
    /\ ledger' = ledger \cup New(q)
    /\ frozen' = [d \in Days |->
                    IF d \in locked /\ \E b \in New(q) : DayOf[b] = d
                    THEN Figures(BookAfter(q), d) ELSE frozen[d]]
    /\ UNCHANGED <<own, locked>>

(* A prefix that clashes refuses the whole batch; a number that is taken   *)
(* or a row that is missing rolls the whole batch back.  Nothing is stored *)
(* and nothing changes.                                                    *)
Refuses(q) == ~Storable(q) /\ UNCHANGED main

\* Mutant: what was stored before is not confirmed again.
AnswersNewOnly(q) == IF Storable(q) THEN New(q) ELSE {}

Answers(q) == IF Storable(q) THEN Readable(q) ELSE {}

Deliver(s) ==
    /\ at[s] = "sent" /\ at' = [at EXCEPT ![s] = "told"]
    /\ Applies(req[s]) \/ Refuses(req[s])
    /\ stored' = [stored EXCEPT ![s] = Answers(req[s])]
    /\ UNCHANGED <<till, req, stray, past>>

(* A request whose sender gave up arrives after all.                       *)
DeliverStray(q) ==
    /\ q \in stray
    /\ Applies(q) \/ Refuses(q)
    /\ stray' = stray \ {q}
    /\ UNCHANGED <<till, at, req, stored, past>>

(* Its own bill, under its own next number.                                *)
SettleOwn ==
    /\ own + renames < MaxDeeds
    /\ ~\E b \in Bills : InBook(b) /\ book[b].till = Default /\ book[b].no = own + 1
    /\ own' = own + 1
    /\ UNCHANGED <<till, wire, book, ledger, prefixAt, locked, frozen, drawn, past>>

(* It voids another till's bill on an open day; the ingredients come back  *)
(* unless the food was served and returned.                                *)
VoidThere(b) ==
    /\ book[b].stage = "settled" /\ DayOf[b] \notin locked
    /\ book' = [book EXCEPT ![b].stage = "voided"]
    /\ drawn' \in {drawn, [drawn EXCEPT ![b] = {}]}
    /\ UNCHANGED <<till, wire, ledger, prefixAt, own, locked, frozen, past>>

CloseDay(d) ==
    /\ d \notin locked
    /\ locked' = locked \cup {d}
    /\ frozen' = [frozen EXCEPT ![d] = Figures(book, d)]
    /\ UNCHANGED <<till, wire, book, ledger, prefixAt, own, drawn, past>>

ReopenDay(d) ==
    /\ d \in locked
    /\ locked' = locked \ {d}
    /\ UNCHANGED <<till, wire, book, ledger, prefixAt, own, frozen, drawn, past>>

(* The prefix of a till on file is changed at the main till.               *)
RenameThere(id, p) ==
    /\ own + renames < MaxDeeds
    /\ prefixAt[id] # Unknown /\ p # prefixAt[id] /\ MaySave(id, p)
    /\ prefixAt' = [prefixAt EXCEPT ![id] = p]
    /\ renames' = renames + 1
    /\ UNCHANGED <<till, wire, book, ledger, own, locked, frozen, drawn, lost, late, pruned,
                   taken>>

(* Its ledger is pruned of what it applied more than seven days ago; no    *)
(* request is under way that long.                                         *)
Prune(b) ==
    /\ b \in ledger
    /\ \A s \in Senders : ~Carries(req[s], b)
    /\ \A q \in stray : ~Carries(q, b)
    /\ ledger' = ledger \ {b}
    /\ pruned' = pruned \cup {b}
    /\ UNCHANGED <<till, wire, book, prefixAt, own, locked, frozen, drawn, lost, renames, late,
                   taken>>

----------------------------------------------------------------------------
Init ==
    /\ shop \in Shops
    /\ bill = [b \in Bills |-> NoVersion]
    /\ home = [b \in Bills |-> Default]
    /\ queue = {} /\ issued = [i \in Ids |-> 0]
    /\ linked = FALSE /\ me = Default
    /\ \E p \in Starting :
           /\ prefixHere = [i \in Ids |-> IF i = Default THEN p[1] ELSE Unknown]
           /\ prefixAt = [i \in Ids |-> IF i = Default THEN p[2] ELSE Unknown]
    /\ at = [s \in Senders |-> "idle"] /\ req = [s \in Senders |-> NoRequest]
    /\ stored = [s \in Senders |-> {}] /\ stray = {}
    /\ book = [b \in Bills |-> [v |-> 0, stage |-> "none", no |-> 0, till |-> Default]]
    /\ ledger = {}
    /\ own = 0 /\ locked = {} /\ frozen = [d \in Days |-> {}]
    /\ drawn = [b \in Bills |-> {}]
    /\ lost = 0 /\ renames = 0 /\ late = {} /\ pruned = {} /\ taken = {}

Counter(b) == Open(b) \/ Settle(b) \/ Cancel(b) \/ Correct(b) \/ Void(b)
Sending(s) == Read(s) \/ Deliver(s) \/ Confirm(s)

Deeds ==
    \/ \E b \in Bills : Counter(b) \/ VoidThere(b) \/ Prune(b) \/ CloudTakes(b)
    \/ \E p \in Prefixes : Join(p) \/ RenameHere(p) \/ \E id \in Ids : RenameThere(id, p)
    \/ \E s \in Senders : Sending(s) \/ GiveUp(s)
    \/ \E q \in stray : DeliverStray(q)
    \/ \E d \in Days : CloseDay(d) \/ ReopenDay(d)
    \/ Restart \/ SettleOwn

Next == Deeds /\ UNCHANGED shop

Spec == Init /\ [][Next]_vars

(* The thread loops for as long as the program runs, and the main till     *)
(* answers what reaches it.                                                *)
FairSpec == Spec /\ WF_at(Sending(Sweeper) /\ UNCHANGED shop)

----------------------------------------------------------------------------
TillType ==
    /\ shop \in Shops
    /\ bill \in [Bills -> Version] /\ home \in [Bills -> Ids] /\ queue \subseteq Bills
    /\ issued \in [Ids -> 0 .. MaxBill] /\ linked \in BOOLEAN /\ me \in Ids
    /\ prefixHere \in [Ids -> Prefixes \cup {Unknown}]

WireType ==
    /\ at \in [Senders -> {"idle", "sent", "told"}]
    /\ req \in [Senders -> Request] /\ stored \in [Senders -> SUBSET Bills]
    /\ stray \subseteq Request

BookRow == [v : 0 .. MaxVersion, stage : Stages, no : 0 .. MaxBill, till : Ids]

MainType ==
    /\ book \in [Bills -> BookRow]
    /\ ledger \subseteq Bills /\ prefixAt \in [Ids -> Prefixes \cup {Unknown}]
    /\ own \in 0 .. MaxDeeds /\ locked \subseteq Days
    /\ frozen \in [Days -> SUBSET (Bills \X (0 .. MaxVersion))]
    /\ drawn \in [Bills -> SUBSET (0 .. MaxVersion)]

PastType ==
    /\ lost \in 0 .. MaxLost /\ renames \in 0 .. MaxDeeds
    /\ late \subseteq Bills /\ pruned \subseteq Bills /\ taken \subseteq shop.copied

(* Every variable has its type; a number on a bill was issued by a series. *)
TypeOK == TillType /\ WireType /\ MainType /\ PastType

(* A finished order is owed or there: it has its entry in the outbox, or   *)
(* the main till's book has its latest version -- but for an order saved   *)
(* again after it had travelled, whose later version may never arrive      *)
(* (receive_on acknowledges what it remembers without reading it), and for *)
(* one whose entry this till's own cloud sender took, which never travels. *)
OwedOrInBook ==
    \A b \in Bills : IsFinished(b) /\ b \notin queue =>
        \/ b \in taken
        \/ InBook(b) /\ (b \in late \/ book[b].v = bill[b].v)

(* The figures of a closed day are those of its bills, whenever they came  *)
(* in (receive_on refreezes the days it touched).                          *)
ClosedDayTies == \A d \in locked : frozen[d] = Figures(book, d)

(* A bill that is a sale in the main till's book took its ingredients from *)
(* the main till's stock once, however often it was sent -- but for a bill *)
(* whose event was pruned and whose later version then came.               *)
DrawnOnce ==
    \A b \in Bills :
        /\ book[b].stage = "settled" => book[b].v \in drawn[b]
        /\ b \in pruned \/ Cardinality(drawn[b]) <= 1

(* A batch that comes again, late or twice changes nothing: what the main  *)
(* till's book says of a bill, its own void included, is never replaced by *)
(* a till while the ledger remembers the bill.                             *)
KeepsWhatItRemembers == \A b \in ledger : book'[b] = book[b] \/ VoidThere(b)
BookStands == [][KeepsWhatItRemembers]_vars

(* A bill taken under this till's own id is never in the main till's       *)
(* drawer, whenever the till joined, was started again and sent: "the day  *)
(* close per till ties across the shop".                                   *)
OwnDrawer == \A b \in Bills : InBook(b) /\ home[b] = Joined => book[b].till = Joined

(* This till has orders from before it joined, or took some before it was  *)
(* started again: they are sent under its new id with numbers its new      *)
(* series issues once more, or under the id that is the main till's own.   *)
Mixed == \E b \in Bills : bill[b].v > 0 /\ home[b] = Default

(* What no sender gets past: a window of earlier orders that stay open or  *)
(* cannot be read, and a batch with an order that cannot be stored.        *)
InTheWay(b) == {c \in queue : c < b /\ (~IsFinished(c) \/ c \in Unreadable)}
Stuck(b) == \/ Cardinality(InTheWay(b)) >= Window
            \/ Waiting \cap (Dangling \ Unreadable) # {}

(* No finished order that can be read waits for ever, while the prefix     *)
(* fits, the till has one identity and nothing before it is stuck.         *)
NoneWaitsForEver ==
    \A b \in Bills :
        ~<>[](/\ IsFinished(b) /\ b \in queue \ Unreadable /\ ~Stuck(b)
              /\ linked /\ Fits(me, PrefixSent) /\ ~Mixed)

(* "Nothing leaves the sender's queue but a confirmed apply": when an      *)
(* entry leaves, the book has the order as this till has it.               *)
LeavesWhenApplied ==
    [][\A b \in Bills : b \in queue /\ b \notin queue' => book'[b].v = bill[b].v]_vars

===============================================================================
