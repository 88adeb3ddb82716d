----------------------------- MODULE SpotInventory -----------------------------
(***************************************************************************)
(* Spot has no position object: the run's position is the fold of a        *)
(* durable ledger of its own executions.  A push books an execution and    *)
(* tells the engine of it; whatever the stream lost is read back from the  *)
(* execution history, which is paged newest-first in windows behind a time *)
(* cursor.  An execution is told by exactly one of the push, the reconcile *)
(* pass and the adoption of the ledger at startup.                         *)
(*                                                                         *)
(* The manager of the ledger belongs to the core and is modelled from how  *)
(* the plugin drives it.  The run trades in rounds: a buy that fills in    *)
(* two halves, then a sell that leaves a residue no order can sell.        *)
(* Executions are numbered in the order of their time.                     *)
(***************************************************************************)
EXTENDS Integers, FiniteSets, Sequences, FiniteSetsExt

CONSTANTS
    MaxNow,     \* bound of the venue's clock
    Overlap,    \* EXECUTION_CURSOR_OVERLAP_MS
    Window,     \* EXECUTION_WINDOW_MS
    Lag,        \* how late the history shows an execution
    Ahead,      \* how far the local clock is ahead of the venue's
    PageSize,   \* EXECUTION_PAGE_LIMIT
    MaxPages,   \* _MAX_WINDOW_PAGES
    Half,       \* base received by each half of a buy
    Sold,       \* base shed by the sell
    Step,       \* quantity grid
    MinSell,    \* least sellable quantity at the current price
    MaxOwn,     \* bound of the run's executions
    MaxFaults,
    MaxCrashes,
    None,
    Beyond      \* what the code does not survive: see README

ASSUME ClockAssumption ==
    /\ {MaxNow, Overlap, Lag, Ahead} \subseteq Nat /\ Window \in Nat /\ Window > Overlap
    /\ Beyond \subseteq {"clock", "seed", "early"}
    /\ "clock" \in Beyond \/ Lag + Ahead <= Overlap

ASSUME NoneAssumption == None \notin Nat

ASSUME SizeAssumption ==
    /\ {PageSize, MaxPages, Half, Sold, Step, MinSell} \subseteq Nat \ {0}
    /\ {MaxOwn, MaxFaults, MaxCrashes} \subseteq Nat
    /\ Step <= MinSell /\ Sold <= 2 * Half

\* Execution n of the run belongs to this round.
RoundOf(n) == (n - 1) \div 3 + 1

Ids    == 1 .. MaxOwn
Rounds == 1 .. RoundOf(MaxOwn)
Clock  == 0 .. MaxNow + Ahead

VARIABLES
    now,      \* venue: its clock
    execs,    \* venue: the times of the run's executions
    listed,   \* venue: the ones the history shows
    wire,     \* pushes on their way
    cursor,   \* durable: the time cursor
    ledger,   \* durable: executions booked
    folded,   \* durable: the ones compacted into the baseline
    row,      \* durable: entry rows, one per round
    filled,   \* durable: halves a row has booked
    posted,   \* orders dispatched so far
    parked,   \* durable: the last dispatch has no recorded answer
    pc,       \* where the plugin is
    seen,     \* memory: executions it will not look at again
    told,     \* how often the engine took an execution into its position
    read,     \* the window being read: [from, to, more, below, pages, got]
    found,    \* rows the running pass booked
    spent     \* faults and crashes so far

venueVars == <<now, execs, listed>>
bookVars  == <<cursor, ledger, folded>>
rowVars   == <<row, filled>>
sendVars  == <<posted, parked>>
passVars  == <<read, found>>
vars == <<venueVars, wire, bookVars, rowVars, sendVars, pc, seen, told, passVars, spent>>

NoRead == [from |-> 0, to |-> 0, more |-> FALSE, below |-> 1, pages |-> 0, got |-> {}]

TypeOK ==
    /\ now \in 0 .. MaxNow
    /\ execs \in Seq(0 .. MaxNow) /\ Len(execs) <= MaxOwn
    /\ listed \subseteq Ids /\ wire \subseteq Ids
    /\ cursor \in Clock \cup {None} /\ ledger \subseteq Ids /\ folded \subseteq ledger
    /\ row \in [Rounds -> {"none", "live", "closed"}] /\ filled \in [Rounds -> 0 .. 2]
    /\ posted \in 0 .. 2 * MaxOwn /\ parked \in BOOLEAN
    /\ pc \in {"down", "startread", "seed", "adopt", "loop", "fetch", "read", "settle"}
    /\ seen \subseteq Ids /\ told \in [Ids -> 0 .. 2]
    /\ read \in [from : Clock, to : Clock, more : BOOLEAN, below : 1 .. MaxOwn + 1,
                 pages : 0 .. MaxPages, got : SUBSET Ids]
    /\ found \subseteq Ids
    /\ spent \in [faults : 0 .. MaxFaults, crashes : 0 .. MaxCrashes]

Init ==
    /\ now = 0 /\ execs = <<>> /\ listed = {} /\ wire = {}
    /\ cursor = None /\ ledger = {} /\ folded = {}
    /\ row = [r \in Rounds |-> "none"] /\ filled = [r \in Rounds |-> 0]
    /\ posted = 0 /\ parked = FALSE
    /\ pc = "down" /\ seen = {} /\ told = [i \in Ids |-> 0]
    /\ read = NoRead /\ found = {} /\ spent = [faults |-> 0, crashes |-> 0]

Fault == spent.faults < MaxFaults /\ spent' = [spent EXCEPT !.faults = @ + 1]

(***************************************************************************)
(* What the run trades: order 2r-1 is the buy of round r, 2r its sell.     *)
(***************************************************************************)
IsBuy(n)   == (n - 1) % 3 < 2
OrderOf(n) == 2 * RoundOf(n) - (IF IsBuy(n) THEN 1 ELSE 0)
LastOf(k)  == 3 * (k \div 2) + 2 * (k % 2)

Known   == 1 .. Len(execs)
Delta(i) == IF IsBuy(i) THEN Half ELSE -Sold
Net(S)  == MapThenSumSet(Delta, S)
Position == Net(ledger \ folded)

\* get_position reports nothing.
Flat == Position < MinSell

Local   == now + Ahead

\* The stream is open.
Streaming == pc \in {"loop", "fetch", "read", "settle"}

(***************************************************************************)
(* The venue.                                                              *)
(***************************************************************************)
Tick ==
    /\ now < MaxNow /\ now' = now + 1
    /\ \A i \in Known \ listed : now < execs[i] + Lag
    /\ UNCHANGED <<execs, listed, wire, bookVars, rowVars, sendVars, pc, seen, told,
                   passVars, spent>>

\* An order of the run executes; its push is lost when the stream is down, or on the way.
Execute ==
    /\ Len(execs) < MaxOwn /\ OrderOf(Len(execs) + 1) <= posted
    /\ execs' = Append(execs, now)
    /\ \/ UNCHANGED wire
       \/ Streaming /\ wire' = wire \cup {Len(execs')}
       \/ pc = "adopt" /\ "early" \in Beyond /\ wire' = wire \cup {Len(execs')}
    /\ UNCHANGED <<now, listed, bookVars, rowVars, sendVars, pc, seen, told, passVars,
                   spent>>

\* An execution appears while the startup reads on, up to the recovery of an unanswered
\* dispatch ("seed").
List(i) ==
    /\ i \in Known \ listed /\ listed' = listed \cup {i}
    /\ "seed" \in Beyond \/ ~(pc \in {"startread", "seed"} /\ parked)
    /\ UNCHANGED <<now, execs, wire, bookVars, rowVars, sendVars, pc, seen, told,
                   passVars, spent>>

(***************************************************************************)
(* fetch_executions and _drain_window.                                     *)
(***************************************************************************)
\* Mutant: the window starts at the cursor itself.
NoOverlap == cursor

From == Max({0, cursor - Overlap})

Begin(next) ==
    /\ pc' = next
    /\ read' = [from |-> From, to |-> Min({From + Window, Local}),
                more |-> From + Window < Local, below |-> Len(execs) + 1, pages |-> 0, got |-> {}]

\* Without a cursor the ledger starts now; what went before is not the run's.
StartFetch ==
    /\ pc = "down"
    /\ IF cursor = None THEN cursor' = Local /\ pc' = "seed" /\ UNCHANGED read
                        ELSE Begin("startread") /\ UNCHANGED cursor
    /\ UNCHANGED <<venueVars, wire, ledger, folded, rowVars, sendVars, seen, told,
                   found, spent>>

\* A reconcile pass; an unanswered dispatch may get its answer first.
StartPass ==
    /\ pc = "loop" /\ Begin("read") /\ parked' \in {parked, FALSE}
    /\ UNCHANGED <<venueVars, wire, bookVars, rowVars, posted, seen, told, found, spent>>

NextWindow ==
    /\ pc = "fetch" /\ Begin("read")
    /\ UNCHANGED <<venueVars, wire, bookVars, rowVars, sendVars, seen, told, found, spent>>

Reading == pc \in {"startread", "read"}
Left    == {i \in listed : i < read.below /\ execs[i] \in read.from .. read.to}

\* The newest rows not read yet.
NextPage == {i \in Left : Cardinality({j \in Left : j > i}) < PageSize}

Page ==
    /\ Reading /\ read.pages < MaxPages /\ (Left # {} \/ read.pages = 0)
    /\ read' = [read EXCEPT !.pages = @ + 1, !.got = @ \cup NextPage,
                            !.below = IF NextPage = {} THEN @ ELSE Min(NextPage)]
    /\ UNCHANGED <<venueVars, wire, bookVars, rowVars, sendVars, pc, seen, told, found,
                   spent>>

Book(rows) ==
    /\ ledger' = ledger \cup rows /\ found' = found \cup (rows \ ledger)
    /\ UNCHANGED folded

\* The window is drained: the rows are booked, the cursor moves to its end.
Drained ==
    /\ Reading /\ read.pages > 0 /\ Left = {}
    /\ Book(read.got) /\ cursor' = read.to /\ read' = NoRead
    /\ pc' = CASE read.more /\ pc = "read" -> "fetch"
               [] read.more /\ pc = "startread" -> "down"
               [] ~read.more /\ pc = "read" -> "settle"
               [] ~read.more /\ pc = "startread" -> "seed"
    /\ UNCHANGED <<venueVars, wire, rowVars, sendVars, seen, told, spent>>

\* Mutant: the cursor moves on although older rows were not read.
GivesUpAhead == cursor' = read.to

\* Inconclusive: the cursor stays, whatever the manager does with the rows.
GivesUp == UNCHANGED cursor

\* A page fails, or there are too many.
Undrained ==
    /\ Reading
    /\ \/ Fault
       \/ read.pages = MaxPages /\ Left # {} /\ UNCHANGED spent
    /\ GivesUp /\ read' = NoRead
    /\ \E rows \in {{}, read.got} : Book(rows)
    /\ pc' = IF pc = "read" THEN "settle" ELSE "down"
    /\ UNCHANGED <<venueVars, wire, rowVars, sendVars, seen, told>>

(***************************************************************************)
(* Telling the engine.                                                     *)
(***************************************************************************)
Halves(r, new) == {i \in new : IsBuy(i) /\ RoundOf(i) = r}

FilledWith(r, new) == Min({2, filled[r] + Cardinality(Halves(r, new))})

\* _fill_event: the row's cursor; a fill is also the proof that its dispatch landed.
TellAll(new) ==
    /\ told' = [i \in Ids |-> IF i \in new THEN told[i] + 1 ELSE told[i]]
    /\ filled' = [r \in Rounds |-> FilledWith(r, new)]
    /\ parked' = (parked /\ \A i \in new : OrderOf(i) # posted)

\* _close_entry_rows_when_flat, with the ledger and the cursors as they are by now.
Sweep(net) ==
    row' = [r \in Rounds |->
              IF row[r] = "live" /\ filled'[r] = 2 /\ (net <= 0 \/ net < Step)
              THEN "closed" ELSE row[r]]

\* record_live_fill takes it: the ledger did not know it.
New(i) == i \notin seen \cup ledger

\* _translate_executions.
Push(i) ==
    /\ pc \in {"loop"} \cup (IF "early" \in Beyond THEN {"adopt"} ELSE {})
    /\ i \in wire /\ wire' = wire \ {i} /\ seen' = seen \cup {i}
    /\ IF New(i) THEN /\ ledger' = ledger \cup {i} /\ TellAll({i})
                      /\ Sweep(Net(ledger' \ folded))
                 ELSE UNCHANGED <<ledger, told, rowVars, parked>>
    /\ UNCHANGED <<venueVars, cursor, folded, posted, pc, passVars, spent>>

\* The engine sends the next order when it knows of all the last one did.
Send ==
    /\ Streaming /\ posted < OrderOf(MaxOwn)
    /\ \A n \in 1 .. LastOf(posted) : told[n] > 0
    /\ posted' = posted + 1 /\ parked' \in BOOLEAN
    /\ row' = IF posted' % 2 = 1 THEN [row EXCEPT ![(posted' + 1) \div 2] = "live"] ELSE row
    /\ UNCHANGED <<venueVars, wire, bookVars, filled, pc, seen, told, passVars, spent>>

(***************************************************************************)
(* The reconcile pass.                                                     *)
(***************************************************************************)
\* Mutant: what the pass booked is left to the stream.
LeftToStream == {}

\* _recovered_row_event.
Recovered == found \ seen

\* The manager compacts a fold no order can sell; the first pass knows a price.
Compacted == IF Flat THEN ledger ELSE folded

\* Mutant: rows are retired by a push only.
NoSweep == UNCHANGED row

SweepAfterPass == Sweep(Net(ledger \ folded'))

Settle ==
    /\ pc = "settle" /\ pc' = "loop"
    /\ TellAll(Recovered) /\ seen' = seen \cup Recovered /\ found' = {}
    /\ folded' = Compacted /\ SweepAfterPass
    /\ UNCHANGED <<venueVars, wire, cursor, ledger, posted, read, spent>>

(***************************************************************************)
(* Startup and crash.                                                      *)
(***************************************************************************)
\* The manager starts: it reads the history from the cursor on.
Done(k) == {i \in Known : OrderOf(i) = k}

\* _retire_startup_orphans: nothing is held, and the order rests no more.
Orphans(promoted) ==
    {r \in Rounds : /\ row[r] = "live" /\ Position <= 0
                    /\ r # promoted /\ Cardinality(Done(2 * r - 1)) = 2}

\* _recover_in_flight_submissions: an unanswered dispatch that executed is confirmed, and
\* its executions count as seen; without a single one it stays as it is.
Seed ==
    LET shown == Done(posted) \cap listed
        confirmed == parked /\ (shown # {} \/ Done(posted) = {})
        r == (posted + 1) \div 2
        buy == confirmed /\ posted % 2 = 1
    IN  /\ pc = "seed" /\ pc' = "adopt"
        /\ seen' = IF confirmed THEN seen \cup shown ELSE seen
        /\ filled' = IF buy THEN [filled EXCEPT ![r] = Max({@, Cardinality(Done(posted))})]
                            ELSE filled
        /\ parked' = (parked /\ ~confirmed)
        /\ row' = [q \in Rounds |-> IF q \in Orphans(IF buy THEN r ELSE 0) THEN "closed" ELSE row[q]]
        /\ found' = {}
        /\ UNCHANGED <<venueVars, wire, bookVars, posted, told, read, spent>>

\* The lookup or the read of the executions fails: the dispatch stays unanswered.
SeedFails ==
    /\ pc = "seed" /\ parked /\ Fault /\ pc' = "adopt" /\ found' = {}
    /\ UNCHANGED <<venueVars, wire, bookVars, rowVars, sendVars, seen, told, read>>

\* The engine takes its position from the ledger, then what is queued for it.
Adopt ==
    /\ pc = "adopt" /\ pc' = "loop"
    /\ told' = [i \in Ids |-> told[i] + IF i \in ledger THEN 1 ELSE 0]
    /\ UNCHANGED <<venueVars, wire, bookVars, rowVars, sendVars, seen, passVars, spent>>

Crash ==
    /\ pc # "down" /\ spent.crashes < MaxCrashes
    /\ spent' = [spent EXCEPT !.crashes = @ + 1]
    /\ pc' = "down" /\ wire' = {} /\ seen' = {} /\ told' = [i \in Ids |-> 0]
    /\ read' = NoRead /\ found' = {}
    /\ UNCHANGED <<venueVars, bookVars, rowVars, sendVars>>

(***************************************************************************)
(* Behaviours.                                                             *)
(***************************************************************************)
Venue == Tick \/ Execute \/ \E i \in Ids : List(i)

Plugin ==
    \/ StartFetch \/ Seed \/ SeedFails \/ Adopt
    \/ StartPass \/ NextWindow \/ Page \/ Drained \/ Undrained \/ Settle
    \/ \E i \in Ids : Push(i)

Next == Venue \/ Plugin \/ Send \/ Crash

\* What the coroutine does next on its own; no read fails for ever.
Work ==
    \/ StartFetch \/ Seed \/ Adopt \/ StartPass \/ NextWindow
    \/ Page \/ Drained \/ (Undrained /\ UNCHANGED spent) \/ Settle

\* The clock goes on, the history shows what was executed; the loop runs, and its pass is due again and again.
Fairness == WF_vars(Tick) /\ WF_vars(\E i \in Ids : List(i)) /\ WF_vars(Work)

Spec == Init /\ [][Next]_vars /\ Fairness

(***************************************************************************)
(* Properties.                                                             *)
(***************************************************************************)
\* While the loop runs, the engine has taken into its position each execution the plugin
\* will not look at again, once, and no other: by push, pass or adoption, in any order
\* with a crash (events.py:587-597, 1702-1713, recovery.py:244-258).
ToldOnce ==
    Streaming => \A i \in Known : told[i] = IF i \in (ledger \cup seen) \ found THEN 1 ELSE 0

\* No execution of the run is left behind the cursor: what lies before the next read's
\* window is in the ledger, although pages fail, rows appear late and newer than the page
\* being read, and the local clock is not the venue's (inventory.py:13-16, 200-221).
NothingSkipped ==
    cursor # None => \A i \in Known : execs[i] < cursor - Overlap => i \in ledger

\* More happened in a window than can be paged.
Crowded ==
    \E t \in 0 .. MaxNow :
        Cardinality({i \in Known : execs[i] \in t .. t + Window}) > MaxPages * PageSize

\* Every execution of the run reaches the engine, whatever pushes are lost
\* (events.py:1676-1684), unless more happen in a window than can be paged.
EveryFillTold == []<>(Crowded \/ \A i \in Known : told[i] > 0)

\* The row of a filled entry does not outlive the position by more than the passes it
\* takes to compact a residue that no order can sell (events.py:1171-1196).
RowsRetire ==
    \A r \in Rounds : (row[r] = "live" /\ filled[r] = 2 /\ Streaming /\ Flat)
                        ~> (row[r] = "closed" \/ ~Flat \/ Crowded)
================================================================================
