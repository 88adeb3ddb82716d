-------------------------------- MODULE EntryRows --------------------------------
(***************************************************************************)
(* The journal rows of a run's derivative entries, from the confirmed      *)
(* order to the retired row.  A row owns exposure: its fill cursor is what *)
(* the run holds of the venue's position.  Executions raise the cursor,    *)
(* reducing executions net it out again, a cancel ends the remainder, and  *)
(* five places retire rows or cut their quantity: the netting, the cancel  *)
(* path of the engine, the order push, the disappearance tracker and the   *)
(* flat sweep.  Each acts on what it has seen; the venue is ahead of it.   *)
(*                                                                         *)
(* Two tasks run: the watch_orders loop (pushes, then the steps of a       *)
(* reconcile pass, one REST read each) and the engine's cancels.  An       *)
(* execution is one unit; its id is its position in execs and its time.    *)
(* How the engine counts the fills is FillDelivery's subject, how much of  *)
(* a leg others hold is HedgeLeg's: here the run is alone on its legs.     *)
(***************************************************************************)
EXTENDS Integers, Sequences, FiniteSets, SequencesExt

CONSTANTS
    Rows,        \* the entries of the run
    Kinds,       \* the kinds of their orders: "working", or "position" for a market order
    Selling,     \* those on the sell side
    Size,        \* units of one order
    Hedge,       \* a hedge account: one leg per side
    MaxExecs,    \* bound of the venue's executions
    MaxLost,     \* bound of the pushes the stream drops
    MaxRestarts, \* bound of the restarts
    BlindClose   \* may rows end with a flat position while a reduction is not booked?

\* A one-way account folds a reversal into one order: that is not modelled here.
ASSUME EntryRowsAssumption ==
    /\ Kinds \subseteq {"working", "position"} /\ Selling \subseteq Rows
    /\ IsFiniteSet(Rows) /\ Rows \cap {"buy", "sell"} = {}
    /\ {Hedge, BlindClose} \subseteq BOOLEAN /\ (Hedge \/ Selling = {})
    /\ Size \in Nat \ {0} /\ MaxExecs \in Nat /\ MaxLost \in Nat /\ MaxRestarts \in Nat

VARIABLES
    execs,      \* the venue's executions in order: a row, or a side that is reduced
    status,     \* a row's venue order: live, filled or dead (ended unfilled or in part)
    late,       \* executions the execution list shows after the backfill has passed
    listed,     \* those of late the list shows by now
    pushes,     \* execution pushes on their way, in order
    endPush,    \* rows whose terminal order push is on its way
    kind,       \* durable: ENTRY_KIND_WORKING or ENTRY_KIND_POSITION
    row,        \* durable: the journal rows
    stamped,    \* durable: rows the disappearance tracker stamped as missing
    seen,       \* _seen_exec_ids
    lastOwn,    \* _last_own_fill_ms
    view,       \* _deriv_snapshot_ms, the execution _deriv_sizes includes last; -1 unknown
    unbooked,   \* _unbooked_fill_orders: proven cumExecQty of a queued row, 0 when absent
    checked,    \* _market_entries_checked
    pc,         \* the step of the watch_orders loop
    due,        \* rows whose stamp this pass has to confirm
    cancel,     \* the engine's cancel of a row's order
    lost, restarts

venueVars  == <<execs, status, late, listed>>
pushVars   == <<pushes, endPush>>
bookVars   == <<row, seen, lastOwn>>
noteVars   == <<view, unbooked, checked>>
passVars   == <<pc, due, stamped>>
faultVars  == <<lost, restarts>>
vars == <<venueVars, pushVars, kind, bookVars, noteVars, passVars, cancel, faultVars>>

Sides == {"buy", "sell"}
Market == {r \in Rows : kind[r] = "position"}
SideOf(r) == IF r \in Selling THEN "sell" ELSE "buy"
Ids == 1 .. Len(execs)

\* A row as the entry dispatch left it, its order confirmed.
Fresh == [open |-> TRUE, qty |-> Size, filled |-> 0, netted |-> 0,
          flagged |-> FALSE, known |-> FALSE]

TypeOK ==
    /\ execs \in Seq(Rows \cup Sides) /\ Len(execs) <= MaxExecs
    /\ status \in [Rows -> {"live", "filled", "dead"}]
    /\ late \subseteq Ids /\ listed \subseteq late
    /\ pushes \in Seq(Ids) /\ endPush \subseteq Rows
    /\ row \in [Rows -> [open : BOOLEAN, qty : 0 .. Size, filled : 0 .. Size,
                         netted : 0 .. Size, flagged : BOOLEAN, known : BOOLEAN]]
    /\ stamped \subseteq Rows /\ seen \subseteq Ids /\ lastOwn \in 0 .. Len(execs)
    /\ view \in -1 .. Len(execs)
    /\ unbooked \in [Rows -> 0 .. Size] /\ checked \subseteq Market
    /\ kind \in [Rows -> Kinds]
    /\ pc \in {"loop", "position", "orders", "ordersBlind", "confirm",
               "market", "backfill", "recover"}
    /\ due \subseteq Rows
    /\ cancel \in [Rows -> {"none", "acked", "notFound"}]
    /\ lost \in 0 .. MaxLost /\ restarts \in 0 .. MaxRestarts

(***************************************************************************)
(* What the venue reports.                                                 *)
(***************************************************************************)
CountUpTo(x, n) == Cardinality({e \in 1 .. n : execs[e] = x})
CumExec(r) == CountUpTo(r, Len(execs))

\* The run's exposure on a side once the first n executions happened.
HeldAt(s, n) ==
    Cardinality({e \in 1 .. n : execs[e] \in Rows /\ SideOf(execs[e]) = s}) - CountUpTo(s, n)
Held(s) == HeldAt(s, Len(execs))
FlatAt(n) == \A s \in Sides : HeldAt(s, n) = 0

Init ==
    /\ kind \in [Rows -> Kinds]
    /\ execs = <<>> /\ status = [r \in Rows |-> "live"] /\ late = {} /\ listed = {}
    /\ pushes = <<>> /\ endPush = {}
    /\ row = [r \in Rows |-> Fresh] /\ stamped = {}
    /\ seen = {} /\ lastOwn = 0 /\ view = -1 /\ unbooked = [r \in Rows |-> 0]
    /\ checked = {} /\ pc = "loop" /\ due = {} /\ cancel = [r \in Rows |-> "none"]
    /\ lost = 0 /\ restarts = 0

(***************************************************************************)
(* The venue.                                                              *)
(***************************************************************************)
\* The newest execution is pushed, or the push is lost, and the execution list
\* may then show it only after the windowed backfill has passed it.
Announce ==
    LET e == Len(execs) + 1
    IN  \/ pushes' = Append(pushes, e) /\ UNCHANGED <<late, lost>>
        \/ /\ lost < MaxLost /\ lost' = lost + 1 /\ UNCHANGED pushes
           /\ late' \in {late, late \cup {e}}

\* On a hedge account the emulator closes the other leg before it opens one.
MayOpen(r) == Hedge => \A s \in Sides \ {SideOf(r)} : Held(s) = 0

Execute(r) ==
    /\ Len(execs) < MaxExecs /\ status[r] = "live" /\ MayOpen(r)
    /\ execs' = Append(execs, r)
    /\ status' = [status EXCEPT ![r] = IF CumExec(r) + 1 = Size THEN "filled" ELSE @]
    /\ Announce
    /\ UNCHANGED <<kind, listed, endPush, bookVars, noteVars, passVars, cancel, restarts>>

\* A close, an exit leg or a trading stop of the run takes a unit off a side.
Reduce(s) ==
    /\ Len(execs) < MaxExecs /\ Held(s) > 0
    /\ execs' = Append(execs, s)
    /\ Announce
    /\ UNCHANGED <<kind, status, listed, endPush, bookVars, noteVars, passVars, cancel, restarts>>

Index(e) ==
    /\ e \in late \ listed
    /\ listed' = listed \cup {e}
    /\ UNCHANGED <<kind, execs, status, late, pushVars, bookVars, noteVars, passVars,
                   cancel, faultVars>>

\* The order ends with a remainder unfilled; its push may be lost.
Ends(r) ==
    /\ status' = [status EXCEPT ![r] = "dead"]
    /\ \/ endPush' = endPush \cup {r} /\ UNCHANGED lost
       \/ lost < MaxLost /\ lost' = lost + 1 /\ UNCHANGED endPush

\* The venue or someone else cancels it.
VenueCancel(r) ==
    /\ status[r] = "live" /\ Ends(r)
    /\ UNCHANGED <<kind, execs, late, listed, pushes, bookVars, noteVars, passVars,
                   cancel, restarts>>

(***************************************************************************)
(* Rows.                                                                   *)
(***************************************************************************)
Settled(r) == row[r].filled >= row[r].qty
Open == {r \in Rows : row[r].open}
VenueFilled(x) == x.filled + x.netted

\* Mutant: the netting forgets what it took.
NetSilently(x) == IF x.qty = 1 THEN [x EXCEPT !.open = FALSE]
                  ELSE [x EXCEPT !.qty = @ - 1, !.filled = @ - 1]

\* _net_entry_row: one unit of owned exposure leaves a row.
NetEntryRow(x) ==
    IF x.qty = 1 THEN [x EXCEPT !.open = FALSE]
    ELSE [x EXCEPT !.qty = @ - 1, !.filled = @ - 1, !.netted = @ + 1]

\* _reduce_entry_ownership: off the oldest row of the side that owns any.
Owning(rows, s) == {r \in Rows : rows[r].open /\ SideOf(r) = s /\ rows[r].filled > 0}
ReduceOwnership(rows, s) ==
    IF Owning(rows, s) = {} THEN rows
    ELSE LET oldest == CHOOSE r \in Owning(rows, s) : TRUE
         IN  [rows EXCEPT ![oldest] = NetEntryRow(@)]

\* _fill_event: the journal's part of one execution.  The cursor stops at qty.
FillRow(x) == [x EXCEPT !.filled = IF @ = x.qty THEN @ ELSE @ + 1]

BookExecution(rows, e) ==
    IF execs[e] \in Sides THEN ReduceOwnership(rows, execs[e])
    ELSE [rows EXCEPT ![execs[e]] = FillRow(@)]

\* _backfill_one_execution leaves an execution alone whose row is full.
Barred(rows, e) ==
    execs[e] \in Rows /\ rows[execs[e]].filled >= rows[execs[e]].qty

InOrder == [e \in Ids |-> e]

BookOne(entries, barrier, acc, e) ==
    IF e \notin entries \ seen \/ (barrier /\ Barred(acc.row, e)) THEN acc
    ELSE [row |-> BookExecution(acc.row, e), last |-> e]
Booked(entries, barrier) ==
    FoldLeft(LAMBDA acc, e : BookOne(entries, barrier, acc, e),
             [row |-> row, last |-> 0], InOrder)

(***************************************************************************)
(* _close_entry_rows_when_flat.                                            *)
(***************************************************************************)
\* _run_owned_signed_size, unit by unit
Units(rows, s) ==
    {u \in Rows \X (1 .. Size) :
        rows[u[1]].open /\ SideOf(u[1]) = s /\ u[2] <= rows[u[1]].filled}
Sum(rows, s) == Cardinality(Units(rows, s))

\* _deriv_is_flat: on a hedge account by the journal, else by the venue's view,
\* which must not be older than the last own fill.
DerivIsFlat(rows, at, own) ==
    /\ at >= own /\ at # -1
    /\ IF Hedge THEN Sum(rows, "buy") = Sum(rows, "sell") ELSE FlatAt(at)

\* _sweep_waits_for_ledger: a one-way view the known executions do not explain.
SweepWaits(at, known) == ~Hedge /\ ~(1 .. at \subseteq known)

\* Mutant: rows with a remainder are swept too.
SweptAll(rows, at, own, known) ==
    IF DerivIsFlat(rows, at, own) /\ ~SweepWaits(at, known)
    THEN [r \in Rows |-> [rows[r] EXCEPT !.open = FALSE]] ELSE rows

Swept(rows, at, own, known) ==
    IF DerivIsFlat(rows, at, own) /\ ~SweepWaits(at, known)
    THEN [r \in Rows |-> [rows[r] EXCEPT !.open = @ /\ rows[r].filled < rows[r].qty]]
    ELSE rows

\* A frame or a read with entries is booked, and swept after if it held an event.
BookAndSweep(entries, barrier) ==
    LET result == Booked(entries, barrier)
        own == IF result.last > lastOwn THEN result.last ELSE lastOwn
    IN  /\ seen' = seen \cup entries
        /\ lastOwn' = own
        /\ row' = IF result.last = 0 THEN result.row
                  ELSE Swept(result.row, view, own, seen')

(***************************************************************************)
(* _retire_cancelled_row.                                                  *)
(***************************************************************************)
\* Mutant: the executed quantity is taken from the cursor.
RetireAtCursor(x, cum) ==
    IF ~x.open THEN x
    ELSE LET executed == x.filled
         IN  IF executed = 0 THEN [x EXCEPT !.open = FALSE]
             ELSE [x EXCEPT !.qty = executed, !.flagged = TRUE, !.known = TRUE]

\* With the terminal figure: closed when nothing executed, else the remainder is
\* cut off and, where the cursor lags, the row is queued for the fill recovery.
RetireCancelled(x, cum) ==
    IF ~x.open THEN x
    ELSE LET executed == IF cum - x.netted > x.filled THEN cum - x.netted ELSE x.filled
         IN  IF executed = 0 THEN [x EXCEPT !.open = FALSE]
             ELSE [x EXCEPT !.qty = executed, !.flagged = TRUE, !.known = TRUE]

\* Without it (the answer to a cancel request): only the flag.
Flag(x) == IF x.open THEN [x EXCEPT !.flagged = TRUE] ELSE x

\* _note_unbooked_fills
Lags(x, cum) == VenueFilled(x) < cum
Noted(r, cum) == IF Lags(row[r], cum) THEN cum ELSE unbooked[r]

\* Several orders found ended are retired with their venue's figure.
RetireFound(found) ==
    /\ row' = [r \in Rows |-> IF r \in found THEN RetireCancelled(row[r], CumExec(r))
                              ELSE row[r]]
    /\ unbooked' = [r \in Rows |-> IF r \in found /\ row'[r].open
                                   THEN Noted(r, CumExec(r)) ELSE unbooked[r]]

(***************************************************************************)
(* Pushes, handled by the loop one at a time.                              *)
(***************************************************************************)
HandleExecution ==
    /\ pc = "loop" /\ pushes # <<>>
    /\ pushes' = Tail(pushes)
    /\ BookAndSweep({Head(pushes)}, FALSE)
    /\ UNCHANGED <<kind, venueVars, endPush, noteVars, passVars, cancel, faultVars>>

\* _translate_order_rows
HandleEnd(r) ==
    /\ pc = "loop" /\ r \in endPush
    /\ endPush' = endPush \ {r}
    /\ RetireFound({r})
    /\ UNCHANGED <<kind, venueVars, pushes, seen, lastOwn, view, checked, passVars, cancel, faultVars>>

\* _ingest_position_frame: a view no older than the last one.
HandlePosition ==
    /\ pc = "loop"
    /\ \E at \in 1 .. Len(execs) :
          /\ at >= view
          /\ view' = at
          /\ row' = Swept(row, at, lastOwn, seen)
    /\ UNCHANGED <<kind, venueVars, pushVars, seen, lastOwn, unbooked, checked, passVars,
                   cancel, faultVars>>

(***************************************************************************)
(* The reconcile pass.                                                     *)
(***************************************************************************)
\* Mutant: rows without a booked fill are passed over.
SettleDueFilled ==
    {r \in Open : row[r].flagged /\ ~row[r].known /\ ~Settled(r) /\ row[r].filled > 0}

\* _settle_cancelled_entries: flagged rows whose terminal figure is not known.
SettleDue == {r \in Open : row[r].flagged /\ ~row[r].known /\ ~Settled(r)}

SettleCancelled(read) ==
    /\ RetireFound({r \in read : status[r] # "live"})
    /\ UNCHANGED <<kind, venueVars, pushVars, seen, lastOwn, view, checked, due, stamped,
                   cancel, faultVars>>

Settle == pc = "loop" /\ pc' = "position" /\ SettleCancelled(SettleDue)
SettleFails ==
    /\ pc = "loop" /\ pc' = "position"
    /\ \E read \in SUBSET SettleDue \ {SettleDue} : SettleCancelled(read)

\* _fetch_position_rows, _ingest_position_sizes and the sweep.
ReadPosition ==
    /\ pc = "position" /\ pc' = "orders"
    /\ view' = Len(execs)
    /\ row' = Swept(row, view', lastOwn, seen)
    /\ UNCHANGED <<kind, venueVars, pushVars, seen, lastOwn, unbooked, checked, due, stamped,
                   cancel, faultVars>>

ReadPositionFails ==
    /\ pc = "position" /\ pc' = "ordersBlind"
    /\ UNCHANGED <<kind, venueVars, pushVars, bookVars, noteVars, due, stamped, cancel, faultVars>>

\* _tracked_refs: a settled row is tracked by the position, a working one by its
\* order, a cancelled remainder and a market order not at all.
ByPosition == {r \in Open : Settled(r)}
ByOrder == {r \in Open : ~Settled(r) /\ ~row[r].flagged /\ r \notin Market}

Resting == {r \in Rows : status[r] = "live"}
Present(posRead) ==
    (ByOrder \cap Resting) \cup (IF posRead /\ ~FlatAt(view) THEN ByPosition ELSE {})
Absent(posRead) ==
    (ByOrder \ Resting) \cup (IF posRead /\ FlatAt(view) THEN ByPosition ELSE {})

AfterOrders == IF due' = {} THEN "market" ELSE "confirm"

\* _disappearance_present and the tracker's pass: what is absent is stamped, and
\* confirmed once its stamp is older than the grace.
ReadOrders ==
    /\ pc \in {"orders", "ordersBlind"}
    /\ stamped' = (stamped \ Present(pc = "orders")) \cup Absent(pc = "orders")
    /\ due' = stamped \cap Absent(pc = "orders")
    /\ pc' = AfterOrders
    /\ unbooked' = [r \in Rows |-> IF r \in Open \cap Resting
                                   THEN Noted(r, CumExec(r)) ELSE unbooked[r]]
    /\ UNCHANGED <<kind, venueVars, pushVars, bookVars, view, checked, cancel, faultVars>>

\* Some stamps are younger than the grace.
ReadOrdersEarly ==
    /\ pc \in {"orders", "ordersBlind"}
    /\ stamped' = (stamped \ Present(pc = "orders")) \cup Absent(pc = "orders")
    /\ due' \in SUBSET (stamped \cap Absent(pc = "orders")) \ {stamped \cap Absent(pc = "orders")}
    /\ pc' = AfterOrders
    /\ unbooked' = [r \in Rows |-> IF r \in Open \cap Resting
                                   THEN Noted(r, CumExec(r)) ELSE unbooked[r]]
    /\ UNCHANGED <<kind, venueVars, pushVars, bookVars, view, checked, cancel, faultVars>>

\* The open orders cannot be read: only the positions are tracked.
ReadOrdersFails ==
    /\ pc \in {"orders", "ordersBlind"}
    /\ stamped' = IF pc = "ordersBlind" THEN stamped
                  ELSE (stamped \ (Present(TRUE) \ ByOrder)) \cup (Absent(TRUE) \ ByOrder)
    /\ due' = IF pc = "ordersBlind" THEN {} ELSE stamped \cap (Absent(TRUE) \ ByOrder)
    /\ pc' = AfterOrders
    /\ UNCHANGED <<kind, venueVars, pushVars, bookVars, noteVars, cancel, faultVars>>

(***************************************************************************)
(* Grace-expired stamps are confirmed one by one with a read of their own. *)
(***************************************************************************)
AfterConfirm(r) ==
    /\ due' = due \ {r}
    /\ pc' = IF due' = {} THEN "market" ELSE "confirm"

\* _confirm_settled_position: exposure is back, or the position is closed and
\* every settled row goes with it, whatever reduced it is booked or not.
Reductions == {e \in Ids : execs[e] \in Sides}
ConfirmPosition(r) ==
    /\ IF FlatAt(Len(execs))
       THEN /\ BlindClose \/ Reductions \subseteq seen
            /\ row' = [q \in Rows |-> [row[q] EXCEPT !.open = @ /\ ~Settled(q)]]
       ELSE UNCHANGED row
    /\ stamped' = stamped \ {r}
    /\ UNCHANGED unbooked

\* A dead order whose fills the cursor covers is a cancel, at the cursor's figure.
CancelConfirmed(r) == status[r] = "dead" /\ ~Lags(row[r], CumExec(r))

\* _settle_filled_row: what can no longer fill is cut off.
SettleFilled(x, cum) == IF Lags(x, cum) THEN x ELSE [x EXCEPT !.qty = x.filled]

\* _confirm_vanished_order: a dead order that lags keeps its stamp; a filled one
\* was no disappearance.
ConfirmOrder(r) ==
    /\ unbooked' = [unbooked EXCEPT ![r] = IF status[r] = "live" THEN @
                                           ELSE Noted(r, CumExec(r))]
    /\ stamped' = IF status[r] = "dead" /\ ~CancelConfirmed(r) THEN stamped
                  ELSE stamped \ {r}
    /\ row' = [row EXCEPT ![r] =
                 CASE CancelConfirmed(r)     -> RetireCancelled(@, VenueFilled(@))
                   [] status[r] = "filled"   -> SettleFilled(@, CumExec(r))
                   [] OTHER                  -> @]

Confirm(r) ==
    /\ pc = "confirm" /\ r \in due
    /\ IF Settled(r) THEN ConfirmPosition(r) ELSE ConfirmOrder(r)
    /\ AfterConfirm(r)
    /\ UNCHANGED <<kind, venueVars, pushVars, seen, lastOwn, view, checked, cancel, faultVars>>

\* The read fails: the stamp stays.
ConfirmFails(r) ==
    /\ pc = "confirm" /\ r \in due
    /\ AfterConfirm(r)
    /\ UNCHANGED <<kind, venueVars, pushVars, bookVars, noteVars, stamped, cancel, faultVars>>

\* _note_unbooked_market_entries: a market entry that lags its size is looked up
\* once its order has ended.
MarketLags == {r \in Open \cap Market : ~row[r].flagged /\ ~Settled(r)}
MarketDue == {r \in MarketLags \ checked : unbooked[r] = 0}

MarketReads(read) ==
    LET ended == {r \in read : status[r] # "live"}
    IN  /\ unbooked' = [r \in Rows |-> IF r \in ended THEN Noted(r, CumExec(r))
                                       ELSE unbooked[r]]
        /\ checked' = (checked \cup ended) \cap MarketLags
        /\ UNCHANGED <<kind, venueVars, pushVars, bookVars, view, due, stamped, cancel, faultVars>>

MarketLookup == pc = "market" /\ pc' = "backfill" /\ MarketReads(MarketDue)

\* Some lookups fail, or their rows are younger than the grace.
MarketLookupFails ==
    /\ pc = "market" /\ pc' = "backfill"
    /\ \E read \in SUBSET MarketDue \ {MarketDue} : MarketReads(read)

\* _run_deriv_fill_backfill: what the execution list showed in time.
Backfill ==
    /\ pc = "backfill" /\ pc' = "recover"
    /\ BookAndSweep(Ids \ late, TRUE)
    /\ UNCHANGED <<kind, venueVars, pushVars, noteVars, due, stamped, cancel, faultVars>>

BackfillFails ==
    /\ pc = "backfill" /\ pc' = "recover"
    /\ UNCHANGED <<kind, venueVars, pushVars, bookVars, noteVars, due, stamped, cancel, faultVars>>

\* _recover_unbooked_order_fills: all a queued row's order executed and the list
\* shows by now.  The reducing orders have rows of their own, which bring theirs.
Shown == (Ids \ late) \cup listed
Queued == {r \in Rows : unbooked[r] # 0 /\ Lags(row[r], unbooked[r])}
Recovered == {e \in Shown : execs[e] \in Queued \cup Sides}

\* The pass ends with the ledger's judgement and one more sweep.
Recover ==
    /\ pc = "recover" /\ pc' = "loop"
    /\ LET result == Booked(Recovered, TRUE)
           own == IF result.last > lastOwn THEN result.last ELSE lastOwn
       IN  /\ seen' = seen \cup Recovered
           /\ lastOwn' = own
           /\ unbooked' = [r \in Rows |-> IF Lags(result.row[r], unbooked[r])
                                          THEN unbooked[r] ELSE 0]
           /\ row' = Swept(result.row, view, own, seen')
    /\ UNCHANGED <<kind, venueVars, pushVars, view, checked, due, stamped, cancel, faultVars>>

RecoverFails ==
    /\ pc = "recover" /\ pc' = "loop"
    /\ row' = Swept(row, view, lastOwn, seen)
    /\ UNCHANGED <<kind, venueVars, pushVars, seen, lastOwn, noteVars, due, stamped, cancel, faultVars>>

(***************************************************************************)
(* The engine cancels an order (execute_cancel, execute_cancel_with_outcome)*)
(***************************************************************************)
\* _live_coids_for_cancel addresses open rows.  The request lands, and its reply
\* comes later or never: without one the engine asks again.
CancelLands(r) ==
    /\ row[r].open /\ cancel[r] = "none" /\ status[r] = "live" /\ Ends(r)
    /\ \E reply \in {"acked", "none"} : cancel' = [cancel EXCEPT ![r] = reply]
    /\ UNCHANGED <<kind, execs, late, listed, pushes, bookVars, noteVars, passVars, restarts>>

\* It comes after the order ended.
CancelNotFound(r) ==
    /\ row[r].open /\ cancel[r] = "none" /\ status[r] # "live"
    /\ cancel' = [cancel EXCEPT ![r] = "notFound"]
    /\ UNCHANGED <<kind, venueVars, pushVars, bookVars, noteVars, passVars, faultVars>>

\* The answer retires the remainder without a figure.  execute_cancel takes a
\* not-found order for a cancelled one.
CancelAnswered(r) ==
    /\ cancel[r] \in {"acked", "notFound"}
    /\ cancel' = [cancel EXCEPT ![r] = "none"]
    /\ row' = [row EXCEPT ![r] = Flag(@)]
    /\ UNCHANGED <<kind, venueVars, pushVars, seen, lastOwn, noteVars, passVars, faultVars>>

\* _cancel_outcome_for reads a not-found order back: a dead one is retired.
CancelReadBack(r) ==
    /\ cancel[r] = "notFound"
    /\ cancel' = [cancel EXCEPT ![r] = "none"]
    /\ IF status[r] = "dead" THEN RetireFound({r}) ELSE UNCHANGED <<row, unbooked>>
    /\ UNCHANGED <<kind, venueVars, pushVars, seen, lastOwn, view, checked, passVars, faultVars>>

(***************************************************************************)
(* Restart: the orphan pass, the adoption baseline, a new stream.  The     *)
(* baseline commits only once the list shows every execution.              *)
(***************************************************************************)
\* A symbol without exposure: rows that no open order backs are closed.
Orphans == IF FlatAt(Len(execs)) THEN {r \in Open : status[r] # "live"} ELSE {}

\* The cursor follows the order's executions, net of what was netted before.
Baselined(x, cum) ==
    [x EXCEPT !.filled = IF cum - x.netted > x.qty THEN x.qty
                         ELSE IF cum - x.netted > @ THEN cum - x.netted ELSE @]

\* One unit after the other off these sides; no row is on side "none".
ReduceAll(rows, sides) == FoldLeft(ReduceOwnership, rows, sides)

\* Reducing executions nobody booked are netted out.
NetUnbooked(rows) ==
    ReduceAll(rows, [e \in Ids |-> IF e \in Reductions \ seen THEN execs[e] ELSE "none"])

\* _clamp_entry_ownership_to_venue: what the rows of a side own beyond the venue.
Excess(rows, s) == LET n == Sum(rows, s) - Held(s) IN IF n > 0 THEN n ELSE 0
Clamp(rows, s) == ReduceAll(rows, [k \in 1 .. Excess(rows, s) |-> s])
Clamped(rows) == Clamp(Clamp(rows, "buy"), "sell")

Restart ==
    /\ restarts < MaxRestarts /\ restarts' = restarts + 1 /\ late = listed
    /\ LET kept == [r \in Rows |-> IF r \in Orphans THEN [row[r] EXCEPT !.open = FALSE]
                                   ELSE row[r]]
           walked == [r \in Rows |-> IF kept[r].open THEN Baselined(kept[r], CumExec(r))
                                     ELSE kept[r]]
       IN  row' = Clamped(NetUnbooked(walked))
    /\ seen' = Ids /\ lastOwn' = 0 /\ view' = Len(execs)
    /\ unbooked' = [r \in Rows |-> 0] /\ checked' = {} /\ pc' = "loop" /\ due' = {}
    /\ pushes' = <<>> /\ endPush' = {} /\ cancel' = [r \in Rows |-> "none"]
    /\ UNCHANGED <<kind, venueVars, stamped, lost>>

Venue == \/ \E r \in Rows : Execute(r) \/ VenueCancel(r)
         \/ \E s \in Sides : Reduce(s)
         \/ \E e \in Ids : Index(e)
Pushes == HandleExecution \/ (\E r \in Rows : HandleEnd(r)) \/ HandlePosition
Pass == \/ Settle \/ SettleFails \/ ReadPosition \/ ReadPositionFails
        \/ ReadOrders \/ ReadOrdersEarly \/ ReadOrdersFails
        \/ (\E r \in Rows : Confirm(r) \/ ConfirmFails(r))
        \/ MarketLookup \/ MarketLookupFails \/ Backfill \/ BackfillFails
        \/ Recover \/ RecoverFails
Cancels == \E r \in Rows : \/ CancelLands(r) \/ CancelNotFound(r)
                           \/ CancelAnswered(r) \/ CancelReadBack(r)
Next == Venue \/ Pushes \/ Pass \/ Cancels \/ Restart

Spec == Init /\ [][Next]_vars

\* The loop handles its pushes and keeps passing, each read succeeds at some time
\* when tried again and again, and the execution list catches up.  The venue
\* promises nothing, nor does the stream, nor the engine's cancels.  A working row
\* needs no windowed backfill: its order names the executions it misses.
Fairness ==
    /\ WF_vars(HandleExecution) /\ WF_vars(Pass) /\ WF_vars(\E e \in Ids : Index(e))
    /\ SF_vars(Settle) /\ SF_vars(ReadPosition) /\ SF_vars(ReadOrders)
    /\ (\A r \in Rows : SF_vars(Confirm(r))) /\ SF_vars(Recover)
    /\ "position" \in Kinds => SF_vars(MarketLookup) /\ SF_vars(Backfill)

LiveSpec == Spec /\ Fairness

-----------------------------------------------------------------------------
(***************************************************************************)
(* Properties                                                              *)
(***************************************************************************)
Unseen(r) == {e \in Ids \ seen : execs[e] = r}

\* What the venue holds of the run is owned by open rows or still to be booked:
\* no retirement, no cut quantity and no sweep drops exposure, in whatever order
\* cancels, pushes, reads and late executions arrive (_retire_cancelled_row,
\* _close_entry_rows_when_flat, _settle_filled_row, _net_entry_row).
OwnedCoversHeld ==
    \A s \in Sides :
        Held(s) <= Sum(row, s)
                   + Cardinality({e \in Ids \ seen : execs[e] \in Rows /\ SideOf(execs[e]) = s})

\* An open row keeps room for every execution its order made and the run has not
\* booked: cut short, the cursor would swallow it (set_filled stops at qty and
\* the backfill skips a full row).
RoomForOwed == \A r \in Open : row[r].qty - row[r].filled >= Cardinality(Unseen(r))

\* Cursor and netted quantity together are the executions booked: the figure that
\* is compared with the venue's cumExecQty (venue_filled_qty).
CursorMatches == \A r \in Open : VenueFilled(row[r]) = Cardinality(seen \cap {e \in Ids : execs[e] = r})

\* Once its order has ended and its executions are listed, a row ends: it is
\* closed, or settled with nothing left that could fill.
RowSettles == \A r \in Rows : status[r] # "live" ~> (~row[r].open \/ Settled(r))

\* Once all orders have ended and the run holds nothing, no row stays open.
RowsRetire ==
    ((\A r \in Rows : status[r] # "live") /\ FlatAt(Len(execs))) ~> (Open = {})
=================================================================================
