# A verification project for the Bybit plugin

TLA+ models of `src/src/pynecore_bybit`, the Bybit data and broker plugin of PyneCore, the TLC
configurations that check them on small instances, and TLAPS proofs of what matters most.
Paths below without a directory are under `src/src/pynecore_bybit/`.

Contents: [1 the system](#1-the-system), [2 the modules](#2-the-modules),
[3 the runs](#3-the-runs), [4 disagreements between code and text](#4-disagreements-between-code-and-text),
[5 the proofs](#5-the-proofs), [6 what is only model-checked](#6-what-is-only-model-checked-and-what-is-not-modelled),
[7 plan](#7-plan).

## 1 The system

The plugin sits between the venue (REST and two WebSocket streams, public and private) and
the core: a runner that reads one stream of bars, and an engine that dispatches the
strategy's intents, reads order events, and keeps the run's durable store (journal rows
and envelopes). Everything runs in one asyncio loop; tasks interleave wherever the code
awaits. The core is not in this repository. What the models say of it comes from how the
plugin calls it and from the plugin's tests, and such definitions are marked external in
`PROJECT.json`.

| Component | State | Operations | Talks to |
| --- | --- | --- | --- |
| Live kline provider (`live_provider.py`) | last closed bar, the watermark bar of the stream, bar queue with a closure sentinel, snapshot slot, held-back closes, gap bounds | `connect`, `disconnect`, `on_reconnect`, `watch_ohlcv`, `backfill_closed_bars`, push handler, watchdog | runner (calls), WS client (callbacks), REST |
| WebSocket client (`ws.py`) | socket, receive task, pending requests | open, subscribe, close, receive loop, pings | providers (callbacks) |
| Share ledger (`ledger.py`) | per leg: cursor, leg, share, doubt, journal, views, events, credits, gaps | `add_event`, `add_view`, `advance`, `late_own`, `late_foreign`, `expire`, credits | protection and events, which drive it |
| Protection (`protection.py`) | ledgers, known execution seqs, the hold after a stream gap, protection orders of other parties that wait for a verdict, trading-stop state | own and foreign executions and views in, verdicts out, journal netting, flat-sweep veto, verdicts on others' protection orders | ledger, journal, events |
| Private stream, executions and fills (`events.py`) | event queue, frames parked before adoption, seen-id frontier, backfill watermark and floor, queue of unbooked orders | `watch_orders`, translation of order, execution and position frames, windowed backfill, per-order recovery, ownership netting, flat sweep | engine (events), journal, ledger, REST |
| Positions and adoption baseline (`positions.py`) | venue sizes and their time, baseline committed or not | position read, adoption passes (snapshot, clock, walks, verify), ownership clamp, hedge port | events (frontier, floor), journal |
| Order execution (`execution.py`) | order-link ids, envelopes and rows in the store | entry, exit bracket with its rollback, trading stop, close, cancel, modify, duplicate-id lookup | engine (exceptions tell the outcome), REST, journal |
| Restart recovery (`recovery.py`) | none of its own | in-flight submissions, envelopes, orphans | journal, REST |
| Reconcile of disappeared orders (`reconcile.py`) | stamps, streaks of missed lookups, orders to confirm | presence, confirmation, cancel settlement, parked dispatches | core tracker, journal, events |
| Broker state (`state.py`) | none of its own | open orders, position read model, startup order | recovery, positions, events |
| Spot inventory (`inventory.py`) | time cursor and bookings, in the core's ledger | paged execution drain, dust bound | the core's ledger manager, events, recovery |
| REST client (`rest.py`) | clock offset | request, retry after a clock error | everybody |
| Historical provider, shell, models | – | downloads, conversions, declarations | – |
| Broker lab (`broker_lab/suite.py`) | – | scenarios for a test harness of the core | plugin, under test |

What is hard here, and what must be right because of it:

* **Kline stream.** A reconnect backfill, held-back and fresh closes, a watchdog and the runner
  share a cursor and a queue; each await in `on_reconnect` lets the socket push, close or die.
  Right means: the core takes every closed bar once and in order, and no intra-bar update comes
  after the close of its bar.
* **Ledger.** Own and foreign executions, position views and their REST copies arrive in any
  order, or never; a verdict given up by timeout may be overtaken by late executions. Right means:
  the share counted as the run's is the run's, nothing is reported as an external close that did
  not take the run's share, and the journal is not netted twice.
* **Fills.** Four readers deliver the same executions (adoption, push, windowed backfill,
  per-order recovery) across crashes, stream drops, and an execution list that lags. Right means:
  each execution moves the engine's position exactly once.
* **Dispatch.** Request, reply and process can be lost at any point; an id may have been spent by a
  prior instance. Right means: one intent, one order, and nothing waits for ever.
* **Journal rows.** Five places close or shorten rows (netting, engine cancel, order push,
  disappearance tracker, flat sweep), each on what it has seen. Right means: no retirement drops
  exposure that the venue still holds, and no row outlives its position.
* **Exit brackets.** A bracket is two orders placed one after the other; the second may be refused, lost, or find its
  id spent while the first is already filling. Right means: no half bracket is mistaken for a whole one,
  none of an old one stays beside the new, and a position whose bracket failed ends flat.
* **Trading stops.** A trailing exit is an attribute of the position and not an order. What it executes carries no id
  of the run and closes other parties' exposure with it; the row that claims it may be released or
  superseded before the execution is delivered. Right means: the journal loses exactly the
  run's part, once, and an exit the engine counts on is attached.
* **Spot.** There is no position to read: the run's position is the sum of its booked executions, and three
  readers book them (push, reconcile pass, startup). Right means: each is told to the engine once,
  and the cursor passes none.
* **Protection orders of other parties.** Order pushes, executions and views come over separate channels, and nothing
  in them says whether an order covers the run's share. Right means: the verdict is about the state the
  order was placed or amended in, however late the ledger learns of it.

`PROJECT.json` lists the components with their status and every hazard at its source line with the
properties that watch it.

## 2 The modules

| Module | Models | Uses |
| --- | --- | --- |
| `BarStream` | abstract: a stream of closed bars of which the core takes the next one | |
| `KlineFeed` | live provider with its socket, the venue's pushes and the runner's reconnect cycle | instantiates `BarStream` |
| `KlineFeedProofs` | theorems about `KlineFeed` | |
| `LegLedger` | the ledger of one hedge leg: every method the hedge paths reach, as operators on a record | |
| `HedgeLeg` | venue, delivery, journal and the driver of the ledger for one leg | `LegLedger` |
| `FillDelivery` | the four readers of executions, adoption, crash and restart | |
| `FillDeliveryProofs` | theorems about `FillDelivery` | |
| `Dispatch` | entry dispatch, parked dispatches, recovery of in-flight submissions | |
| `DispatchProofs` | theorems about `Dispatch` | |
| `EntryRows` | the journal rows of entries: cursor, netting, cancels, tracker, sweep, adoption | |
| `EntryRowsProofs` | theorems about `EntryRows` | |
| `ExitBracket` | one exit as two orders: placement, rollback, escalation, changes, cancel | |
| `ExitBracketProofs` | theorems about `ExitBracket` | |
| `TradingStop` | trailing exits: attach, supersession, clear, firing, attribution of what fired, restart | |
| `ProtectionProofs` | theorems about `TradingStop` and `HedgeLeg`, lemmas about sums over finite sets, ordered lists and stepwise functions | |
| `SpotInventory` | the spot position: pushes, paged drain, compaction and sweep, recovery, adoption | |
| `SpotInventoryProofs` | theorems about `SpotInventory` | |
| `ForeignStops` | the verdict on another party's protection order | |
| `ForeignStopsProofs` | theorems about `ForeignStops` | |

The configuration files instantiate the modules directly; constants are numbers, booleans and small
sets of model values, so there are no separate MC modules. The last section of a module states its
properties. Operators introduced by a comment `Mutant:` are plausible bugs of the definition that follows
and are used by no definition of the specification; `PROJECT.json` pairs each with the property it breaks.

### KlineFeed

Bars are numbered; `now` is the bar the venue forms. `wire` holds pushed frames, `queue` the provider's
bar queue (0 stands for the `None` sentinel), `snapshot` the forming slot, `held` the closes of a new
connection kept back while the gap is fetched, `lastClosed` and `streamBar` the two cursors. `phase` says
where the runner stands: `startup` and `startupGap` (the pages of `backfill_closed_bars`), `live`,
`down`, `disconnected`, `connected` and `backfill` (the pages of `on_reconnect`), `failClose` (its failure
path awaiting the close handshake). One action per handler: `OnWsMessage`, `Die` (with `_on_ws_closed`),
`WatchQueue`, `TakeSpliced`, `Disconnect`, `Connect`, `OnReconnect`, `BackfillPage`,
`BackfillFails`, `FailClosed`, `StartupPage`. `splice` is the list of startup bars the runner still has to
hand over. Two constants open behaviours the code does not survive: `DropInReconnect` (the new socket
dies while `on_reconnect` runs) and `PushInClose` (a confirm frame is handled while a failed
`on_reconnect` awaits the close handshake). A failing startup backfill is not modelled.
The runner is external; its cycle follows `tests/test_bybit_feed_continuity.py`.

### LegLedger and HedgeLeg

A ledger is a record with the fields of the class; each method is an operator from a record to a
record (and verdicts). The limits of its lists are constants, so that runs can reach them.
`HedgeLeg` holds the venue's true history (`history`, `taken`) beside the plugin's view of it, and judges
the verdicts by it. An action models a whole handler: an own execution moves the entry rows, enters the
ledger, lets it advance, reports and nets the journal.

* `MaxMissing = 1`: two missing executions that cancel each other out leave a view that fits without
  them; the code documents this (`ledger.py:34-38`), so at most one is missing while nothing is held.
* `LateStarts`: a ledger may start later than the adoption baseline and then takes journal and first
  view at their word. `ProvenPartHeld`, `NoFalseReport` and `ExactAtCursor` therefore speak of ledgers
  anchored on the baseline (`OnBaseline`).
* `OwnInOrder`: own executions arrive in their order; section 4 says what happens otherwise.
* Not modelled: `open_credit`, executions without a seq, the mirror of inverse contracts, the one-way leg.

### FillDelivery

An execution is one unit of an order and its id is its place in `execs`. `owners` counts how often
the engine's position includes it: the adopted size or an emitted event. `seen` is the frontier of
ids, `filled` the rows' cursors, `wm` and `pwm` the backfill watermark in memory and in the store,
`floor` the adoption floor, `parked` the frames kept until the baseline commits, `unbooked` the
orders queued for the per-order recovery. Two tasks: the `watch_orders` loop (`pc`) and the adoption passes
(`adopt`: snapshot, clock, one walk per row, verify). A tick is the unit of the window's overlap. Entry
rows only; rows are not closed by their last fill, and the retirement of recovered rows without fills
is left out (both concern `EntryRows`). Local and venue clock are one clock.

### Dispatch

One intent, its ids numbered as they are minted, each with a venue order and a journal row. The row and
the envelope are durable before the request goes on the `wire`. A tick is one interval of the
reconcile cadence; within it a create lands or is lost and its order shows in the reads, which is what the
miss streak of the parked lookup stands on (30 s of grace and three misses in the code). Id 1 may be
a leftover of a prior instance. The engine's part is external: it dispatches an intent that is
neither parked nor placed, parks one of unknown fate (`OrderDispositionUnknownError`), re-anchors a spent
id (`ClientOrderIdSpentError`), consumes a resolution on its next sync; re-opening a closed row restarts
its creation time (`tests/test_bybit_broker.py:673`). Cancels and closes are not part of this module.
`PartialCancel` lets the venue cancel the rest of a partly filled order.

### EntryRows

A row is `[open, qty, filled, netted, flagged, known]`: the cursor, what netting took off, the
cancelled flag and whether the terminal figure is known. The loop handles pushes one at a time and
steps through a reconcile pass (`pc`), one REST read per step, each of which may fail. The
engine's cancels run beside it; the request lands at once and its answer comes later or never. Kinds:
`"working"` (limit, stop) and `"position"` (market). Abstractions:

* The run is alone on its legs; other parties' executions are `HedgeLeg`'s subject, and so is the
  ledger's give-up (the flat sweep waits until the known executions explain the view).
* A reducing execution is one unit off a side; the rows of the reducing orders are not modelled and are
  taken as always queued for recovery. The running sum of `_fill_event` equals cursor plus netted.
* The grace of the disappearance tracker and of the market lookup is a choice (`ReadOrdersEarly`,
  `MarketLookupFails`). The tracker is core; its use follows `tests/test_bybit_disappearance.py`.
* A restart is one step, taken once the execution list shows everything (the adoption passes in between are
  `FillDelivery`'s). `BlindClose` says whether rows may end with a flat position while an execution that
  reduced it is not booked; the code does not ask (section 4), so `TRUE` is the code. An order older than the
  venue's order history (a lookup that does not find it, and the adoption branch for it, `positions.py:755-790`)
  is not modelled, nor is `modify_entry`.

### ExitBracket

One exit id of one entry. An order is a leg and the generation of the envelope its id is built from; `status`,
`exec` and `doomed` (a cancel accepted and not yet carried out) are the venue's, `row` and `open` the journal's.
`pc` follows the call of the plugin: `place`/`posted` (`_execute_exit`, a leg's request and its answer),
`rollback`, `reread`, `recancel`, `confirm` (`_rollback_spent_sibling` and its readback), `spent`, `parked` and
`escalated` (the three ways up to the engine), `amend` and `recreate` (`modify_exit`), `mixed` and `cancel` (the two
cancels). The engine is external: it re-anchors a spent bracket, answers a refused one with the defensive
close and the cancels of the residuals, and uses the exit id for the next entry's bracket. Recovery of exit
rows at a restart is not modelled; `Traceable` says what it can rely on.

* `SlowCancel = TRUE` opens a case the code does not survive (section 4).
* The precision of quantities, the spot branch and the one-leg fallbacks for legs below the venue's minimum are
  left out.

### TradingStop

A trailing exit on a one-way account. `stop` is the attach whose values the position carries, a row is one
attach; `own` is its state, `born` and `shut` the executions before it was written and released. `execs` records
what a fired stop executed and which part of it was the run's (`run`, beside `foreign`). `Attach`,
`HandOver` and `Release` are the ownership transactions, `Reread` and the retry the handling of an answer that did
not come, `Clear` the cancel, `Handle` the attribution of an execution (`_attribute_venue_bracket_execution`) with
its claims, `Restart` the adoption. The module assumes that the engine withdraws an exit whose entry closed, that
the plugin releases no row after its stop fired unless it is told to, that a late write lands before a later one
is answered; what the ledger takes from the part of an execution that is refused is not modelled. `Beyond` opens
seven cases the code does not survive (section 4); the run has only `"early"`, which takes three exits to do harm.

### SpotInventory

Executions are numbered by time; `listed` are those the history shows, `ledger` those booked, `folded` the
compacted ones, `told` counts how often the engine took one into its position. A pass (`StartPass`,
`NextWindow`, `Page`, `Drained` or `Undrained`, `Settle`) is one read of the drain per action; `StartFetch`, `Seed` and
`Adopt` are the startup. `Push` is the whole handler with the flat sweep. The manager of the ledger is core: it
books rows before it moves the cursor, returns what it newly booked, and an inconclusive startup read fails and
is retried. The run trades rounds of a buy in two halves and a sell that leaves a residue between the
quantity grid and the least quantity that can be sold. Other parties' executions are not modelled, nor is the price
moving the dust bound.

### ForeignStops

`hist` is the venue's log and its clock: an index stands for an execution's seq and for every timestamp. `vers`
are the versions of one partial TP/SL order of another party; `bot` is what the process knows (`known`
executions, newest `view`, ledger `cursor`, the share's `start`, the waiting order `pend`), `audit` the
audit events. `Observe` is reached from the order push and the open-orders read, `Judge` from every execution,
view and lapse of time. The ledger is taken as `HedgeLeg` shows it to be: exact at its cursor, or above the true
share by at most its doubt. Executions are delivered in log order, and within the grace; no read outlasts it. A
restart is one step. One buy leg, one order: orders are judged independently, and legs too.

## 3 The runs

| Run | Instance | Shows |
| --- | --- | --- |
| `feed` | `KlineFeed`, 5 bars, pages of 2, wire of 2, 3 faults | `CursorBacked`, `StaysFresh`, refinement of `BarStream`, and every closed bar is taken in the end |
| `hedge_leg` | `HedgeLeg`, 3 transactions of up to 2 units, leg of 2, one give-up, one outage, foreign stamps, late starts, lists of 2 views, 1 credit, 1 gap | share within bounds, proven part held, no false report, exact without give-ups, nothing netted twice |
| `fills` | `FillDelivery`, 1 order of 2 units, overlap 1, 2 passes, clock 3, 1 crash, 1 drop | a fill is owned at most once and the cursor agrees |
| `fills_live` | the same with 1 unit, fair | every execution of a confirmed order is owned in the end |
| `dispatch` | `Dispatch`, 3 ids, 4 requests, 1 crash, fair | one order, what is placed is real, a rejected row stands for nothing, a park ends |
| `dispatch_partial` | 2 ids, 3 requests, partial cancels | violation of `OneOrder` |
| `rows` | `EntryRows`, 1 entry of 2 units, working or market, 3 executions, a lost push, a restart | no exposure dropped, no row cut short, cursor comparable with `cumExecQty` |
| `rows_live` | 1 working entry, 2 executions, a lost push, fair | a row settles and is retired |
| `bracket` | `ExitBracket`, 3 generations, legs of 2, 3 faults, 2 changes, fair | nothing rests untraced, a spent bracket leaves no sibling, a returned one is whole, cancels are answered truly, an escalation ends flat |
| `trading_stop` | `TradingStop`, 2 exits, 2 attaches each, 2 executions, 2 faults, 1 crash | one owner per exit, the journal ends at the run's part, no exit is counted on without a stop |
| `spot` | `SpotInventory`, 3 executions, 2 windows of 2 pages of 1 row, 1 fault, 1 crash, fair | each execution is told once and in the end, none is behind the cursor, rows end |
| `foreign_stops` | `ForeignStops`, 4 happenings, an order and one amend, leg of 2, 1 fault | no false and no missed report, older orders are older, each version judged once |

The type invariants of `KlineFeed` and `Dispatch` are in the runs and proved. Those of the other modules were
checked once on the same instances; they are no properties of a run, since they say less than the
properties that are.

**Deadlock** is not checked: the clocks, faults, transactions, requests and executions are bounded, so every
model comes to rest at its bounds. That nothing waits for ever is said by the liveness properties.

**Bounds, and why they are enough to meet the interesting cases.** `feed`: five bars with one warmup bar give
two full pages of two and a remainder; three faults are a drop, a refused connect or failed page, and a drop of
the new connection. `hedge_leg`: three transactions of one or two units can overtake each other, be given up and
land late, with growth and reduction by either party; the lists are so short that trimming views, dropping
credits and merging gaps happen (the code's caps are 64, 8 and 16). The list of executions keeps its cap of 512:
with room for two only, an execution is dropped and `ExactAtCursor` and `NotNettedTwice` fail, `ProvenPartHeld`
and `NoFalseReport` hold (`HedgeLegLimits.cfg`). `HedgeLegWide.cfg` has four transactions, of one unit, under
the code's caps; all five hold. `fills`: two units make partial fills, two passes a retried adoption, clock 3
with overlap 1 an execution that leaves the window before it is listed. One crash: with `MaxCrashes = 2`
`CursorMatchesOwners` fails, as a consequence of the double count of pending rows (section 4; the cursor of a
row that stayed pending over the first restart counts its executions again); `RowFillsOwnedOnce` does not depend
on it and is proved for any number of crashes. `dispatch`: three ids are the prior instance's, a spent one and a
fresh one; the clock allows grace and two misses after the last request. `rows`: two units and three executions
make partial fill, reduction and a further fill, before or after a cancel; the row is closed, cut and re-read in
every order with these. In `fills` orders do not interact. Two orders on one leg of `rows` do, through the
netting and the flat sweep: `EntryRowsPair.cfg` has an entry, its reduction and the next entry; with `MaxLost =
0` `OwnedCoversHeld` passes (1.9 million states), with a lost push it fails (section 4), and section 5 proves it
for any number of rows without that cause. `bracket`: three generations are the spent one, its successor and the
next trade's; three faults a lost answer, a failed rollback cancel and a failed readback; a leg of two fills in
part. `trading_stop`: two exits of a pyramid, each attached and modified once, with one foreign unit; a stop of
one exit fires while the other's is being attached; three executions with one fault, and one exit with three,
were checked too. `spot`: three executions are a round, and one more than a pass of two one-row pages can take;
an overlap of one with a lag of one makes rows listed after their window was read; five executions without a
second window were checked too. `foreign_stops`: four happenings are the order, its amend, an own and a foreign
execution, in any order.

**Fairness.** `feed`: the event loop handles frames and runs the runner's next step (weak), and the venue's
clock ticks (strong, since a full wire disables it); nothing is promised of the network beyond the bound on
faults, which says that faults stop. `fills_live`: the process is restarted, handles its frames and passes
through its loop (weak); the REST reads of backfill, per-order recovery and adoption succeed at some time when
they are tried again and again, for the passes repeat at the reconcile cadence (strong); the list indexes each
execution (weak). Nothing is assumed of the stream: it need not be opened again. `dispatch`: requests end and
orders are shown (weak), a lookup repeated every pass gets through (strong), a fill reaches the process.
`rows_live`: the loop handles its pushes and keeps passing (weak), each read of the pass and the confirmation
reads succeed at some time (strong). A market row's last remainder needs a push or the lookup; see section 4.
`bracket`: the venue carries out an accepted cancel, the engine sends the defensive close and cancels what is
enumerated to it (all weak). `spot`: the clock goes on, the history shows what was executed, and the coroutine
takes its next step (weak); its reads do not fail for ever, as faults are bounded. Nothing is assumed of the
pushes. `ForeignStops` and `TradingStop` state safety only: that every waiting order is judged in the end was
tried, and is beyond TLC's tableau at an instance in which it means something.

## 4 Disagreements between code and text

One has a run that must find the violation; `PROJECT.json` quotes the lines.

1. `dispatch_partial`: the original of a duplicate reject counts as spent by its status alone
   (`execution.py:278`), though it filled in part before it was cancelled.

Others have a configuration beside the modules, with which TLC finds the violation:

* `KlineFeedDrop.cfg`, `BarsInSequence`: the sentinel of a socket that dies inside `on_reconnect` precedes the
  backfilled bars. The cursor is past them when the queue is thrown away; they never reach the core
  (`live_provider.py:268` against 168-173). With `PushInClose` in place of `DropInReconnect`:
  a confirm frame handled during the close handshake of a failed `on_reconnect` moves the rewound cursor.
* `FillDeliveryPending.cfg`, `OneOwner`: the adoption baseline skips rows that are still pending
  (`positions.py:620`); their executions are in the adopted size and are emitted once more, against
  `events.py:366-371`, "each fill ends up with exactly one owner".
* `EntryRowsHedge.cfg`, `OwnedCoversHeld`: on a hedge account flatness is the signed sum of the journal rows of
  both legs (`positions.py:283`): an unbooked close on one leg and a new entry on the other sum to zero, and the
  sweep of `events.py:1189-1191`, said to fire "only on a genuine flat", closes both rows.
* `EntryRowsPair.cfg`, `OwnedCoversHeld`: the confirmation of a vanished settled position
  (`reconcile.py:585-606`) ends its rows on a flat position although the execution that made it flat is not
  booked: its push was lost, and the list does not show it yet or was not read. Booked at last, it is netted off the oldest
  row that is left (`events.py:1198`), which is the next entry's, against "netting every reducing fill keeps the rows
  truthful in all modes" (1211-1213). The reduction has to stay unbooked over the grace of the tracker.
  With `BlindClose = FALSE` the property holds; section 5 proves it.
* `ExitBracketMoving.cfg`, `ConfirmedResidual`: `_rollback_readback` tests the executed quantity before the
  status (`execution.py:2133`), so a leg that is partly filled and still alive gets a verdict; the close is sized by
  a figure that still grows, against "the confirmed residual" of 2082-2084.
* `SpotInventorySeed.cfg`, `ToldOnce`: an execution of an unanswered dispatch that is listed between startup's
  read of the history and recovery's seed is booked by the next pass, and its event is dropped as seen
  (`events.py:1712`); the engine learns of it only at the next startup.

Others again are reproduced by changing a configuration:

* `FormingIsNewer` as an invariant of `KlineFeed.cfg`: a forming snapshot taken before the startup
  query closes its bar is emitted after the backfill handed that bar over as closed (`live_provider.py:341`,
  against the comments at 368-372 and 411-413). `StaysFresh` therefore starts after the startup query.
* `OwnInOrder = FALSE` in `HedgeLegWide.cfg` violates `ExactAtCursor` and `NoFalseReport`: an own reduce booked before the own
  entry it reduces nets nothing (`events.py:1198`), and the entry then stands in full.
* `MaxExpiries = 2` in `HedgeLegWide.cfg` violates `ProvenPartHeld`: a late own entry of an earlier
  given-up interval falsifies the start share of a later one (`ledger.py:694` against 79-85).
  `_add_doubt` also returns before `_cap_doubt` when a clamp leaves no share (`ledger.py:781`), so an
  older doubt stands until the next cap.
* `Kinds = {"position"}` in `EntryRowsLive.cfg` violates `RowSettles`: a market entry that was filled in
  part, then cancelled, and whose terminal push is lost, is looked up for its fills only
  (`reconcile.py:472`) and keeps its remainder until a restart.
* `SlowCancel = TRUE` in `ExitBracket.cfg` violates `PlacedIsWhole`: a leg recreated under its pinned id while
  its accepted cancel is still to come adopts the dying order (`_SPENT_COID_SKEW_MS`).
* `Beyond` in `TradingStop.cfg`: `"crash"` (rows are released while a fired stop is undelivered, then the process
  stops: the adoption finds no owner), `"refusal"` (a restored row that was superseded is reopened),
  `"pieces"` (a stop shared by two exits that fills in pieces is refused from the second piece on, `events.py:714-717`),
  `"cancel"` (cancelling one exit of a pyramid wipes the attribute the other relies on),
  `"later"` (active rows written after the execution count as its candidates, `events.py:661` against 650-660),
  `"entry"` (an entry booked between a stop that closed foreign exposure and its delivery lends it its share),
  `"early"` (with three exits and three executions: an entry booked between any stop and its delivery; a stop attached for
  an exit whose entry the undelivered one has closed fires as well, and is refused as a partial of the
  total that the older rows add up to, `events.py:803-816`, so the journal keeps what the run no longer holds).
* `Beyond` in `SpotInventory.cfg`: `"clock"` with `Ahead = 1` violates `NothingSkipped` (the window ends at the local
  clock, which `inventory.py:183-184` calls the venue's; ahead of it by more than the overlap leaves, the cursor
  passes executions), `"early"` violates `ToldOnce` (there is no adoption gate on spot, `events.py:355-370`: a push
  handled before the engine adopts the ledger is told and adopted).
* `Beyond` in `ForeignStops.cfg`: `"early amend"` (an order amended before its verdict keeps its first-seen time,
  `protection.py:851-852`, and is judged by evidence older than the amend, against 1014-1018) violates
  `NoFalseReport`, `NoMissedReport` and `PreexistingIsOlder`; `"slow"` (reads and pushes more than one change apart)
  violates `JudgedOnce`.

## 5 The proofs

All theorems hold for every value of the constants within the named `ASSUME`s of the modules.

**`KlineFeedProofs`**: `TypeCorrect` (`Spec => []TypeOK`) and `FormingStaysFresh`
(`Spec => StaysFresh`); both need nothing but the assumption on the constants. For freshness the argument is
the order inside `_enqueue_closed`, the only place that moves the cursor after startup.

Its second part, under `~DropInReconnect /\ ~PushInClose`: `DeliveryInvariant`
(`Spec => []DeliveryInv`), from it `CursorIsBacked`, `BarsComeInSequence` and `FeedImplementsBarStream`
(the safety part of the refinement; the runs check it with fairness). None of the three is inductive:
that the queue's next bar is the core's next bar depends on what the queue, the wire and the held bars
contain behind it. `DeliveryInv` says so, part by part: `PhaseInv` (what each phase implies for socket, hold
and cursors), `ClosedInv` (all that is closed is older than `now`), `GapInv` (where the page walks stand),
`QueueInv` (the queue starts in reach of the core, has no hole, holds every bar up to the cursor, and the
sentinel is last), `WireInv` (the same for the frames on their way). There is a lemma per action, and
lemmas about queues that are appended to or shortened.

**`FillDeliveryProofs`**: `FillInvariant` and `FillsOwnedOnce` (`Spec => []RowFillsOwnedOnce`), for any
number of orders, sizes, passes, drops and crashes. The inductive invariant `FillInv` has four parts: `Shape` (types),
`Lifecycle` (replies are awaited only behind the committed baseline, a pass runs only before it, an order not
placed has no executions), `WalkInv` (unless a walk lagged, the ids of a pass hold everything its
walked orders executed up to the snapshot: the listed ids are a subset of a finite set and no fewer, so they
are that set), `OwnInv` (what the engine owns of a row that is confirmed, or whose reply is awaited, it owns
once and its id is in the frontier). At the commit, `Stable` says nothing was executed after the snapshot,
hence the adopted ids are all of them; rows that stay pending are excluded from the statement, which is
what `FillDeliveryPending.cfg` is about. `FillInv` was checked with TLC before it was proved.

The same module proves `CursorMatchesOwners` twice: `CursorAgrees` for `MaxCrashes <= 1`, the hypothesis the
runs have, and `CursorAgreesUnlessPending` for any number of crashes of which none leaves a dispatch unanswered
(`NonePendingDown`); with two crashes and an unanswered dispatch it fails (section 3). The invariant `AgreeInv`
adds to `FillInv` that behind the baseline the cursor of a row that is confirmed, or about to be, counts what
the engine owns, that without a baseline it has not passed `cumExecQty`, and that every row is confirmed or
about to be unless no crash is left. The commit then finds in a stable pass that walked and executed are the
same set. `IdsSuffice` counts: an execution is told by its order and its rank in it.

**`DispatchProofs`**: `DispatchTypeCorrect` (`Spec => []TypeOK`) and, under `~PartialCancel /\
MissesToReject >= 2`, `DispatchInvariant`, from it `NeverTwoOrders`, `PlacedOrderIsReal` and
`RejectedStandsForNothing` (`Spec => []` of `OneOrder`, `PlacedIsReal`, `RejectedIsGone`), for any number of
ids, requests and crashes. Both assumptions are needed: without the first `OneOrder` fails (finding 1), and
with one miss a create still on its way is given up (the mutant `FirstMiss`). The code's limit is three. The
inductive invariant (`Core`) says that only the newest id can have an open row, a request that can still
land or an order that stands; all others are `Gone`. The work is in the steps at which the engine
goes on to another id or drops the envelope: each must find the last one `Gone`. `OrderInv` does it for the
spent original (an order that stands is not older than its row, a prior instance's always is) and for the
orphan passes, `PostInv` for the reject reply, `MissInv` for the streak: as long as an order can
still land or is not shown, a row has one miss at most, and that in the present interval. `Core` was checked with
TLC, with two crashes, before it was proved. What the proof takes over from the model is that a create
lands or is lost, and its order shows, within one interval, and that a restart waits for the same.

**`EntryRowsProofs`**: `CursorInvariant`, from it `RowsTyped`, `CursorIsBooked` and `RoomIsKept` (`Spec => []`
of `TypeOK`, `CursorMatches`, `RoomForOwed`), for any number of entries on either side, kinds, units,
executions, lost pushes and restarts, and both values of `Hedge` and `BlindClose`. Neither property is
inductive: what a retirement leaves of a row depends on what the venue executed of it before and may still
execute. `CursorInv` says that of each row (`RowOk`): an open one counts the booked executions of its order
(cursor plus netted), and its quantity and what was netted off cover `cumExecQty`, the whole order while that is
live; a closed one is of an order that has ended, with every execution booked. Of what steps leave for later
ones it needs only that a terminal push is of an order that ended (`EndInv`); the other parts are types. The
code books and nets a list of executions in one step, which the module writes as folds. A lemma turns each fold
into a function that goes step by step (`BookFold`, `ReduceFold`), from the definition of `FoldLeft` and an
induction over a set of numbers; everything after it is about one execution, or one unit, and one row.

`ExposureIsOwned` (`Spec => []OwnedCoversHeld`) has two hypotheses. `Selling = {}`: with entries on both sides
of a hedge account flatness is judged by the sum of both legs, and `EntryRowsHedge.cfg` shows what that loses.
`BlindClose` only with one row: with two the sequence of `EntryRowsPair.cfg` violates the property; with one
there is no next entry for the late reduction to be netted off. `HoldInv` says that the opening executions
booked are at most the units the open rows own and the reductions booked (`Covers`), or that all orders have
ended and the position is flat (`Over`), and that what is booked is no newer than the last own fill or the view
(`SeenEarly`), without which the flat sweep would act on a view that misses a booked execution. The work is in
the sweep (a flat view that all known executions explain leaves nothing to own), in netting (each booked
reduction takes at most one unit) and in the restart, where the clamp takes only what exceeds the venue's
position.

**`ExitBracketProofs`**: `OrdersAreTraceable` (`Spec => []Traceable`) and `FreshBracketStandsAlone`
(`Spec => []FreshBracketAlone`), with both values of `SlowCancel`, for any size and number of generations,
changes and faults. The invariant `BracketInv` says where a create can still land (`VenueInv`: only while the
dispatch is parked, only under the current generation), that a leg is posted behind its row and that the row
of one that rests is opened again only after its cancel was accepted (`PostInv`), that the tp goes first, so that
what is rolled back is the tp (`CallInv`), and that what rests of the current generation was placed by the
running call or is to end (`AloneInv`). The step that matters is `Reanchor`: an order of the generation it
leaves was placed by the call, and then is dead without a fill, or its cancel was accepted. A step that closes a
row must show that its order neither rests without an accepted cancel nor may still land
(`NothingCreated`), which is where `_persist_leg_row` and the rollback's readback are used.

Three further theorems of the same module, each with an invariant of its own on top of `BracketInv`:
`DefensiveCloseSized` (`Spec => []DefensiveSize`; `SizeInv`: what an order of this envelope executed and what is
left of the position are at most the entry, and a close sized by an order that has ended keeps its size),
`ReturnedBracketIsWhole` (`Spec => []PlacedIsWhole`, under `~SlowCancel`, which is needed, section 4;
`LevelsInv`: what a call has placed, and what an amend is done with, carries the levels) and `DispositionIsTrue`
(`Spec => []CancelOutcomeSound`; `CancelInv`: a row that is still live although its order is of an earlier
envelope is of an order that has ended, so a filled order a cancel meets is of this bracket).

**`ForeignStopsProofs`**: `VersionsAreJudgedOnce` (`Spec => []JudgedOnce`) and `StopsTypeCorrect` under `"slow"
\notin Beyond`; under `Beyond = {}`, `StopsInvariant` and from it `ReportsAreTrue`, `PassedIsForeign` and
`PassedIsOlder` (`Spec => []` of `NoFalseReport`, `NoMissedReport`, `PreexistingIsOlder`), for every length of
the log, size of leg and order, and number of amends, restarts, outages and given-up intervals. A verdict is
about states of the log nobody can see any more, so the invariant speaks of both sides: `HistInv` (between two
states without an execution nothing has changed), `BotInv` (nothing was executed between what the process knows
and where its ledger stands beyond that), `VersInv`, `SeenInv` and `AmendInv` (a version that waits is the
newest, was not judged, and no read or push can bring back an older one), `WaitInv` (when the grace of a waiting
order is over, what had happened when it was seen is known, unless the stream is out), and `Sound`, the three
properties said of one entry of the record. The work is in `Judge`: evidence behind the ledger's cursor, at it,
and beyond it each has to be a state of the log not older than the terms.

**`ProtectionProofs`**, first part, on `TradingStop`: `ExitsAreOwned` (`Spec => []OneActiveOwner`) and
`StopTypeCorrect` (`Spec => []TypeOK`) for every `Beyond`: the ownership transactions alone show the first
(`OwnerInv`: a call that may still be refused remembers a row of its own exit that it replaced, or none was
there and no stop of that exit can be at the venue). `StopsAreSettled` (`Spec => []JournalSettles`) under
`Beyond \subseteq {"cancel"}`, `TrustedIsProtected` (`Spec => []NotSilentlyBare`) under `Beyond = {}`. The
journal's invariant is an equation: while the run holds something the journal is that and its part of all
executions not yet handled (`BookInv`, a sum over a set that grows when a stop executes and shrinks in any
order); when it holds nothing, the journal is at most that part, for an execution that closed foreign exposure
too takes from the journal what a later one is owed. It is kept because an execution that is owed is attributed
(`CoverInv`: rows live at it are on record, and a shared stop executed for all of them), which in turn needs
that no row is written while a stop fills (`FiringInv`). At a restart the unbooked executions are exactly those
owed, or none. `TrustInv` follows the engine's exits. `BookInv` was found by TLC: an equation without the case
distinction does not hold, and with three exits TLC found `"early"` (section 4). Sums over a finite set are a
fold of the community modules; `EveryNat` proves induction over the naturals for a *set* of numbers from the
least counterexample, which needs no operator parameter, and the sum lemmas rest on it.

Second part, on `LegLedger` and `HedgeLeg`: `ShareStaysInBounds` (`LegSpec => []ShareWithinBounds`), without a
hypothesis: for every capacity of the lists, any number of transactions of any size, given-up intervals and
outages, own executions out of order and late starts included. Neither bound is inductive. An own execution that
comes behind the cursor adds to the share without a view that shows the leg had room for it; what the code has
to go by is the `room` it noted at every step walked (`ledger.py:800`). The invariant (`RecordInv`) therefore
says of a started ledger (`BoundsOk`) that the share is within leg and journal and that the room for the run's
own side is at most what the leg holds beyond the share; of a ledger that has not started it says nothing but
its types. During a walk the leg's bound does not hold: an unproven walk applies executions without looking at
the leg. What it keeps is the journal's bound (`Within`), the lists and the room (`Passed`, one lemma for each
kind of execution), and the cap at its end, or the clamp of a give-up, restores the rest (`Judgement`). The
longest lemma is `LateOwnKeeps`, on `late_own` (`ledger.py:457`): with the signs of the old, the wanted and the
kept share told apart, its figures are arithmetic (`LateFigures`). The other half of the invariant keeps records
apart: no execution still to come is in the ledger, so a batch sorted by its seqs is one list (`DueIsListed`,
`BatchIsListed`), and each function over a list goes step by step (`WalkStepwise` and its like). Gaps that
merge, credits dropped and views trimmed need only their types here, because a rewalk of a gap takes back doubt
and never share.

Third part, the verdicts against the true history: `ExactUntilGivenUp` (`LegSpec => []ExactAtCursor`), for every
history of the leg, any number of transactions of any size, outages, views lost, late or repeated, and
executions in any batches. Its three hypotheses are each needed; TLC refutes the property without any one of
them:

* `OwnInOrder`: an own reduce booked before the entry it reduces nets nothing (section 4);
* `MaxMissing <= 1`: two missing executions that cancel out leave a sum that fits (`ledger.py:34-38`);
* `MaxSeq <= MaxEvents`: no execution is dropped for want of room, of 512 in the code.

Give-ups need no hypothesis: the property is about `expiries = 0`, and the invariant (`ExactInv`) says nothing
once an interval was given up. The shape of the argument:

1. The history is consistent (`HistoryInv`): each transaction is an execution whose step is known (`StepTrue`)
   or leaves leg, share and `updatedTime` as they were.
2. The ledger is `Exact` for the executions `P` it still misses: at its cursor leg and share are the true ones,
   nothing is in doubt, and its executions together with `P` are all there is beyond the cursor (`Whole`). Which
   part is missing does not matter, so no case distinction over subsets of executions is needed.
3. A view that fits by its sum, below an execution already known, misses none of `P` (`NothingMissing`): the
   missing executions it could hide are overtaken ones, there is at most one (`Overtook`), and one execution
   alone changes the sum.
4. With nothing missing, the walk takes the true steps one by one (`Walked`, `WalkExact`), and its
   reports are exactly what those steps took (`Lost`, `Fair`); rounds of judgement compose (`FairOn`), and netting takes the rows down to share and own executions beyond
   (`NettedExact`). The own executions held never take more than the share (`OwnHeld`), so rows and share
   need no cut at zero.
5. A batch enters execution by execution (`BatchExact`), a view adds what was true at its seq (`ViewExact`), and
   the venue appends beyond all of it (`LedgerStays`).
6. A ledger that starts late never becomes one of the baseline (`Off`): no view it keeps, hence no anchor, has
   the baseline's seq.

The invariant was checked with TLC before it was proved.

**`SpotInventoryProofs`**: `CursorPassesNothing` (`Spec => []NothingSkipped`, under `"clock" \notin Beyond`,
that is, for an overlap not less than the history's lag and the local clock's lead together) and
`EveryExecutionToldOnce` (`Spec => []ToldOnce`, under `Beyond = {}`), for every window, page size, page cap, and
any number of executions, faults and crashes. The invariant of the first, `CursorInv`, says of the window being
drained (`WindowInv`) that it starts where the ledger is complete, and that what lies in it, and before the
overlap of the next one, is shown, and either collected or on a page to come. What is not shown when a window
begins happened within the lag (`Appears`), hence within the overlap of the window's end; a page takes the
newest rows left, so none that is newer than its last is missing. A row that appears behind the page being read
is thus never one the cursor passes. The second adds `TellInv`: what the process has seen is booked, what the
running pass booked it has not seen (`SeenInv`), and when the recovery seeds the frontier of an unanswered
dispatch, all the history shows is booked (`StartupInv`, which needs the first invariant for what lies before
the last window). The three assumptions are needed: each is one of the configurations of section 4. Both
invariants were checked with TLC first.

## 6 What is only model-checked, and what is not modelled

Only model-checked: three of the five properties of `HedgeLeg` (`ProvenPartHeld`, `NoFalseReport`,
`NotNettedTwice`). They compare the ledger with the true history after give-ups too, so that an invariant needs
how far the doubt of each gap accounts for what is missing from its interval; `OwnedCoversHeld` of
`EntryRows` for several entries with `BlindClose`, where it holds as long as no push is lost (two entries were
checked); all liveness properties (liveness under fairness is beyond the prover). `Dispatch` with partial
cancels violates what is proved without them (finding 1). `TradingStop` and `ForeignStops` are proved for the
cases of `Beyond` that section 5 names; where they fail beyond those, TLC shows it.

Not modelled:

* the rows of exit and close legs (a cancel push closes them at once, `events.py:1322`), the close of a
  position and cancel-all, the sizing of spot and inverse orders;
* the one-way leg of the ledger (signed shares, entry credits, journal netting);
* the guard of the run's own protection levels: the plugin feeds an object of the core
  (`ProtectionLevelGuard`), and what it decides is not in this repository;
* the hedge port (`positions.py:1138-1407`), the detection of the position mode and the inverse conversion;
* acknowledgements and pings of the WS client; the REST client and the historical provider (stateless requests and
  conversions); precision, formatting and configuration;
* `broker_lab/suite.py`: scenarios that a harness of the core plays against the plugin. They are tests of the
  code the modules describe, and have no behaviour of the system.

`PROJECT.json` has the status of each component.

## 7 Plan

In this order, the most important behaviour first; what is built is described above.

1. `BarStream`, `KlineFeed` and their proofs: built.
2. `LegLedger`, `HedgeLeg`, and in `ProtectionProofs` the bounds of the share and its exactness until a give-up: built. To
   come: `ProvenPartHeld` for every instance, from what the doubt of each gap covers.
3. `FillDelivery` and `FillDeliveryProofs`: built.
4. `Dispatch` and `DispatchProofs`: built. To come: cancels of an intent in the same module.
5. `EntryRows` and `EntryRowsProofs`: built. To come: the rows of exit and close legs.
6. The one-way leg of the ledger: signed shares, entry credits, journal netting, the sweep's wait for the ledger.
7. `ExitBracket` and `ExitBracketProofs`: built. To come: closes (`execution.py:1850-1936`), recovery of exit rows.
8. `TradingStop`, `ForeignStops` and their proofs: built.
9. `SpotInventory` and `SpotInventoryProofs`: built.
10. `WsClient` (acknowledgements, close), the hedge port, and inverse arithmetic
    (`positions.py:1042-1134`) against a reference definition.
