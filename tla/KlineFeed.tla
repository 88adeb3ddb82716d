------------------------------ MODULE KlineFeed ------------------------------
(***************************************************************************)
(* The public kline stream of the live provider (live_provider.py): the    *)
(* closed-bar cursor, the update queue, the forming-bar slot and the       *)
(* REST backfill that closes the gap of a dropped connection.  One event   *)
(* loop interleaves, at every await, the receive loop of the socket, the   *)
(* staleness watchdog and the runner's reconnect cycle                     *)
(* (disconnect, connect, on_reconnect, then watch_ohlcv again).            *)
(*                                                                         *)
(* A bar is named by its position on the timeframe grid: bar b opens at    *)
(* slot b, and it is closed once the venue clock, now, is past it.         *)
(***************************************************************************)
EXTENDS Integers, Sequences, FiniteSets

CONSTANTS
    Warm,            \* newest closed bar of the warmup history
    MaxBar,          \* bound: the venue clock stops in this bar
    KlineLimit,      \* KLINE_LIMIT, bars per kline request
    MaxWire,         \* bound: frames in flight on the socket
    MaxFaults,       \* bound: socket deaths, refused connects, failed pages
    DropInReconnect, \* may the socket die before on_reconnect has returned?
    PushInClose      \* are frames still delivered during the close handshake?

ASSUME FeedAssumption ==
    /\ Warm \in Nat \ {0}
    /\ MaxBar \in Nat /\ MaxBar > Warm
    /\ KlineLimit \in Nat \ {0}
    /\ MaxWire \in Nat /\ MaxFaults \in Nat
    /\ DropInReconnect \in BOOLEAN /\ PushInClose \in BOOLEAN

\* Python's None: an unset cursor, an empty slot, and the closure sentinel
\* _on_ws_closed puts into the queue.
None == 0

Bars == 1 .. MaxBar
MaybeBar == Bars \union {None}
Frames == [bar : Bars, confirm : BOOLEAN]
Phases == {"startup", "startupGap", "live", "down", "disconnected",
           "connected", "backfill", "failClose"}

VARIABLES
    now,         \* the forming bar of the venue
    sock,        \* _public_ws: "none", "open", "dead" or "closing"
    wire,        \* frames of the current socket not yet received
    lastClosed,  \* _last_closed_bar_ts
    streamBar,   \* _stream_bar_ts
    holding,     \* _pending_closed is a list
    held,        \* ... and its bars
    queue,       \* _update_queue
    snapshot,    \* _latest_snapshot
    phase,       \* where the runner's coroutine is
    gap,         \* locals of the backfill coroutine
    splice,      \* bars backfill_closed_bars handed to the framework
    confirmed,   \* newest closed bar the core has taken
    faults       \* faults so far

vars == <<now, sock, wire, lastClosed, streamBar, holding, held, queue,
          snapshot, phase, gap, splice, confirmed, faults>>
feed == <<lastClosed, queue, snapshot>>

NoGap == [cursor |-> 0, until |-> 0, resume |-> None]

Init ==
    /\ now \in Warm + 1 .. MaxBar
    /\ sock = "open"                 \* connect() with both cursors unset
    /\ wire = <<>>
    /\ lastClosed = None
    /\ streamBar = None
    /\ holding = FALSE
    /\ held = {}
    /\ queue = <<>>
    /\ snapshot = None
    /\ phase = "startup"
    /\ gap = NoGap
    /\ splice = <<>>
    /\ confirmed = Warm
    /\ faults = 0

-----------------------------------------------------------------------------
(***************************************************************************)
(* Helpers of the plugin                                                   *)
(***************************************************************************)

\* The orderings sorted(..., key=timestamp) can return for a set of bars.
Ascending(S) ==
    {run \in [1 .. Cardinality(S) -> S] :
        /\ \A i, j \in 1 .. Cardinality(S) : i < j => run[i] < run[j]
        /\ \A b \in S : \E i \in 1 .. Cardinality(S) : run[i] = b}

\* Mutant: a close leaves the undrained snapshot alone.
EnqueueClosedKeepsSnapshot(S) ==
    \E run \in Ascending(S) :
        /\ queue' = queue \o run
        /\ lastClosed' = IF S = {} THEN lastClosed ELSE run[Cardinality(S)]
        /\ snapshot' = snapshot

\* _enqueue_closed for every bar of S, oldest first.
EnqueueClosed(S) ==
    \E run \in Ascending(S) :
        /\ queue' = queue \o run
        /\ lastClosed' = IF S = {} THEN lastClosed ELSE run[Cardinality(S)]
        /\ snapshot' = IF S # {} /\ snapshot <= run[Cardinality(S)]
                       THEN None ELSE snapshot

\* _advance_closed_cursor
Advanced(bar) == IF lastClosed < bar THEN bar ELSE lastClosed

\* The closed bars of one kline request: the window of at most KlineLimit
\* bars from the cursor on, without bars at or before `after` and without
\* bars still forming when the backfill read the clock.
ChunkEnd == IF gap.cursor + KlineLimit - 1 < gap.until
            THEN gap.cursor + KlineLimit - 1 ELSE gap.until
Page(after) == {b \in gap.cursor .. ChunkEnd : b > after /\ b < gap.until}

\* Where the walk continues: behind the newest bar written, else behind the
\* window.
NextCursor(page) ==
    IF page # {} /\ ChunkEnd = gap.until THEN gap.until ELSE ChunkEnd + 1

-----------------------------------------------------------------------------
(***************************************************************************)
(* Venue and transport                                                     *)
(***************************************************************************)

Subscribed == sock = "open" \/ (sock = "closing" /\ PushInClose)

\* A bar closes; a subscribed socket gets its confirm frame.
Tick ==
    /\ now < MaxBar
    /\ Subscribed => Len(wire) < MaxWire
    /\ now' = now + 1
    /\ wire' = IF Subscribed
               THEN Append(wire, [bar |-> now, confirm |-> TRUE]) ELSE wire
    /\ UNCHANGED <<sock, lastClosed, streamBar, holding, held, queue, snapshot,
                   phase, gap, splice, confirmed, faults>>

\* An intra-bar refinement, or the venue re-pushing a slot it already closed,
\* as a forming or as a confirm snapshot.
Push ==
    /\ sock = "open"
    /\ Len(wire) < MaxWire
    /\ \E f \in Frames :
          /\ f.bar <= now
          /\ f.confirm => f.bar < now
          /\ wire' = Append(wire, f)
    /\ UNCHANGED <<now, sock, lastClosed, streamBar, holding, held, queue,
                   snapshot, phase, gap, splice, confirmed, faults>>

\* The socket may die anywhere the configuration lets it.
MayDrop ==
    /\ faults < MaxFaults
    /\ sock = "open"
    /\ phase \in {"connected", "backfill"} => DropInReconnect

\* Mutant: the end of the receive loop queues no sentinel.
DieSilently ==
    /\ MayDrop
    /\ sock' = "dead"
    /\ wire' = <<>>
    /\ faults' = faults + 1
    /\ UNCHANGED <<now, lastClosed, streamBar, holding, held, queue, snapshot,
                   phase, gap, splice, confirmed>>

\* The receive loop ends and _on_ws_closed queues the sentinel.
Die ==
    /\ MayDrop
    /\ sock' = "dead"
    /\ wire' = <<>>
    /\ queue' = Append(queue, None)
    /\ faults' = faults + 1
    /\ UNCHANGED <<now, lastClosed, streamBar, holding, held, snapshot, phase,
                   gap, splice, confirmed>>

\* _feed_watchdog_loop: a half-open transport is dropped and closed.
WatchdogClose ==
    /\ MayDrop
    /\ sock' = "none"
    /\ wire' = <<>>
    /\ queue' = Append(queue, None)
    /\ faults' = faults + 1
    /\ UNCHANGED <<now, lastClosed, streamBar, holding, held, snapshot, phase,
                   gap, splice, confirmed>>

-----------------------------------------------------------------------------
(***************************************************************************)
(* Inbound dispatch: _on_ws_message                                        *)
(***************************************************************************)

\* A forming snapshot of a bar already closed refines nothing.
DropSettledForming(f) ==
    /\ ~f.confirm /\ f.bar <= lastClosed
    /\ UNCHANGED <<feed, streamBar, held>>

TakeForming(f) ==
    /\ ~f.confirm /\ f.bar > lastClosed
    /\ streamBar' = IF streamBar < f.bar THEN f.bar ELSE streamBar
    /\ snapshot' = f.bar
    /\ UNCHANGED <<lastClosed, queue, held>>

\* While the reconnect backfill is pending the close is held back; a close
\* already delivered is a duplicate.
TakeClosed(f) ==
    /\ f.confirm
    /\ streamBar' = IF streamBar < f.bar THEN f.bar ELSE streamBar
    /\ IF holding
       THEN held' = held \union {f.bar} /\ UNCHANGED feed
       ELSE /\ EnqueueClosed(IF f.bar > lastClosed THEN {f.bar} ELSE {})
            /\ UNCHANGED held

OnWsMessage ==
    /\ sock \in {"open", "closing"}
    /\ wire # <<>>
    /\ wire' = Tail(wire)
    /\ LET f == Head(wire)
       IN  DropSettledForming(f) \/ TakeForming(f) \/ TakeClosed(f)
    /\ UNCHANGED <<now, sock, holding, phase, gap, splice, confirmed, faults>>

-----------------------------------------------------------------------------
(***************************************************************************)
(* Startup gap: backfill_closed_bars                                       *)
(***************************************************************************)

StartupGap ==
    /\ phase = "startup"
    /\ lastClosed' = Advanced(Warm)
    /\ IF Warm + 1 >= now
       THEN phase' = "live" /\ gap' = NoGap
       ELSE /\ phase' = "startupGap"
            /\ gap' = [cursor |-> Warm + 1, until |-> now, resume |-> None]
    /\ UNCHANGED <<now, sock, wire, streamBar, holding, held, queue, snapshot,
                   splice, confirmed, faults>>

\* Mutant: the walk moves the cursor to the end of its last window.
StartupPageMovesToWindow ==
    /\ phase = "startupGap"
    /\ LET page == Page(Warm)
           next == NextCursor(page)
       IN  /\ \E run \in Ascending(page) : splice' = splice \o run
           /\ IF next < gap.until
              THEN /\ gap' = [gap EXCEPT !.cursor = next]
                   /\ UNCHANGED <<phase, lastClosed>>
              ELSE /\ gap' = NoGap
                   /\ phase' = "live"
                   /\ lastClosed' = Advanced(ChunkEnd + 1)
    /\ UNCHANGED <<now, sock, wire, streamBar, holding, held, queue, snapshot,
                   confirmed, faults>>

\* One request of the startup walk; the last one moves the cursor to the
\* newest bar handed over.
StartupPage ==
    /\ phase = "startupGap"
    /\ LET page == Page(Warm)
           next == NextCursor(page)
       IN  /\ \E run \in Ascending(page) : splice' = splice \o run
           /\ IF next < gap.until
              THEN /\ gap' = [gap EXCEPT !.cursor = next]
                   /\ UNCHANGED <<phase, lastClosed>>
              ELSE /\ gap' = NoGap
                   /\ phase' = "live"
                   /\ lastClosed' = Advanced(gap.until - 1)
    /\ UNCHANGED <<now, sock, wire, streamBar, holding, held, queue, snapshot,
                   confirmed, faults>>

-----------------------------------------------------------------------------
(***************************************************************************)
(* Reconnect: disconnect, connect, on_reconnect                            *)
(***************************************************************************)

Disconnect ==
    /\ phase = "down"
    /\ phase' = "disconnected"
    /\ sock' = "none"
    /\ wire' = <<>>
    /\ queue' = <<>>
    /\ snapshot' = None
    /\ holding' = FALSE
    /\ held' = {}
    /\ UNCHANGED <<now, lastClosed, streamBar, gap, splice, confirmed, faults>>

\* Mutant: a reconnect does not hold the fresh closes back.
ConnectLetsThrough ==
    /\ phase = "disconnected"
    /\ phase' = "connected"
    /\ sock' = "open"
    /\ holding' = FALSE
    /\ UNCHANGED <<now, wire, lastClosed, streamBar, held, queue, snapshot, gap,
                   splice, confirmed, faults>>

Connect ==
    /\ phase = "disconnected"
    /\ phase' = "connected"
    /\ sock' = "open"
    /\ holding' = (lastClosed # None \/ streamBar # None)
    /\ UNCHANGED <<now, wire, lastClosed, streamBar, held, queue, snapshot, gap,
                   splice, confirmed, faults>>

\* The handshake or the subscription fails: "Reconnect failed", next attempt.
ConnectFails ==
    /\ phase = "disconnected"
    /\ faults < MaxFaults
    /\ faults' = faults + 1
    /\ phase' = "down"
    /\ holding' = (lastClosed # None \/ streamBar # None)
    /\ UNCHANGED <<now, sock, wire, lastClosed, streamBar, held, queue, snapshot,
                   gap, splice, confirmed>>

\* The first bar the backfill asks for; None when there is nothing to resume
\* from.
ResumeCursor == IF lastClosed # None THEN lastClosed + 1 ELSE streamBar

\* on_reconnect up to its first await; without a closed bar to fetch it
\* releases the held bars at once.
OnReconnect ==
    /\ phase = "connected"
    /\ IF ResumeCursor # None /\ ResumeCursor < now
       THEN /\ phase' = "backfill"
            /\ gap' = [cursor |-> ResumeCursor, until |-> now,
                       resume |-> lastClosed]
            /\ UNCHANGED <<feed, holding, held>>
       ELSE /\ phase' = "live"
            /\ EnqueueClosed({b \in held : b > lastClosed})
            /\ holding' = FALSE
            /\ held' = {}
            /\ UNCHANGED gap
    /\ UNCHANGED <<now, sock, wire, streamBar, splice, confirmed, faults>>

\* One request of the gap walk.  The last one returns into on_reconnect,
\* which releases the held bars without another await.
BackfillPage ==
    /\ phase = "backfill"
    /\ LET page == Page(lastClosed)
           next == NextCursor(page)
           newest == IF page = {} THEN lastClosed ELSE next - 1
       IN  IF next < gap.until
           THEN /\ EnqueueClosed(page)
                /\ gap' = [gap EXCEPT !.cursor = next]
                /\ UNCHANGED <<phase, holding, held>>
           ELSE /\ EnqueueClosed(page \union {b \in held : b > newest})
                /\ gap' = NoGap
                /\ phase' = "live"
                /\ holding' = FALSE
                /\ held' = {}
    /\ UNCHANGED <<now, sock, wire, streamBar, splice, confirmed, faults>>

\* Mutant: a failed page leaves the cursor at the newest bar enqueued.
BackfillFailsKeepsCursor ==
    /\ phase = "backfill"
    /\ faults < MaxFaults
    /\ faults' = faults + 1
    /\ holding' = FALSE
    /\ held' = {}
    /\ gap' = NoGap
    /\ IF sock = "none"
       THEN phase' = "down" /\ UNCHANGED <<sock, wire>>
       ELSE /\ phase' = "failClose"
            /\ sock' = IF sock = "open" THEN "closing" ELSE sock
            /\ wire' = IF PushInClose THEN wire ELSE <<>>
    /\ UNCHANGED <<now, lastClosed, streamBar, queue, snapshot, splice,
                   confirmed>>

\* A page fails: the cursor is rewound to where the backfill started, the
\* held bars are dropped and the transport is closed.
BackfillFails ==
    /\ phase = "backfill"
    /\ faults < MaxFaults
    /\ faults' = faults + 1
    /\ lastClosed' = gap.resume
    /\ holding' = FALSE
    /\ held' = {}
    /\ gap' = NoGap
    /\ IF sock = "none"
       THEN phase' = "down" /\ UNCHANGED <<sock, wire>>
       ELSE /\ phase' = "failClose"
            /\ sock' = IF sock = "open" THEN "closing" ELSE sock
            /\ wire' = IF PushInClose THEN wire ELSE <<>>
    /\ UNCHANGED <<now, streamBar, queue, snapshot, splice, confirmed>>

\* The close handshake is over: the sentinel is queued and the error raised.
FailClosed ==
    /\ phase = "failClose"
    /\ phase' = "down"
    /\ sock' = "none"
    /\ wire' = <<>>
    /\ queue' = Append(queue, None)
    /\ UNCHANGED <<now, lastClosed, streamBar, holding, held, snapshot, gap,
                   splice, confirmed, faults>>

-----------------------------------------------------------------------------
(***************************************************************************)
(* The consumer: watch_ohlcv, and the core's monotonicity guard            *)
(***************************************************************************)

\* The core drops a closed bar that is not newer than the newest it has seen.
CoreTakes(bar) == confirmed' = IF bar > confirmed THEN bar ELSE confirmed

TakeSpliced ==
    /\ phase = "live"
    /\ splice # <<>>
    /\ CoreTakes(Head(splice))
    /\ splice' = Tail(splice)
    /\ UNCHANGED <<now, sock, wire, lastClosed, streamBar, holding, held, queue,
                   snapshot, phase, gap, faults>>

\* The sentinel raises ConnectionError: the runner starts its cycle.
WatchQueue ==
    /\ phase = "live"
    /\ splice = <<>>
    /\ queue # <<>>
    /\ queue' = Tail(queue)
    /\ IF Head(queue) = None
       THEN phase' = "down" /\ UNCHANGED confirmed
       ELSE CoreTakes(Head(queue)) /\ UNCHANGED phase
    /\ UNCHANGED <<now, sock, wire, lastClosed, streamBar, holding, held,
                   snapshot, gap, splice, faults>>

WatchSnapshot ==
    /\ phase = "live"
    /\ splice = <<>>
    /\ queue = <<>>
    /\ snapshot # None
    /\ snapshot' = None
    /\ UNCHANGED <<now, sock, wire, lastClosed, streamBar, holding, held, queue,
                   phase, gap, splice, confirmed, faults>>

-----------------------------------------------------------------------------
Startup == StartupGap \/ StartupPage
Reconnect == \/ Disconnect \/ Connect \/ ConnectFails \/ OnReconnect
             \/ BackfillPage \/ BackfillFails \/ FailClosed
Watch == TakeSpliced \/ WatchQueue \/ WatchSnapshot

Next == \/ Tick \/ Push \/ Die \/ WatchdogClose \/ OnWsMessage
        \/ Startup \/ Reconnect \/ Watch

Spec == Init /\ [][Next]_vars

\* The venue clock runs whatever the socket carries: Tick waits only for the
\* bound MaxWire, hence its strong fairness.
\* Faults are bounded, so each of the plugin's own steps that stays possible
\* is taken: coroutines on one event loop are scheduled in turn, the venue
\* clock runs, frames on an open socket arrive, and a connect or request that
\* is not failed by a fault succeeds.
Fairness ==
    /\ SF_vars(Tick)
    /\ WF_vars(OnWsMessage)
    /\ WF_vars(Startup)
    /\ WF_vars(Disconnect \/ Connect \/ OnReconnect \/ BackfillPage \/ FailClosed)
    /\ WF_vars(TakeSpliced \/ WatchQueue)

FairSpec == Spec /\ Fairness

-----------------------------------------------------------------------------
(***************************************************************************)
(* Properties                                                              *)
(***************************************************************************)

\* Types of the stream's state (attributes of _BybitBase and the coroutine
\* locals of live_provider.py).
TypeOK ==
    /\ now \in Bars
    /\ sock \in {"none", "open", "dead", "closing"}
    /\ wire \in Seq(Frames)
    /\ lastClosed \in MaybeBar
    /\ streamBar \in MaybeBar
    /\ holding \in BOOLEAN
    /\ held \in SUBSET Bars
    /\ queue \in Seq(MaybeBar)
    /\ snapshot \in MaybeBar
    /\ phase \in Phases
    /\ gap \in [cursor : 0 .. MaxBar, until : 0 .. MaxBar, resume : MaybeBar]
    /\ splice \in Seq(Bars)
    /\ confirmed \in Bars
    /\ faults \in 0 .. MaxFaults

\* The bars watch_ohlcv will return before it raises or blocks.
Readable ==
    {queue[i] : i \in {j \in DOMAIN queue : \A k \in 1 .. j : queue[k] # None}}

\* What the startup walk will still hand over: the closed bars it has not
\* fetched yet.
StartupOwed ==
    CASE phase = "startup"    -> Warm + 1 .. now - 1
      [] phase = "startupGap" -> gap.cursor .. gap.until - 1
      [] OTHER                -> {}

\* What the core still gets: in every phase in which the runner goes on to
\* read the queue, the splice and the readable part of the queue; after a
\* failed attempt disconnect() throws the queue away.
Reachable ==
    IF phase \in {"startup", "startupGap", "live", "connected", "backfill"}
    THEN Readable \union {splice[i] : i \in DOMAIN splice} \union StartupOwed
    ELSE {}

\* The cursor the next backfill resumes from never stands past a closed bar
\* the core does not have and will not be given: otherwise that bar is lost,
\* since the backfill starts behind the cursor.  In "backfill" a failure
\* rewinds the cursor, so only the rewound value matters once the queue is
\* gone (live_provider.py, on_reconnect, _release_pending_closed).
CursorBacked ==
    \A b \in Bars :
        (Warm < b /\ b <= lastClosed) => b <= confirmed \/ b \in Reachable

\* The forming bar watch_ohlcv could return next is newer than every closed
\* bar the core has taken: no intra-bar update under a closed bar's timestamp
\* (_enqueue_closed, _on_ws_message, backfill_closed_bars).
FormingIsNewer ==
    (phase = "live" /\ splice = <<>> /\ queue = <<>> /\ snapshot # None)
        => snapshot > confirmed

\* Once the startup query is over, a close never leaves an undrained snapshot
\* of its own bar, or of an older one, behind: whichever way the closed bar
\* comes (push, release of the held bars, reconnect backfill)
\* (_enqueue_closed).
Fresh == snapshot = None \/ snapshot > lastClosed
StaysFresh ==
    [][phase \notin {"startup", "startupGap"} /\ Fresh => Fresh']_vars

\* The core takes the closed bars one by one and none is skipped, whatever
\* drops, failed reconnects and re-pushed frames come in between.
BarsInSequence == [][confirmed' \in {confirmed, confirmed + 1}]_vars

\* The feed implements the stream of closed bars BarStream promises: every
\* step takes the next closed bar, closes one, or is invisible.
Stream == INSTANCE BarStream WITH closed <- now - 1, taken <- confirmed
ImplementsBarStream == Stream!Spec

\* ... and, once faults stop, every bar that closes is taken in the end.
DeliversEveryBar == Stream!FairSpec
-----------------------------------------------------------------------------
(***************************************************************************)
(* The invariant behind the order of the closed bars, for a socket that    *)
(* does not die inside on_reconnect (~DropInReconnect) and is silent while *)
(* it closes (~PushInClose): which bars each buffer holds in each phase.   *)
(***************************************************************************)

\* The phases whose closed bars end up with the core.
Listening == phase \in {"startupGap", "live", "backfill"}

\* The newest bar the core has or gets ahead of the queue.
Base == IF phase = "startupGap" THEN gap.until - 1
        ELSE confirmed + Len(splice)

\* Bars up to b need no frame of the socket any more.
Covered(b) ==
    \/ b <= lastClosed
    \/ phase \in {"startupGap", "backfill"} /\ b < gap.until
    \/ \E h \in held : b <= h

\* What each phase of the runner implies for the socket and the cursors.
PhaseInv ==
    /\ phase \in {"connected", "backfill"} => sock = "open" /\ holding
    /\ phase \in {"startup", "startupGap", "live"} => ~holding
    /\ phase \in {"down", "disconnected"} => sock # "open"
    /\ phase = "failClose" => sock = "closing"
    /\ ~holding => held = {}
    /\ sock # "open" => wire = <<>>
    /\ phase # "startup" => Warm <= lastClosed
    /\ phase \in {"down", "disconnected", "connected", "failClose"}
          => lastClosed <= confirmed
    /\ phase \in {"disconnected", "connected"} => queue = <<>>
    /\ phase \notin {"startupGap", "live"} => splice = <<>>
    /\ phase \in {"startup", "startupGap"} => confirmed = Warm

\* Everything closed is older than the bar the venue is forming.
ClosedInv ==
    /\ \A i \in DOMAIN wire : wire[i].confirm => wire[i].bar < now
    /\ \A h \in held : h < now
    /\ \A i \in DOMAIN queue : queue[i] < now
    /\ lastClosed < now
    /\ confirmed + Len(splice) < now
    /\ gap.until <= now

\* The walks of the two backfills.
GapInv ==
    /\ phase = "startupGap" =>
          /\ Warm < gap.cursor /\ gap.cursor < gap.until
          /\ Len(splice) = gap.cursor - Warm - 1
    /\ phase = "backfill" =>
          /\ gap.cursor = lastClosed + 1 /\ gap.cursor < gap.until
          /\ Warm <= gap.resume /\ gap.resume <= confirmed
          /\ \A h \in held, b \in Bars :
                gap.until <= b /\ b <= h => b \in held
    /\ \A i \in DOMAIN splice : splice[i] = confirmed + i

\* A queue q has no hole: the first close of a bar follows that of the bar
\* before, which is in q or already at base.
NoHole(q, base) ==
    \A i \in DOMAIN q :
        \/ q[i] <= base + 1
        \/ \E j \in 1 .. i - 1 : q[j] >= q[i] - 1

\* q holds every bar from base to the cursor c.
HoldsUpTo(q, base, c) ==
    \A b \in Bars : base < b /\ b <= c => \E i \in DOMAIN q : q[i] = b

\* The sentinel is the last thing in the queue of a connection.  The queue
\* starts within reach of the core, has no hole and holds every bar the
\* cursor has passed.
QueueInv ==
    /\ \A i \in DOMAIN queue :
          queue[i] = None => i = Len(queue) /\ sock \in {"none", "dead"}
    /\ Listening => NoHole(queue, Base) /\ HoldsUpTo(queue, Base, lastClosed)

\* Neither have the frames on their way: the first close of a bar never
\* overtakes that of the bar before.
WireInv ==
    Listening /\ sock = "open" =>
        /\ \A i \in DOMAIN wire : wire[i].confirm =>
              \/ Covered(wire[i].bar - 1)
              \/ \E j \in 1 .. i - 1 :
                    wire[j].confirm /\ wire[j].bar >= wire[i].bar - 1
        /\ \/ Covered(now - 1)
           \/ \E j \in DOMAIN wire : wire[j].confirm /\ wire[j].bar >= now - 1

DeliveryInv ==
    TypeOK /\ PhaseInv /\ ClosedInv /\ GapInv /\ QueueInv /\ WireInv

=============================================================================
