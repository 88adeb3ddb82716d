------------------------------ MODULE FillDelivery ------------------------------
(***************************************************************************)
(* Every execution of the run must move the engine's position exactly      *)
(* once, although three readers deliver it: the startup adoption folds the *)
(* executions behind a position snapshot into the adopted size, the        *)
(* private push stream emits each one it receives, and two REST recoveries *)
(* (the windowed backfill and the per-order read) re-read the venue's      *)
(* execution list for what the stream dropped.  Derivatives with a store.  *)
(*                                                                         *)
(* Two tasks run in the process: the adoption baseline (inside the         *)
(* engine's first position read) and the watch_orders loop.  They share    *)
(* the seen-id frontier, the parked frames and the journal rows.  The      *)
(* venue executes, indexes and pushes at any time.                         *)
(*                                                                         *)
(* An execution is one unit of an order; its id is its position in execs.  *)
(* The local and the venue clock are one clock; a window walk that the     *)
(* code splits at the endpoint's seven-day span is one read.               *)
(***************************************************************************)
EXTENDS Integers, Sequences, FiniteSets, SequencesExt

CONSTANTS
    Rows,        \* orders of the run, each with a journal row once dispatched
    Size,        \* units of one order
    Overlap,     \* EXECUTION_CURSOR_OVERLAP_MS in ticks
    Attempts,    \* _ADOPTION_STABLE_ATTEMPTS
    MaxTime,     \* bound of the clock
    MaxCrashes,  \* bound of the process crashes
    MaxDrops     \* bound of the stream drops

ASSUME FillDeliveryAssumption ==
    /\ IsFiniteSet(Rows)
    /\ Size \in Nat \ {0} /\ Overlap \in Nat \ {0} /\ Attempts \in Nat \ {0}
    /\ MaxTime \in Nat /\ MaxCrashes \in Nat /\ MaxDrops \in Nat

VARIABLES
    now,         \* the clock
    execs,       \* the venue's executions in order: [order, time]
    indexed,     \* the executions the venue's execution list returns
    rowState,    \* durable: state of an order's journal row
    filled,      \* durable: a row's filled_qty cursor
    pwm,         \* durable: persisted backfill watermark, 0 when none was written
    up,          \* the process runs
    pc,          \* where the watch_orders loop is
    open,        \* the private stream is open
    queue,       \* _private_events: pushed executions not handled yet
    parked,      \* _pre_adoption_frames
    seen,        \* _seen_exec_ids
    wm,          \* _deriv_exec_watermark, 0 for None
    floor,       \* _deriv_exec_floor_ms
    unbooked,    \* _unbooked_fill_orders: proven cumExecQty of a queued row, 0 when absent
    baselined,   \* _adoption_baselined
    adopt,       \* the adoption pass under way
    acks,        \* orders whose create reply this process still awaits
    owners,      \* how many times the engine's position includes an execution
    crashes, drops

venueVars == <<now, execs, indexed>>
rowVars   == <<rowState, filled, pwm>>
bookVars  == <<filled, seen, owners>>
loopVars  == <<pc, open, queue, parked, wm, unbooked>>
adoptVars == <<floor, baselined, adopt>>
procVars  == <<up, acks, crashes, drops>>
vars == <<venueVars, rowVars, loopVars, adoptVars, procVars, seen, owners>>

Ids == 1 .. Cardinality(Rows) * Size
NoAdoption == [phase |-> "idle", snap |-> 0, floor |-> 0, attempt |-> 0,
               ids |-> {}, walked |-> {}, lag |-> FALSE]

TypeOK ==
    /\ now \in 0 .. MaxTime
    /\ execs \in Seq([order : Rows, time : 0 .. MaxTime])
    /\ indexed \subseteq 1 .. Len(execs)
    /\ rowState \in [Rows -> {"none", "pending", "confirmed"}]
    /\ filled \in [Rows -> 0 .. Size]
    /\ pwm \in 0 .. MaxTime /\ wm \in 0 .. MaxTime /\ floor \in 0 .. MaxTime
    /\ {up, open, baselined} \subseteq BOOLEAN
    /\ pc \in {"loop", "catchup", "backfill", "recover"}
    /\ queue \in Seq(1 .. Len(execs)) /\ parked \in Seq(1 .. Len(execs))
    /\ seen \subseteq 1 .. Len(execs)
    /\ unbooked \in [Rows -> 0 .. Size]
    /\ adopt \in [phase : {"idle", "clock", "walk"}, snap : 0 .. Len(execs),
                  floor : 0 .. MaxTime, attempt : 0 .. Attempts,
                  ids : SUBSET (1 .. Len(execs)), walked : SUBSET Rows, lag : BOOLEAN]
    /\ acks \subseteq Rows
    /\ owners \in [Ids -> 0 .. 2]
    /\ crashes \in 0 .. MaxCrashes /\ drops \in 0 .. MaxDrops

(***************************************************************************)
(* What the venue reports.                                                 *)
(***************************************************************************)
ExecsOf(o) == {e \in 1 .. Len(execs) : execs[e].order = o}
CumExec(o) == Cardinality(ExecsOf(o))
Indexed(o) == ExecsOf(o) \cap indexed

Init ==
    /\ now = 1 /\ execs = <<>> /\ indexed = {}
    /\ rowState = [o \in Rows |-> "none"] /\ filled = [o \in Rows |-> 0]
    /\ pwm = 0
    /\ up = TRUE /\ pc = "loop" /\ open = FALSE /\ queue = <<>> /\ parked = <<>>
    /\ seen = {} /\ wm = 0 /\ floor = 0 /\ unbooked = [o \in Rows |-> 0]
    /\ baselined = FALSE /\ adopt = NoAdoption /\ acks = {}
    /\ owners = [e \in Ids |-> 0] /\ crashes = 0 /\ drops = 0

(***************************************************************************)
(* The venue.                                                              *)
(***************************************************************************)
Tick ==
    /\ now < MaxTime /\ now' = now + 1
    /\ UNCHANGED <<execs, indexed, rowVars, loopVars, adoptVars, procVars, seen, owners>>

\* One unit of a placed order executes; an open stream carries its push.
Execute(o) ==
    /\ rowState[o] # "none" /\ CumExec(o) < Size
    /\ execs' = Append(execs, [order |-> o, time |-> now])
    /\ queue' = IF open THEN Append(queue, Len(execs) + 1) ELSE queue
    /\ UNCHANGED <<now, indexed, rowVars, pc, open, parked, wm, unbooked,
                   adoptVars, procVars, seen, owners>>

\* The execution list catches up with an execution, however late.
Index(e) ==
    /\ e \in 1 .. Len(execs) \ indexed
    /\ indexed' = indexed \cup {e}
    /\ UNCHANGED <<now, execs, rowVars, loopVars, adoptVars, procVars, seen, owners>>

\* The transport dies; the last pushes in transit are lost and never sent again.
Drop ==
    /\ up /\ open /\ drops < MaxDrops
    /\ \E n \in 0 .. Len(queue) : queue' = SubSeq(queue, 1, n)
    /\ open' = FALSE /\ drops' = drops + 1
    /\ UNCHANGED <<venueVars, rowVars, pc, parked, wm, unbooked, adoptVars,
                   up, acks, crashes, seen, owners>>

(***************************************************************************)
(* Booking.  Fresh executions in the order given: each id enters the       *)
(* frontier, moves the engine's position once more and advances its row's  *)
(* cursor.                                                                 *)
(***************************************************************************)
Book(fresh) ==
    /\ owners' = [e \in Ids |-> IF e \in fresh THEN owners[e] + 1 ELSE owners[e]]
    /\ filled' = [o \in Rows |->
                    LET sum == filled[o] + Cardinality(fresh \cap ExecsOf(o))
                    IN  IF sum > Size THEN Size ELSE sum]

\* _translate_executions: the seen-id gate alone.
Translate(entries) ==
    /\ seen' = seen \cup entries
    /\ Book(entries \ seen)

\* _backfill_one_execution over entries in time order: the seen-id gate, then the
\* row whose cursor already covers its size (the id is only remembered).
CursorLeaves(new, e) ==
    LET o == execs[e].order
    IN  filled[o] + Cardinality({d \in new \cap ExecsOf(o) : d < e}) < Size

BackfillEntries(entries) ==
    LET new == entries \ seen
    IN  /\ seen' = seen \cup entries
        /\ Book({e \in new : CursorLeaves(new, e)})

(***************************************************************************)
(* Dispatch, as far as fills see it: the row is persisted before the       *)
(* create goes out, the reply confirms it.                                 *)
(***************************************************************************)
Place(o) ==
    /\ up /\ baselined /\ rowState[o] = "none"
    /\ rowState' = [rowState EXCEPT ![o] = "pending"]
    /\ acks' = acks \cup {o}
    /\ UNCHANGED <<venueVars, filled, pwm, loopVars, adoptVars,
                   up, crashes, drops, seen, owners>>

Ack(o) ==
    /\ up /\ o \in acks
    /\ acks' = acks \ {o}
    /\ rowState' = [rowState EXCEPT ![o] = "confirmed"]
    /\ UNCHANGED <<venueVars, filled, pwm, loopVars, adoptVars,
                   up, crashes, drops, seen, owners>>

(***************************************************************************)
(* The watch_orders loop.                                                  *)
(***************************************************************************)
\* The loop takes one frame.  Until the baseline commits it parks the frame;
\* afterwards the parked frames are translated first.
HandleFrame ==
    /\ up /\ pc = "loop" /\ queue # <<>>
    /\ queue' = Tail(queue)
    /\ IF baselined
       THEN /\ Translate(ToSet(parked) \cup {Head(queue)})
            /\ parked' = <<>>
       ELSE /\ parked' = Append(parked, Head(queue))
            /\ UNCHANGED bookVars
    /\ UNCHANGED <<venueVars, rowState, pwm, pc, open, wm, unbooked, adoptVars, procVars>>

\* _replay_pre_adoption_frames at the top of the loop.
ReplayParked ==
    /\ up /\ pc = "loop" /\ baselined /\ parked # <<>>
    /\ Translate(ToSet(parked))
    /\ parked' = <<>>
    /\ UNCHANGED <<venueVars, rowState, pwm, pc, open, queue, wm, unbooked,
                   adoptVars, procVars>>

\* The stream is opened on a queue of its own: the frames left in the old one
\* are gone.  The backfill of the gap follows before the next frame.
Reconnect ==
    /\ up /\ pc = "loop" /\ ~open
    /\ open' = TRUE /\ queue' = <<>> /\ pc' = "catchup"
    /\ UNCHANGED <<venueVars, rowVars, parked, wm, unbooked, adoptVars,
                   procVars, seen, owners>>

\* A reconcile pass first notes the confirmed rows whose order proves fills the
\* cursor lacks (resting order, vanished order, market entry).
Covered(o, cum) == filled[o] >= cum

NoteUnbooked ==
    /\ up /\ pc = "loop"
    /\ unbooked' = [o \in Rows |->
                      IF rowState[o] = "confirmed" /\ ~Covered(o, CumExec(o))
                      THEN CumExec(o) ELSE unbooked[o]]
    /\ pc' = "backfill"
    /\ UNCHANGED <<venueVars, rowVars, open, queue, parked, wm, adoptVars,
                   procVars, seen, owners>>

AfterBackfill == IF pc = "catchup" THEN "loop" ELSE "recover"

\* _run_deriv_fill_backfill: where the watermark stands once the pass starts.
Loaded  == IF wm # 0 THEN wm ELSE pwm
Resumed == IF Loaded < floor THEN floor ELSE Loaded
WindowStart == IF Resumed - Overlap < floor THEN floor ELSE Resumed - Overlap
Window == {e \in indexed : execs[e].time \in WindowStart .. now}

Backfill ==
    /\ up /\ pc \in {"catchup", "backfill"}
    /\ pc' = AfterBackfill
    /\ \/ /\ ~baselined \/ Resumed >= now
          /\ wm' = IF baselined THEN Resumed ELSE wm
          /\ UNCHANGED <<bookVars, pwm>>
       \/ /\ baselined /\ Resumed < now
          /\ BackfillEntries(Window)
          /\ wm' = now
          /\ pwm' = IF now - pwm < Overlap THEN pwm ELSE now
    /\ UNCHANGED <<venueVars, rowState, open, queue, parked, unbooked, adoptVars, procVars>>

\* A page of the window fails: the newest pages read so far are booked, the
\* watermark stays.
BackfillBreaks ==
    /\ up /\ pc \in {"catchup", "backfill"} /\ baselined /\ Resumed < now
    /\ pc' = AfterBackfill
    /\ \E from \in 1 .. Len(execs) + 1 : BackfillEntries({e \in Window : e >= from})
    /\ wm' = Resumed
    /\ UNCHANGED <<venueVars, rowState, pwm, open, queue, parked, unbooked,
                   adoptVars, procVars>>

\* Mutant: the per-order read stops at the window of the watermark.
OrderExecutionsWindowed(o) == Indexed(o) \cap Window

\* _order_executions: what the execution list returns for one order.
OrderExecutions(o) == Indexed(o)

\* _recover_unbooked_order_fills: the executions of each queued order, whatever
\* their time; a row leaves the queue when its cursor covers the proof.
DueOrders == {o \in Rows : unbooked[o] # 0 /\ ~Covered(o, unbooked[o])}

RecoverReads(read) ==
    /\ BackfillEntries(UNION {OrderExecutions(o) : o \in read})
    /\ unbooked' = [o \in Rows |-> IF filled'[o] >= unbooked[o] THEN 0 ELSE unbooked[o]]

RecoverUnbooked ==
    /\ up /\ pc = "recover"
    /\ pc' = "loop"
    /\ IF baselined THEN RecoverReads(DueOrders) ELSE UNCHANGED <<bookVars, unbooked>>
    /\ UNCHANGED <<venueVars, rowState, pwm, open, queue, parked, wm, adoptVars, procVars>>

\* The read of some orders fails: nothing of those is booked.
RecoverFails ==
    /\ up /\ pc = "recover" /\ baselined
    /\ pc' = "loop"
    /\ \E read \in SUBSET DueOrders \ {DueOrders} : RecoverReads(read)
    /\ UNCHANGED <<venueVars, rowState, pwm, open, queue, parked, wm, adoptVars, procVars>>

(***************************************************************************)
(* The adoption baseline: position snapshot, venue clock, per-order walks, *)
(* verify snapshot.                                                        *)
(***************************************************************************)
Walkable(o) == rowState[o] = "confirmed"

\* Executions parked for an order behind the gate, no later than the floor.
ParkedOf(o) == {e \in ToSet(parked) \cap ExecsOf(o) : execs[e].time <= adopt.floor}

AdoptSnapshot ==
    /\ up /\ ~baselined /\ adopt.phase = "idle"
    /\ adopt' = [NoAdoption EXCEPT !.phase = "clock", !.snap = Len(execs)]
    /\ UNCHANGED <<venueVars, rowVars, loopVars, floor, baselined, procVars, seen, owners>>

AdoptClock ==
    /\ up /\ adopt.phase = "clock"
    /\ adopt' = [adopt EXCEPT !.phase = "walk", !.floor = now, !.attempt = 1]
    /\ UNCHANGED <<venueVars, rowVars, loopVars, floor, baselined, procVars, seen, owners>>

\* One row: the order's cumExecQty, then its executions from the list and from
\* the parked frames; a walk short of cumExecQty is an index lag.
AdoptWalk(o) ==
    /\ up /\ adopt.phase = "walk" /\ o \notin adopt.walked /\ Walkable(o)
    /\ LET ids == OrderExecutions(o) \cup ParkedOf(o)
       IN  adopt' = [adopt EXCEPT !.walked = @ \cup {o}, !.ids = @ \cup ids,
                                  !.lag = @ \/ Cardinality(ids) < CumExec(o)]
    /\ UNCHANGED <<venueVars, rowVars, loopVars, floor, baselined, procVars, seen, owners>>

\* Every row was walked: the verify snapshot is read.
Walked == adopt.phase = "walk" /\ {o \in Rows : Walkable(o)} \subseteq adopt.walked
\* Mutant: the walks may lag behind the orders' cumExecQty.
StableUngated == Len(execs) = adopt.snap

\* The verify snapshot equals the first one and no walk lagged.
Stable == Len(execs) = adopt.snap /\ ~adopt.lag

\* Mutant: the commit seeds the ids and leaves the cursors behind.
AdoptCommitStaleCursor ==
    /\ up /\ Walked /\ Stable
    /\ baselined' = TRUE /\ floor' = adopt.floor /\ adopt' = NoAdoption
    /\ seen' = seen \cup adopt.ids
    /\ owners' = [e \in Ids |-> IF e <= adopt.snap THEN 1 ELSE 0]
    /\ UNCHANGED <<venueVars, rowVars, loopVars, procVars>>

\* The verify snapshot matches and nothing lags: the seeds are committed and the
\* engine adopts the verified position.
AdoptCommit ==
    /\ up /\ Walked /\ Stable
    /\ baselined' = TRUE /\ floor' = adopt.floor /\ adopt' = NoAdoption
    /\ seen' = seen \cup adopt.ids
    /\ filled' = [o \in Rows |->
                    LET walked == Cardinality(adopt.ids \cap ExecsOf(o))
                    IN  IF o \in adopt.walked /\ walked > filled[o]
                        THEN walked ELSE filled[o]]
    /\ owners' = [e \in Ids |-> IF e <= adopt.snap THEN 1 ELSE 0]
    /\ UNCHANGED <<venueVars, rowState, pwm, loopVars, procVars>>

\* A fill raced the reads or the index lags: the pass starts over on the verify
\* snapshot, under the floor already read; the last attempt gives up.
AdoptRetry ==
    /\ up /\ Walked /\ ~Stable
    /\ adopt' = IF adopt.attempt = Attempts THEN NoAdoption
                ELSE [adopt EXCEPT !.attempt = @ + 1,
                                   !.snap = Len(execs), !.ids = {}, !.walked = {},
                                   !.lag = FALSE]
    /\ UNCHANGED <<venueVars, rowVars, loopVars, floor, baselined, procVars, seen, owners>>

\* Any read of the baseline fails: nothing is committed, the engine reads again.
AdoptFails ==
    /\ up /\ adopt.phase # "idle"
    /\ adopt' = NoAdoption
    /\ UNCHANGED <<venueVars, rowVars, loopVars, floor, baselined, procVars, seen, owners>>

(***************************************************************************)
(* Crash and restart.                                                      *)
(***************************************************************************)
Crash ==
    /\ up /\ crashes < MaxCrashes
    /\ up' = FALSE /\ crashes' = crashes + 1
    /\ pc' = "loop" /\ open' = FALSE /\ queue' = <<>> /\ parked' = <<>>
    /\ seen' = {} /\ wm' = 0 /\ floor' = 0 /\ unbooked' = [o \in Rows |-> 0]
    /\ baselined' = FALSE /\ adopt' = NoAdoption /\ acks' = {}
    /\ owners' = [e \in Ids |-> 0]
    /\ UNCHANGED <<venueVars, rowVars, drops>>

\* Recovery of the pending rows before anything else runs: a row whose order is
\* found with no fills, or with fills whose ids could be read, is confirmed with
\* those ids seeded; any other outcome leaves it pending.
Recoverable(o) == rowState[o] = "pending" /\ (CumExec(o) = 0 \/ OrderExecutions(o) # {})

Restart ==
    /\ ~up /\ up' = TRUE
    /\ \E found \in SUBSET {o \in Rows : Recoverable(o)} :
          /\ rowState' = [o \in Rows |-> IF o \in found THEN "confirmed" ELSE rowState[o]]
          /\ filled' = [o \in Rows |-> IF o \in found /\ CumExec(o) > filled[o]
                                       THEN CumExec(o) ELSE filled[o]]
          /\ seen' = seen \cup UNION {OrderExecutions(o) : o \in found}
    /\ UNCHANGED <<venueVars, pwm, loopVars, adoptVars, acks, crashes, drops, owners>>

Venue == Tick \/ (\E o \in Rows : Execute(o)) \/ (\E e \in Ids : Index(e)) \/ Drop
Engine == \E o \in Rows : Place(o) \/ Ack(o)
Loop == \/ HandleFrame \/ ReplayParked \/ Reconnect \/ NoteUnbooked
        \/ Backfill \/ BackfillBreaks \/ RecoverUnbooked \/ RecoverFails
Adoption == \/ AdoptSnapshot \/ AdoptClock \/ (\E o \in Rows : AdoptWalk(o))
            \/ AdoptCommit \/ AdoptRetry \/ AdoptFails
Next == Venue \/ Engine \/ Loop \/ Adoption \/ Crash \/ Restart

Spec == Init /\ [][Next]_vars

\* The tasks of the process keep running, a crashed process is started again
\* and the execution list catches up.  A REST read may fail any number of times,
\* but one that is tried again and again succeeds at some time (strong
\* fairness).  Nothing is promised of the stream: it may stay down.
Fairness ==
    /\ WF_vars(Restart)
    /\ WF_vars(HandleFrame) /\ WF_vars(ReplayParked) /\ WF_vars(NoteUnbooked)
    /\ SF_vars(Backfill) /\ SF_vars(RecoverUnbooked)
    /\ WF_vars(AdoptSnapshot) /\ SF_vars(AdoptClock)
    /\ \A o \in Rows : SF_vars(AdoptWalk(o))
    /\ SF_vars(AdoptCommit) /\ WF_vars(AdoptRetry)
    /\ \A e \in Ids : WF_vars(Index(e))

LiveSpec == Spec /\ Fairness

-----------------------------------------------------------------------------
(***************************************************************************)
(* Properties                                                              *)
(***************************************************************************)
RowExec(e) == /\ e \in 1 .. Len(execs) /\ execs[e].order \in Rows
              /\ rowState[execs[e].order] = "confirmed"

\* An execution of a confirmed order moves the engine's position at most once:
\* whatever the push, the parked frames, the backfill and the per-order recovery
\* deliver again, the adopted size and the emitted events do not overlap
\* (_apply_adoption_baseline, _translate_executions, _backfill_one_execution).
RowFillsOwnedOnce == \A e \in Ids : RowExec(e) => owners[e] <= 1

\* Cursor and engine agree: a confirmed row's filled_qty counts just the
\* executions the engine's position includes, so that neither the cursor
\* barrier of the backfill nor the per-order recovery's queue is misled
\* (_fill_event, _apply_adoption_baseline, _confirm_recovered_row).
CursorMatchesOwners ==
    up /\ baselined => \A o \in Rows : rowState[o] = "confirmed" =>
        filled[o] = Cardinality({e \in ExecsOf(o) : owners[e] > 0})

\* "Each fill ends up with exactly one owner" (_replay_pre_adoption_frames), of
\* every order of the run.
OneOwner == \A e \in Ids : owners[e] <= 1

\* No execution of a confirmed order is lost, however late the venue indexes it
\* and whatever the stream dropped: in the end the position of the running
\* process includes it (_note_unbooked_fills, _recover_unbooked_order_fills).
EveryRowFillOwned == \A e \in Ids : RowExec(e) ~> (up /\ owners[e] > 0)
=================================================================================
