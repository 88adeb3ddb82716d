------------------------------ MODULE HedgeLeg -------------------------------
(***************************************************************************)
(* The share ledger of one hedge leg at work (protection.py, events.py):   *)
(* the venue concludes the run's and other parties' executions on a shared *)
(* leg; executions and position views reach the plugin late, out of order, *)
(* or (views) never; the plugin books the run's own fills into its journal *)
(* and lets the ledger judge whether a foreign execution took share of the *)
(* run.  The venue side also keeps what really happened, to judge the      *)
(* verdicts by.                                                            *)
(*                                                                         *)
(* The modelled leg is the buy leg; the sell leg has the same unsigned     *)
(* frame.                                                                  *)
(***************************************************************************)
EXTENDS LegLedger

CONSTANTS
    MaxSeq,      \* bound: transactions of the symbol
    MaxSize,     \* bound: size of the leg
    Quantities,  \* sizes of an execution
    MaxMissing,  \* executions a later one may overtake while nothing is held
    MaxExpiries, \* bound: intervals that outlast the grace
    MaxOutages,  \* bound: outages of the private stream
    ForeignSeq,  \* are fill-less updates stamped with a seq of their own?
    OwnInOrder,  \* do the run's own executions arrive in their order?
    LateStarts   \* may the ledger start later than the adoption baseline?

ASSUME LegAssumption ==
    /\ MaxSeq \in Nat /\ MaxSize \in Nat
    /\ Quantities \subseteq Nat \ {0}
    /\ MaxMissing \in Nat /\ MaxExpiries \in Nat /\ MaxOutages \in Nat
    /\ ForeignSeq \in BOOLEAN /\ OwnInOrder \in BOOLEAN
    /\ LateStarts \subseteq BOOLEAN

VARIABLES
    history,  \* the leg, the run's true share and updatedTime at every seq
    taken,    \* what the execution at a seq really took of the run's share
    pending,  \* executions concluded and not entered into the ledger
    led,      \* the LegLedger of the leg
    rows,     \* owned quantity of the run's live entry rows
    known,    \* _ledger_exec_seqs
    hold,     \* _ledger_stream_opened_ms is set
    reports,  \* external closes reported
    expiries, outages

venue == <<history, taken>>
plugin == <<led, rows, known, reports>>
legVars == <<history, taken, pending, led, rows, known, hold, reports, expiries,
          outages>>

Seq0 == 0 .. MaxSeq

\* The last transaction and the leg after it.
LastSeq == Len(history) - 1
Now == history[Len(history)]
At(seq) == history[seq + 1]

-----------------------------------------------------------------------------
(***************************************************************************)
(* The venue                                                               *)
(***************************************************************************)

\* Whose exposure a reduction takes: the run's own fills take the run's, any
\* other party's take foreign exposure first.
TrueShare(own, delta) ==
    IF own THEN Pos(Now.share + delta)
    ELSE Smaller(Now.share, Now.leg + delta)

Execute ==
    /\ LastSeq < MaxSeq
    /\ \E own \in BOOLEAN, q \in Quantities, grow \in BOOLEAN :
          LET delta == IF grow THEN q ELSE -q
              seq == LastSeq + 1
              share == TrueShare(own, delta)
          IN  /\ Now.leg + delta \in 0 .. MaxSize
              /\ own /\ ~grow => q <= Now.share
              /\ history' = Append(history, [leg |-> Now.leg + delta,
                                             share |-> share, upd |-> seq])
              /\ taken' = Append(taken, IF own THEN 0 ELSE Now.share - share)
              /\ pending' = pending \union
                    {[id |-> seq, seq |-> seq, delta |-> delta, own |-> own]}
    /\ UNCHANGED <<plugin, hold, expiries, outages>>

\* Another transaction of the symbol: the next update of the leg is stamped
\* with a seq no execution of the account carries.
OtherTransaction ==
    /\ ForeignSeq
    /\ LastSeq < MaxSeq
    /\ history' = Append(history, Now)
    /\ taken' = Append(taken, 0)
    /\ UNCHANGED <<pending, plugin, hold, expiries, outages>>

-----------------------------------------------------------------------------
(***************************************************************************)
(* Booking into the journal and the ledger.  D is the plugin's state       *)
(* [led, rows, known, reports] while one handler runs.                     *)
(***************************************************************************)

\* _sync_leg_journal (hedge): the journal is netted down to what the ledger
\* holds.
SyncLegJournal(D) ==
    LET target == D.led.journal
                  + ShareIn({e \in D.led.events : e.own})
    IN  [D EXCEPT !.rows = IF @ > target THEN Pos(target) ELSE @,
                  !.led.toNet = NothingToNet]

\* _ledger_apply: a proven verdict not wholly in doubt is reported.
Reported(o) == ~o.own /\ o.proven /\ o.consumed > 0 /\ o.doubtful < o.consumed
LedgerApply(D, out) ==
    [D EXCEPT !.reports = @ \union
        {[seq |-> out[i].id, qty |-> out[i].consumed - out[i].doubtful] :
            i \in {j \in DOMAIN out : Reported(out[j])}}]

\* Mutant: a late own reduce is netted although a give-up netted it already.
NoReduceCredit(L, e) == [led |-> L, taken |-> 0]

\* _ledger_reduce_credit
ReduceCredit(L, e) ==
    IF e.delta < 0 /\ Late(L, e) THEN TakeCredit(L, e.seq, -e.delta, 1)
    ELSE [led |-> L, taken |-> 0]

\* _book_own_execution: the fill moves the entry rows, then enters the ledger
\* with the change it made to them (_fill_event, _reduce_entry_ownership,
\* _note_own_execution).
EnterLate(D, late) ==
    IF late.out = <<>> THEN [D EXCEPT !.led = late.led]
    ELSE SyncLegJournal([D EXCEPT !.led = late.led])
NoteOwn(D, e) ==
    LET credit == ReduceCredit(D.led, e)
        booked == IF e.delta > 0 THEN D.rows + e.delta
                  ELSE D.rows - Smaller(D.rows, -e.delta - credit.taken)
        event == [id |-> e.id, seq |-> e.seq, delta |-> e.delta, own |-> TRUE,
                  share |-> booked - D.rows, credit |-> credit.taken]
        seen == [D EXCEPT !.rows = booked, !.known = @ \union {e.seq}]
    IN  IF ~Late(D.led, e)
        THEN [seen EXCEPT !.led = AddEvent(credit.led, event)]
        ELSE EnterLate(seen, LateOwn(credit.led, event))

\* _note_external_execution: one older than the view the ledger started on,
\* or of an interval judged without it, is only logged.
NoteForeign(D, e) ==
    LET event == [id |-> e.id, seq |-> e.seq, delta |-> e.delta, own |-> FALSE,
                  share |-> 0, credit |-> 0]
        seen == [D EXCEPT !.known = @ \union {e.seq}]
    IN  IF ~Late(D.led, e) THEN [seen EXCEPT !.led = AddEvent(@, event)]
        ELSE IF e.seq > D.led.anchor /\ HeldLate(D.led, e)
        THEN [seen EXCEPT !.led = LateForeign(@, event)]
        ELSE seen

Note(D, e) == IF e.own THEN NoteOwn(D, e) ELSE NoteForeign(D, e)

\* A batch, in seq order.
InOrder(batch) == Listed(batch, LAMBDA e, f : e.seq < f.seq)
NoteSteps(D, list) ==
    LET after[n \in 0 .. Len(list)] ==
            IF n = 0 THEN D ELSE Note(after[n - 1], list[n])
    IN  after
NoteAll(D, list) == NoteSteps(D, list)[Len(list)]

\* _ledger_advance: the ledger starts on its newest view, or follows the
\* journal; then the intervals are judged and the outcomes applied.
Begun(D, first) ==
    IF first.out = <<>> THEN [D EXCEPT !.led = first.led]
    ELSE SyncLegJournal([D EXCEPT !.led = first.led])
Applied(D, out) ==
    IF out = <<>> THEN D ELSE LedgerApply(SyncLegJournal(D), out)
JudgeLeg(D, out, judged) ==
    Applied([D EXCEPT !.led = judged.led], out \o judged.out)
AdvanceLeg(D, out, provable, expired) ==
    JudgeLeg(D, out, Advance(D.led, D.known, provable, expired))
BeginLeg(D, first, provable, expired) ==
    AdvanceLeg(Begun(D, first), first.out, provable, expired)
LedgerAdvance(D, provable, expired) ==
    IF Started(D.led)
    THEN AdvanceLeg([D EXCEPT !.led = SyncJournal(@, D.rows)], <<>>,
                    provable, expired)
    ELSE BeginLeg(D, Start(D.led, D.rows), provable, expired)

Plugin == [led |-> led, rows |-> rows, known |-> known, reports |-> reports]

Becomes(D) ==
    /\ led' = D.led
    /\ rows' = D.rows
    /\ known' = D.known
    /\ reports' = D.reports

\* The wall clock may have run past the grace when the ledger judges.
Judge(D) ==
    \E expired \in BOOLEAN :
        /\ expired => expiries < MaxExpiries
        /\ expiries' = IF expired THEN expiries + 1 ELSE expiries
        /\ Becomes(LedgerAdvance(D, ~hold, expired))

-----------------------------------------------------------------------------
\* The ledger was anchored on the view of the adoption baseline.
OnBaseline == led.anchor = 0

\* The adoption baseline has committed: the rows hold the run's share of the
\* verified position snapshot, and the ledger anchors on that very view.  The
\* row of a leg that never traded carries no seq: its ledger starts later, on
\* the first view that does.
LegInit ==
    \E late \in LateStarts :
    \E leg \in IF late THEN {0} ELSE 0 .. MaxSize : \E share \in 0 .. leg :
        /\ history = <<[leg |-> leg, share |-> share, upd |-> 0]>>
        /\ rows = share
        /\ LET seen == [led |-> AddView(NewLedger, [seq |-> 0, size |-> leg,
                                                    upd |-> 0]),
                        rows |-> share, known |-> {}, reports |-> {}]
           IN  led = IF late THEN NewLedger
                     ELSE LedgerAdvance(seen, FALSE, FALSE).led
        /\ known = {}
        /\ reports = {}
        /\ taken = <<0>>
        /\ pending = {}
        /\ hold = TRUE
        /\ expiries = 0
        /\ outages = 0

-----------------------------------------------------------------------------
(***************************************************************************)
(* Deliveries                                                              *)
(***************************************************************************)

\* The executions of S a known later one has overtaken.
Overtaken(S, seqs) == {e \in S : \E s \in seqs : s > e.seq}
SeqsOf(S) == {e.seq : e \in S}

\* One push or one backfill window: a batch of executions in seq order, then
\* one judgement (_translate_executions, _run_deriv_fill_backfill).
Executions ==
    \E batch \in SUBSET pending :
        /\ batch # {}
        /\ OwnInOrder => ~\E e \in pending \ batch :
                             e.own /\ \E f \in batch : f.own /\ f.seq > e.seq
        /\ hold \/ Cardinality(Overtaken(pending \ batch, SeqsOf(batch)))
                   <= MaxMissing
        /\ pending' = pending \ batch
        /\ Judge(NoteAll(Plugin, InOrder(batch)))
        /\ UNCHANGED <<venue, hold, outages>>

\* A position push or a REST read shows the leg at some seq, however old;
\* a view may be seen twice or not at all (_ingest_position_frame).
PositionView ==
    \E seq \in IF OnBaseline THEN 0 .. LastSeq ELSE 1 .. LastSeq :
        /\ Judge([Plugin EXCEPT !.led =
               AddView(@, [seq |-> seq, size |-> At(seq).leg,
                           upd |-> At(seq).upd])])
        /\ UNCHANGED <<venue, pending, hold, outages>>

\* A reconcile pass judges again.
Reconcile ==
    /\ Judge(Plugin)
    /\ UNCHANGED <<venue, pending, hold, outages>>

\* The stream is down: nothing is proven from here on.
Outage ==
    /\ ~hold
    /\ outages < MaxOutages
    /\ outages' = outages + 1
    /\ hold' = TRUE
    /\ UNCHANGED <<venue, pending, plugin, expiries>>

\* The outage window is re-read to the end, except for what the venue indexes
\* later than the read overlap.
LiftHold ==
    /\ hold
    /\ Cardinality(Overtaken(pending, known)) <= MaxMissing
    /\ hold' = FALSE
    /\ UNCHANGED <<venue, pending, plugin, expiries, outages>>

LegNext == \/ Execute \/ OtherTransaction
        \/ Executions \/ PositionView \/ Reconcile
        \/ Outage \/ LiftHold

LegSpec == LegInit /\ [][LegNext]_legVars

-----------------------------------------------------------------------------
(***************************************************************************)
(* Properties                                                              *)
(***************************************************************************)

\* Types of the ledger's figures and of the plugin's state around it
\* (LegLedger, _ledger_exec_seqs, _ledger_stream_opened_ms).
LegTypeOK ==
    /\ led.cursor \in {Unset} \union Seq0
    /\ led.leg \in 0 .. MaxSize
    /\ led.share \in 0 .. MaxSize
    /\ led.doubt \in 0 .. MaxSize
    /\ led.credits \in Seq([seq : Seq0, qty : Nat \ {0}, side : Sides])
    /\ rows \in Nat
    /\ known \subseteq Seq0
    /\ hold \in BOOLEAN

\* "The share never exceeds the journal", nor what the leg holds: whatever
\* verdicts, give-ups, late executions and nettings come together, the share
\* stays on the leg and within what the run's own booked fills built
\* (ledger.py, _bounded, _capped, late_own).
ShareWithinBounds ==
    Started(led) => led.share <= led.leg /\ led.share <= Pos(led.journal)

\* The part of the share not in doubt is really the run's at the cursor (for
\* a ledger anchored with the baseline: one that starts later takes the
\* journal and its first view at their word) (_give_up, _add_doubt, late_own,
\* _settle_gaps).
ProvenPartHeld ==
    OnBaseline => led.share - led.doubt <= At(led.cursor).share

\* No execution is reported as an external close for more than it took of the
\* run's share, by a ledger anchored with the baseline (_walk, _ledger_apply).
NoFalseReport ==
    OnBaseline => \A r \in reports : r.qty <= taken[r.seq + 1]

\* Without a give-up the ledger is exact at its cursor: the share is the
\* run's true share there, the journal rows hold it and the own executions
\* beyond, and every execution that took share of the run was reported with
\* just what it took (_walk, advance, _sync_leg_journal, _ledger_apply).
ExactAtCursor ==
    Started(led) /\ OnBaseline /\ expiries = 0 =>
        /\ led.share = At(led.cursor).share
        /\ rows = led.share
                  + ShareIn({e \in led.events : e.own})
        /\ reports = {[seq |-> s, qty |-> taken[s + 1]] :
                         s \in {n \in 1 .. led.cursor : taken[n + 1] > 0}}

\* Once every execution has reached the plugin, the journal holds at least
\* the share the run really has: no late own reduce is netted a second time,
\* and no verdict takes more than is gone (_ledger_reduce_credit, take_credit,
\* late_own).
NotNettedTwice == pending = {} => rows >= Now.share
=============================================================================
