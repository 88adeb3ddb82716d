---------------------------- MODULE ForeignStops ----------------------------
(***************************************************************************)
(* Partial TP/SL orders of other parties on a leg the run holds a share of *)
(* (protection.py).  Such an order is an intervention when it was added,   *)
(* or amended, while the run held its share and is larger than the foreign *)
(* exposure beside it; it is somebody else's business otherwise.  Nothing  *)
(* the venue sends says which: order pushes, executions and position views *)
(* come over separate channels, and the verdict waits until the ledger of  *)
(* the leg has seen past the order, or gives up and says so.               *)
(*                                                                         *)
(* One buy leg, one order.  The log of the venue is its clock: an index    *)
(* stands for an execution's seq and for every timestamp.  The ledger is   *)
(* taken as HedgeLeg shows it to be: exact at its cursor, or above the     *)
(* run's true share by no more than its doubt.                             *)
(***************************************************************************)
EXTENDS Integers, Sequences, FiniteSetsExt, SequencesExt

CONSTANTS
    MaxLog,      \* bound: happenings at the venue
    MaxLeg,      \* bound: size of the leg, and of the order
    MaxVersions, \* bound: an order and its amends
    MaxFaults,   \* bound: restarts, outages of the stream, intervals given up
    Beyond       \* what other parties and the venue may do beyond the bounds
                 \* the verdict relies on

ASSUME StopsAssumption ==
    /\ {MaxLog, MaxLeg, MaxVersions, MaxFaults} \subseteq Nat
    /\ Beyond \subseteq {"early amend", "slow"}

VARIABLES
    hist,    \* the log: leg, the run's true share, total of its executions
    vers,    \* the order: quantity, trigger, updatedTime, status
    pushed,  \* versions whose push was delivered (or lost in an outage)
    read,    \* the open-orders read under way: version at its start
    bot,     \* the process: what it knows of the leg and the waiting order
    audit,   \* FOREIGN_TPSL_ORDER_EVENTs of the order: durable
    faults   \* of them so far

vars == <<hist, vers, pushed, read, bot, audit, faults>>

None == 0
NotPending == [ver |-> None]
NoRead == [from |-> None, on |-> FALSE]

Now == Len(hist)
IsExec(i) == hist[i].leg # hist[i - 1].leg
Execs(from, to) == {i \in from + 1 .. to : IsExec(i)}
NoExec(from, to) == Execs(from, to) = {}
Pos(n) == IF n > 0 THEN n ELSE 0
Least(a, b) == IF a < b THEN a ELSE b

-----------------------------------------------------------------------------
(***************************************************************************)
(* What the ledger and the journal of the leg say                          *)
(***************************************************************************)

\* The ledger's leg, share and doubt at its cursor.
LedgerLeg(B) == hist[B.cursor].leg
LedgerShare(B) == Least(LedgerLeg(B), hist[B.cursor].share + B.over)
Doubt(B) == Least(B.doubt, LedgerShare(B))

\* The run's journal share: the ledger's, and the own executions beyond its
\* cursor (_sync_leg_journal).
Held(B) == Pos(LedgerShare(B) + hist[B.known].own - hist[B.cursor].own)

\* _ledger_advance: the ledger walks to its newest view once every execution
\* up to it is known.
LedgerAdvance(B) ==
    IF ~B.hold /\ NoExec(B.known, B.view) THEN [B EXCEPT !.cursor = B.view] ELSE B

\* _note_share_start: an own execution that begins or ends the run's share.
NoteShareStart(before, after, seq) ==
    IF (Held(before) > 0) = (Held(after) > 0) THEN after
    ELSE [after EXCEPT !.since = None, !.start = IF Held(after) > 0 THEN seq ELSE None]

-----------------------------------------------------------------------------
(***************************************************************************)
(* The verdict                                                             *)
(***************************************************************************)

\* Mutant: the view that follows the order is trusted without the grace.
NoGrace(B) ==
    ~B.hold /\ B.pend.viewed /\ B.cursor = B.view /\ NoExec(B.view, B.known)
\* Mutant: the ledger's cursor is trusted while executions lie beyond it.
IgnoresBeyond(B) ==
    ~B.hold /\ B.pend.age # "fresh" /\ B.pend.viewed /\ B.cursor = B.view

\* _tpsl_order_evidence: the ledger stands at the newest view, nothing known
\* lies beyond it, and both are later than what the order was attached to.
Evidence(B) ==
    /\ ~B.hold
    /\ B.pend.age # "fresh"
    /\ B.pend.viewed
    /\ B.cursor = B.view
    /\ NoExec(B.view, B.known)
Room(B) == LedgerLeg(B) - LedgerShare(B)

\* _judge_tpsl_order, for an order of size qty created (or, when it was
\* judged before, amended) at the given time.
Verdict(B, qty, created) ==
    IF B.start = None /\ B.since = None THEN "unproven"
    ELSE IF created < B.start THEN "preexisting"
    ELSE IF B.start = None /\ created < B.since THEN "unproven"
    ELSE IF ~Evidence(B) THEN IF B.pend.age = "old" THEN "unproven" ELSE "waits"
    ELSE IF qty <= Room(B) THEN "foreign_only"
    ELSE IF qty > Room(B) + Doubt(B) THEN "reported"
    ELSE "unproven"

\* Mutant: an amend is judged by the order's creation.
AtCreation(ver, judged) == vers[1].at
CreatedAt(ver, judged) == IF judged THEN vers[ver].at ELSE vers[1].at

\* The handler's last part, for the process state B: an order that reduces
\* nothing of the run is dropped, one the evidence is not in for waits.
Judge(B) ==
    LET ver == B.pend.ver
        verdict == Verdict(B, vers[ver].qty, CreatedAt(ver, audit # <<>>))
    IN  IF ver = None THEN bot' = B /\ UNCHANGED audit
        ELSE IF Held(B) = 0 THEN bot' = [B EXCEPT !.pend = NotPending] /\ UNCHANGED audit
        ELSE IF verdict = "waits" THEN bot' = B /\ UNCHANGED audit
        ELSE /\ bot' = [B EXCEPT !.pend = NotPending]
             /\ audit' = Append(audit, [ver |-> ver, verdict |-> verdict,
                                        start |-> B.start, doubt |-> Doubt(B)])

\* _tpsl_order_amended: another trigger, or more of it, than the last verdict
\* judged; a reported order is never judged again.
Judged == Last(audit)
\* Mutant: a reported order is judged again when it is amended.
ReportedAgain(ver) ==
    \/ vers[ver].trigger # vers[Judged.ver].trigger
    \/ vers[ver].qty > vers[Judged.ver].qty
Amended(ver) ==
    /\ Judged.verdict # "reported"
    /\ \/ vers[ver].trigger # vers[Judged.ver].trigger
       \/ vers[ver].qty > vers[Judged.ver].qty
Unjudged(ver) == audit = <<>> \/ Amended(ver)

\* _observe_foreign_tpsl_order for a resting view: it waits, by the terms of
\* the newest view and since the first.
FirstSeen(ver) ==
    [ver |-> ver, age |-> "fresh", viewed |-> FALSE, reread |-> FALSE, seen |-> Now]
Observe(B, ver) ==
    IF Unjudged(ver)
    THEN Judge([B EXCEPT !.pend = IF @ = NotPending THEN FirstSeen(ver)
                                  ELSE [@ EXCEPT !.ver = ver]])
    ELSE bot' = B /\ UNCHANGED audit

\* _withdraw_pending_tpsl_order: an order that fired is the ledger's to judge,
\* one that is gone cannot be judged any more.
Withdraw(B, status) ==
    /\ bot' = [B EXCEPT !.pend = NotPending]
    /\ audit' = IF B.pend = NotPending \/ status = "fired" THEN audit
                ELSE Append(audit, [ver |-> B.pend.ver, verdict |-> "unproven",
                                    start |-> B.start, doubt |-> Doubt(B)])

-----------------------------------------------------------------------------
(***************************************************************************)
(* The venue                                                               *)
(***************************************************************************)

Happens(leg, share, own) ==
    /\ Now < MaxLog
    /\ hist' = Append(hist, [leg |-> leg, share |-> share, own |-> hist[Now].own + own])

\* An execution of one unit: the run's own takes from its own share, any
\* other party's takes foreign exposure first.
Execute ==
    LET here == hist[Now]
    IN  /\ \/ here.leg < MaxLeg /\ Happens(here.leg + 1, here.share + 1, 1)
           \/ here.leg < MaxLeg /\ Happens(here.leg + 1, here.share, 0)
           \/ here.share > 0 /\ Happens(here.leg - 1, here.share - 1, -1)
           \/ here.leg > 0 /\ Happens(here.leg - 1, Least(here.share, here.leg - 1), 0)
        /\ UNCHANGED <<vers, pushed, read, bot, audit, faults>>

Newest == vers[Len(vers)]
Rests == vers # <<>> /\ Newest.status = "rests"

NewVersion(version) ==
    /\ Happens(hist[Now].leg, hist[Now].share, 0)
    /\ Len(vers) < MaxVersions
    /\ vers' = Append(vers, version)
    /\ UNCHANGED <<pushed, read, bot, audit, faults>>

Place ==
    /\ vers = <<>>
    /\ \E qty \in 1 .. MaxLeg :
          NewVersion([qty |-> qty, trigger |-> 0, at |-> Now + 1, status |-> "rests"])

\* Its owner moves the trigger or changes the quantity.
Amend ==
    /\ Rests
    /\ "early amend" \in Beyond \/ (audit # <<>> /\ Judged.ver = Len(vers))
    /\ \E qty \in 1 .. MaxLeg, trigger \in 0 .. 1 :
          /\ <<qty, trigger>> # <<Newest.qty, Newest.trigger>>
          /\ NewVersion([qty |-> qty, trigger |-> trigger, at |-> Now + 1,
                         status |-> "rests"])

\* It is cancelled, or triggers.
End ==
    /\ Rests
    /\ \E status \in {"fired", "gone"} :
          vers' = Append(vers, [Newest EXCEPT !.status = status])
    /\ UNCHANGED <<hist, pushed, read, bot, audit, faults>>

-----------------------------------------------------------------------------
(***************************************************************************)
(* The process                                                             *)
(***************************************************************************)

\* An order push, in order (_translate_order_rows).
OrderPush ==
    /\ pushed < Len(vers)
    /\ pushed' = pushed + 1
    /\ IF vers[pushed'].status = "rests" THEN Observe(bot, pushed')
       ELSE Withdraw(bot, vers[pushed'].status)
    /\ UNCHANGED <<hist, vers, read, faults>>

\* The open-orders read (_observe_open_order_levels) shows some state the
\* venue was in between its start and its end, and is at most one change of
\* the order before or behind its pushes.
StartRead ==
    /\ ~read.on
    /\ read' = [from |-> Len(vers), on |-> TRUE]
    /\ bot' = IF bot.pend = NotPending THEN bot ELSE [bot EXCEPT !.pend.reread = TRUE]
    /\ UNCHANGED <<hist, vers, pushed, audit, faults>>
ReadOrders ==
    /\ read.on
    /\ read' = NoRead
    /\ \E ver \in read.from .. Len(vers) :
          /\ "slow" \in Beyond \/ ver \in pushed .. pushed + 1
          /\ IF ver # None /\ vers[ver].status = "rests" THEN Observe(bot, ver)
             ELSE IF bot.pend # NotPending /\ bot.pend.reread
             THEN Withdraw(bot, "gone")
             ELSE UNCHANGED <<bot, audit>>
    /\ UNCHANGED <<hist, vers, pushed, faults>>

\* An execution is delivered: the run's own is booked, then the ledger and the
\* waiting order are judged (_book_own_execution, _note_external_execution).
Book(B, seq) ==
    LET booked == [B EXCEPT !.known = seq]
    IN  LedgerAdvance(IF hist[seq].own = hist[seq - 1].own THEN booked
                      ELSE NoteShareStart(B, booked, seq))
Execution ==
    /\ ~NoExec(bot.known, Now)
    /\ Judge(Book(bot, Min(Execs(bot.known, Now))))
    /\ UNCHANGED <<hist, vers, pushed, read, faults>>

\* A view of the leg is taken in: a push, or the read of a reconcile pass that
\* may have begun before the waiting order was seen and may show what is known;
\* the order is judged again (_note_leg_view, _judge_pending_tpsl_orders).
SeenView(B, seq, after) ==
    [B EXCEPT !.view = seq,
              !.pend = IF @ = NotPending THEN @ ELSE [@ EXCEPT !.viewed = after]]
PositionView ==
    /\ \E seq \in {bot.view} \union Execs(bot.view, Now), after \in BOOLEAN :
          Judge(LedgerAdvance(SeenView(bot, seq, after)))
    /\ UNCHANGED <<hist, vers, pushed, read, faults>>

\* The grace runs out (fill_report_grace_s, then the verdict ceiling): by then
\* what had happened when the order was first seen has been delivered, unless
\* the stream is out, and no read outlasts it.
Delivered(seen) ==
    /\ NoExec(bot.known, seen)
    /\ \A ver \in pushed + 1 .. Len(vers) : vers[ver].at > seen
Later(age) == IF age = "fresh" THEN "graced" ELSE "old"
TimePasses ==
    /\ bot.pend # NotPending
    /\ bot.pend.age # "old"
    /\ ~read.on \/ bot.pend.reread
    /\ bot.hold \/ Delivered(bot.pend.seen)
    /\ Judge([bot EXCEPT !.pend.age = Later(@)])
    /\ UNCHANGED <<hist, vers, pushed, read, faults>>

\* The ledger gives up an interval: its share may be above the run's by what
\* is in doubt; or it settles one.
GiveUp ==
    /\ faults < MaxFaults
    /\ Held(bot) > 0
    /\ \E over \in 0 .. bot.doubt + 1 :
          bot' = [bot EXCEPT !.doubt = @ + 1, !.over = over]
    /\ faults' = faults + 1
    /\ UNCHANGED <<hist, vers, pushed, read, audit>>
Settle ==
    /\ bot.doubt > 0
    /\ bot' = [bot EXCEPT !.doubt = 0, !.over = 0]
    /\ UNCHANGED <<hist, vers, pushed, read, audit, faults>>

\* The private stream breaks: order pushes of the outage are lost, and nothing
\* is proven until its executions were read again.
Outage ==
    /\ faults < MaxFaults
    /\ faults' = faults + 1
    /\ bot' = [bot EXCEPT !.hold = TRUE]
    /\ UNCHANGED <<hist, vers, pushed, read, audit>>
LostPush ==
    /\ bot.hold
    /\ pushed < Len(vers)
    /\ pushed' = pushed + 1
    /\ UNCHANGED <<hist, vers, read, bot, audit, faults>>
LiftHold ==
    /\ bot.hold
    /\ NoExec(bot.known, Now)
    /\ bot' = [bot EXCEPT !.hold = FALSE]
    /\ UNCHANGED <<hist, vers, pushed, read, audit, faults>>

\* A process that has adopted the position as of now: it knows that it holds
\* its share since then (_note_share_held_since), and not since when.
Adopted(now, share) ==
    [known |-> now, view |-> now, cursor |-> now, over |-> 0, doubt |-> 0,
     hold |-> TRUE, start |-> None, pend |-> NotPending,
     since |-> IF share > 0 THEN now + 1 ELSE None]
Restart ==
    /\ faults < MaxFaults
    /\ faults' = faults + 1
    /\ bot' = Adopted(Now, hist[Now].share)
    /\ read' = NoRead
    /\ pushed' = Len(vers)
    /\ UNCHANGED <<hist, vers, audit>>

Init ==
    /\ \E leg \in 0 .. MaxLeg : \E share \in 0 .. leg :
          /\ hist = <<[leg |-> leg, share |-> share, own |-> 0]>>
          /\ bot = [Adopted(1, share) EXCEPT !.hold = FALSE]
    /\ vers = <<>>
    /\ pushed = None
    /\ read = NoRead
    /\ audit = <<>>
    /\ faults = 0

Venue == Execute \/ Place \/ Amend \/ End
Plugin == \/ OrderPush \/ StartRead \/ ReadOrders
          \/ Execution \/ PositionView \/ TimePasses
          \/ GiveUp \/ Settle \/ Outage \/ LostPush \/ LiftHold \/ Restart
Next == Venue \/ Plugin

Spec == Init /\ [][Next]_vars

-----------------------------------------------------------------------------
(***************************************************************************)
(* Properties                                                              *)
(***************************************************************************)

\* Types of the process state around the verdict.
TypeOK ==
    /\ {bot.known, bot.view, bot.cursor} \subseteq 1 .. Now
    /\ {bot.start, bot.since} \subseteq 0 .. Now + 1
    /\ bot.start = None \/ bot.since = None
    /\ bot.cursor <= bot.view
    /\ pushed <= Len(vers)

\* The states of the leg since the newest amend the judged version is.
Since(entry) == vers[entry.ver].at .. Now
ForeignAt(i) == hist[i].leg - hist[i].share
Verdicts(verdict) == {n \in DOMAIN audit : audit[n].verdict = verdict}

\* An order is reported as an intervention only if the run held a share that
\* it covered: when it was added or amended, or later, before the verdict,
\* there was less foreign exposure on the leg than it reduces.
NoFalseReport ==
    \A n \in Verdicts("reported") :
        \E i \in Since(audit[n]) :
            /\ hist[i].share > 0 \/ audit[n].doubt > 0
            /\ vers[audit[n].ver].qty > ForeignAt(i)

\* An order is let pass as somebody else's only if there was, since it took
\* its terms, foreign exposure for all of it.
NoMissedReport ==
    \A n \in Verdicts("foreign_only") :
        \E i \in Since(audit[n]) : vers[audit[n].ver].qty <= ForeignAt(i)

\* An order is let pass as older than the run's share only if the terms that
\* were judged are.
PreexistingIsOlder ==
    \A n \in Verdicts("preexisting") : vers[audit[n].ver].at < audit[n].start

\* Across restarts, reads and pushes every version of an order is judged at
\* most once, in order, and nothing follows a report.
JudgedOnce ==
    \A m, n \in DOMAIN audit :
        m < n => audit[m].ver < audit[n].ver /\ audit[m].verdict # "reported"
=============================================================================
