------------------------------ MODULE LegLedger ------------------------------
(***************************************************************************)
(* The position ledger of one derivative leg (ledger.py): the views and    *)
(* executions recorded, the run's share of the leg, and the judgement of   *)
(* the intervals between views.  The methods of LegLedger are operators    *)
(* from a ledger to a ledger; the ones that decide something return        *)
(* [led |-> ..., out |-> the outcomes in walk order].                      *)
(*                                                                         *)
(* Quantities are whole quantity steps, signed in the leg frame (a hedge   *)
(* leg unsigned, the one-way leg buy positive), so the tolerance of half a *)
(* step is the test for zero.                                              *)
(***************************************************************************)
EXTENDS Integers, SequencesExt

CONSTANTS
    MaxViews,   \* _MAX_VIEWS
    MaxEvents,  \* _MAX_EVENTS
    MaxCredits, \* _MAX_CREDITS
    MaxGaps     \* _MAX_GAPS

ASSUME LedgerAssumption ==
    /\ MaxViews \in Nat \ {0} /\ MaxEvents \in Nat \ {0}
    /\ MaxCredits \in Nat \ {0} /\ MaxGaps \in Nat \ {0}

\* Python's None for a seq and for a view's updatedTime.
Unset == -1
NoView == [seq |-> Unset, size |-> 0, upd |-> Unset]

Sides == {1, -1}
NothingToNet == [side \in Sides |-> 0]

Smaller(a, b) == IF a <= b THEN a ELSE b
Larger(a, b) == IF a >= b THEN a ELSE b
Pos(x) == Larger(x, 0)
Size(x) == IF x < 0 THEN -x ELSE x

\* _direction
Direction(share) == IF share > 0 THEN 1 ELSE IF share < 0 THEN -1 ELSE 0

\* What a leg holds on one side.
OnSide(leg, side) == Pos(leg * side)

\* _bounded: never larger than the journal, never on its other side.
Bounded(share, journal) ==
    IF Direction(share) # Direction(journal) THEN 0
    ELSE IF Size(share) <= Size(journal) THEN share ELSE journal

\* _capped: at most what the leg holds on the share's side.
Capped(share, leg) ==
    Smaller(Size(share), OnSide(leg, Direction(share))) * Direction(share)

Total(f, S) == MapThenSumSet(LAMBDA e : f[e], S)

\* The elements of a finite set as a sequence, each before the ones that follow it.
Listed(S, Before(_, _)) ==
    CHOOSE s \in [1 .. Cardinality(S) -> S] :
        \A i, j \in DOMAIN s : i < j => Before(s[i], s[j])

-----------------------------------------------------------------------------
\* The fields of LegLedger; an execution is [id, seq, delta, own, share,
\* credit] (LegEvent) and a kept give-up is the record GiveUp builds (LegGap).
NewLedger ==
    [views |-> {}, events |-> {}, cursor |-> Unset, anchor |-> Unset,
     leg |-> 0, share |-> 0, journal |-> 0, waiting |-> FALSE,
     credits |-> <<>>, newest |-> NoView, doubt |-> 0, doubtSeq |-> 0,
     blind |-> Unset, room |-> NothingToNet, gaps |-> <<>>,
     toNet |-> NothingToNet]

\* Sums over executions.
ShareIn(S) == Total([e \in S |-> e.share], S)
DeltaIn(S) == Total([e \in S |-> e.delta], S)

Started(L) == L.cursor # Unset

OwnBeyond(L, seq) ==
    ShareIn({e \in L.events : e.own /\ e.seq > seq})

ExpectedLeg(L, seq) ==
    L.leg + DeltaIn({e \in L.events : L.cursor < e.seq /\ e.seq <= seq})

\* LegEvent.own_share: the journal change with the credit put back.
OwnShare(e) == e.share + (IF e.delta > 0 THEN e.credit ELSE -e.credit)

-----------------------------------------------------------------------------
(***************************************************************************)
(* Bookkeeping                                                             *)
(***************************************************************************)

\* _cap_doubt: what the run no longer holds is no doubt.
CapDoubt(L) ==
    LET doubt == Smaller(L.doubt, Size(L.share))
        capped(g) == [g EXCEPT !.doubt = Smaller(@, Size(L.share))]
    IN  [L EXCEPT !.doubt = doubt,
                  !.gaps = IF doubt = 0 THEN <<>>
                           ELSE [i \in DOMAIN @ |-> capped(@[i])]]

\* _add_doubt
AddDoubt(L, seq, quantity) ==
    IF quantity = 0 THEN L
    ELSE CapDoubt([L EXCEPT !.doubt = @ + quantity,
                            !.doubtSeq = Larger(@, seq)])

\* _take_journal: a verdict takes quantity off one side of the journal.
TakeJournal(L, quantity, side) ==
    IF quantity = 0 \/ side = 0 THEN L
    ELSE [L EXCEPT !.journal = @ - quantity * side,
                   !.toNet[side] = @ + quantity]

\* _add_credit: the newest MaxCredits are kept.
AddCredit(L, seq, quantity, side) ==
    IF quantity = 0 \/ side = 0 THEN L
    ELSE LET all == Append(L.credits,
                           [seq |-> seq, qty |-> quantity, side |-> side])
         IN  [L EXCEPT !.credits =
                 SubSeq(all, Larger(Len(all) - MaxCredits, 0) + 1, Len(all))]

\* _note_room, and the reset of the room before it.
Foreign(leg, share, side) == OnSide(leg, side) - OnSide(share, side)
NoteRoom(L, leg) ==
    [L EXCEPT !.room =
        [side \in Sides |-> Smaller(@[side], Foreign(leg, L.share, side))]]
NoteRoomIf(proven, L, leg) == IF proven THEN NoteRoom(L, leg) ELSE L
ResetRoom(L, leg) ==
    [L EXCEPT !.room = [side \in Sides |-> Foreign(leg, L.share, side)]]

\* _add_gap: beyond MaxGaps the two oldest merge into one that never completes.
AddGap(L, gap) ==
    LET all == Append(L.gaps, gap)
        merged == [all[2] EXCEPT !.start = Unset, !.startLeg = all[2].endLeg,
                                 !.events = {}, !.settled = FALSE,
                                 !.doubt = all[1].doubt + all[2].doubt]
    IN  [L EXCEPT !.gaps = IF Len(all) <= MaxGaps THEN all
                           ELSE <<merged>> \o SubSeq(all, 3, Len(all))]

\* LegGap.holds and _gap_of: 0 without one.  Unset, below every seq, is the
\* start of a gap whose past is not known.
Holds(gap, seq) == gap.start < seq /\ seq <= gap.end
GapOf(L, seq) ==
    LET holding == {i \in DOMAIN L.gaps : Holds(L.gaps[i], seq)}
    IN  IF holding = {} THEN 0 ELSE Min(holding)

\* An own step whose leg could not hold the share it built, a foreign step,
\* the clamp of a give-up.
ClippedOutcome(e, clipped) ==
    [id |-> e.id, own |-> TRUE, consumed |-> 0, doubtful |-> 0,
     clipped |-> clipped, proven |-> TRUE]
ForeignOutcome(e, consumed, doubtful, proven) ==
    [id |-> e.id, own |-> FALSE, consumed |-> consumed,
     doubtful |-> doubtful, clipped |-> 0, proven |-> proven]
BookedOutcome(consumed) ==
    [id |-> Unset, own |-> TRUE, consumed |-> consumed, doubtful |-> 0,
     clipped |-> 0, proven |-> FALSE]

-----------------------------------------------------------------------------
(***************************************************************************)
(* Recording                                                               *)
(***************************************************************************)

\* A view repeating size and updatedTime of the newest one.
Echo(L, v) ==
    /\ L.newest # NoView
    /\ v.upd # Unset
    /\ v.seq > L.newest.seq
    /\ v.size = L.newest.size
    /\ v.upd = L.newest.upd

Newest(L, v) ==
    IF L.newest # NoView /\ v.seq < L.newest.seq THEN L.newest
    ELSE IF v.upd = Unset THEN NoView ELSE v

NewestViews(S) ==
    {v \in S : Cardinality({w \in S : w.seq >= v.seq}) <= MaxViews}

\* add_view
AddView(L, v) ==
    IF Echo(L, v) THEN L
    ELSE LET kept == {w \in L.views : w.seq # v.seq}
             view == [seq |-> v.seq, size |-> v.size]
         IN  [L EXCEPT !.newest = Newest(L, v),
                       !.views = IF Started(L) /\ v.seq <= L.cursor THEN @
                                 ELSE NewestViews(kept \union {view})]

\* add_event returns False for an execution at or behind the cursor.
Late(L, e) == Started(L) /\ e.seq <= L.cursor

\* add_event for the others; beyond MaxEvents an oldest one goes.
AddEvent(L, e) ==
    LET all == L.events \union {e}
        oldest == CHOOSE o \in all : \A f \in all : o.seq <= f.seq
    IN  [L EXCEPT !.events = IF Cardinality(all) <= MaxEvents THEN all
                             ELSE all \ {oldest}]

-----------------------------------------------------------------------------
(***************************************************************************)
(* Anchoring on the newest view: start                                     *)
(***************************************************************************)

Start(L, journalShare) ==
    LET view == CHOOSE v \in L.views : \A w \in L.views : w.seq <= v.seq
        share == journalShare - OwnBeyond(L, view.seq)
        held == Capped(share, view.size)
        clamped == Size(share) - Size(held)
        side == Direction(share)
        anchored ==
            ResetRoom([L EXCEPT
                !.cursor = view.seq, !.anchor = view.seq, !.leg = view.size,
                !.views = {view},
                !.events = {e \in @ : e.seq > view.seq},
                !.share = held, !.journal = share, !.doubt = 0, !.gaps = <<>>,
                !.blind = view.seq], view.size)
        clamp == AddCredit(AddDoubt(TakeJournal(anchored, clamped, side),
                                    view.seq, Size(held)),
                           view.seq, clamped, side)
        gap == [start |-> Unset, end |-> view.seq, startLeg |-> view.size,
                endLeg |-> view.size, share |-> held,
                journal |-> clamp.journal, doubt0 |-> 0, events |-> {},
                doubt |-> clamp.doubt, settled |-> FALSE]
    IN  IF L.views = {} THEN [led |-> L, out |-> <<>>]
        ELSE IF clamped = 0 THEN [led |-> anchored, out |-> <<>>]
        ELSE [led |-> IF clamp.doubt = 0 THEN clamp ELSE AddGap(clamp, gap),
              out |-> <<BookedOutcome(clamped)>>]

\* sync_journal
SyncJournal(L, journalShare) ==
    IF ~Started(L) THEN L
    ELSE LET journal == journalShare - OwnBeyond(L, L.cursor)
         IN  CapDoubt([L EXCEPT !.journal = journal,
                                !.share = Bounded(@, journal)])

-----------------------------------------------------------------------------
(***************************************************************************)
(* The walk of an interval: _walk                                          *)
(***************************************************************************)

\* The executions of an interval, oldest first; of those concluded together
\* the own ones first, then the foreign ones that grow the run's side.
Rank(L, e) ==
    IF e.own THEN 0 ELSE IF e.delta * Direction(L.share) >= 0 THEN 1 ELSE 2
Due(L, upTo) == {e \in L.events : L.cursor < e.seq /\ e.seq <= upTo}
DueInOrder(L, upTo) ==
    LET before(e, f) ==
            \/ e.seq < f.seq
            \/ e.seq = f.seq /\ Rank(L, e) < Rank(L, f)
            \/ e.seq = f.seq /\ Rank(L, e) = Rank(L, f) /\ e.id < f.id
    IN  Listed(Due(L, upTo), before)

\* One own execution: share and journal move alike, the share only as far as
\* the leg holds (proven) and never past the journal.
WalkOwn(L, leg, e, proven) ==
    LET journal == L.journal + e.share
        wanted == Bounded(L.share + e.share, journal)
        share == IF proven
                 THEN Bounded(Capped(L.share + e.share, leg), journal)
                 ELSE wanted
        clipped == Size(wanted) - Size(share)
        moved == CapDoubt([L EXCEPT !.journal = journal, !.share = share])
    IN  [led |-> NoteRoomIf(proven, moved, leg),
         out |-> IF clipped > 0 THEN <<ClippedOutcome(e, clipped)>> ELSE <<>>]

\* Mutant: the part of a foreign reduction that was in doubt is not told apart.
WalkForeignForgetsDoubt(L, leg, e, proven) ==
    LET side == Direction(L.share)
        share == Size(L.share)
        after == (leg + e.delta) * side
        consumed == IF proven /\ e.delta * side < 0
                    THEN Smaller(share, Pos(share - after)) ELSE 0
        taken == CapDoubt(TakeJournal([L EXCEPT !.share = @ - consumed * side],
                                      consumed, side))
    IN  [led |-> NoteRoomIf(proven, taken, leg + e.delta),
         out |-> <<ForeignOutcome(e, consumed, 0, proven)>>]

\* One foreign execution: a proven reduction of the run's side takes what it
\* leaves the leg short of the share, first from the part not in doubt.
WalkForeign(L, leg, e, proven) ==
    LET side == Direction(L.share)
        share == Size(L.share)
        after == (leg + e.delta) * side
        consumed == IF proven /\ e.delta * side < 0
                    THEN Smaller(share, Pos(share - after)) ELSE 0
        doubtful == consumed - Smaller(consumed, Pos(share - L.doubt - after))
        taken == TakeJournal([L EXCEPT !.share = @ - consumed * side,
                                       !.doubt = Pos(@ - doubtful)],
                             consumed, side)
        booked == CapDoubt(AddCredit(taken, L.doubtSeq, doubtful, side))
    IN  [led |-> NoteRoomIf(proven, booked, leg + e.delta),
         out |-> <<ForeignOutcome(e, consumed, doubtful, proven)>>]

Onwards(walked, leg, step) ==
    [led |-> step.led, leg |-> leg, out |-> walked.out \o step.out]
WalkOne(walked, e, proven) ==
    LET leg == walked.leg + e.delta
    IN  Onwards(walked, leg,
                IF e.own THEN WalkOwn(walked.led, leg, e, proven)
                ELSE WalkForeign(walked.led, walked.leg, e, proven))

\* The cursor moves onto the view the walk reached.
CursorOnto(walked, view, due, proven) ==
    LET moved == CapDoubt([walked.led EXCEPT
                     !.events = @ \ due,
                     !.views = {v \in @ : v.seq >= view.seq},
                     !.cursor = view.seq,
                     !.leg = view.size,
                     !.share = IF proven THEN Capped(@, view.size) ELSE @])
    IN  [led |-> NoteRoomIf(proven, moved, view.size), out |-> walked.out]

\* What the first n executions of a list leave.
WalkSteps(L, list, proven) ==
    LET after[n \in 0 .. Len(list)] ==
            IF n = 0 THEN [led |-> L, leg |-> L.leg, out |-> <<>>]
            ELSE WalkOne(after[n - 1], list[n], proven)
    IN  after
WalkAll(L, list, proven) == WalkSteps(L, list, proven)[Len(list)]

\* _walk: the executions up to the view are applied, then the cursor moves.
Walk(L, view, proven) ==
    CursorOnto(WalkAll(L, DueInOrder(L, view.seq), proven),
               view, Due(L, view.seq), proven)

-----------------------------------------------------------------------------
(***************************************************************************)
(* Judging the complete intervals: advance                                 *)
(***************************************************************************)

\* Clamp what the unproven walk left, and keep the interval in case its missing
\* executions arrive.
ReAnchor(L, first, walk) ==
    LET side == Direction(walk.led.share)
        before == Size(walk.led.share)
        held == OnSide(first.size, side)
        clamped == IF side # 0 THEN Pos(before - held) ELSE 0
        share == before - clamped
        clamp == AddDoubt(
                     AddCredit(
                         TakeJournal([walk.led EXCEPT !.share = share * side],
                                     clamped, side),
                         first.seq, clamped, side),
                     first.seq, share)
        gap == [start |-> L.cursor, end |-> first.seq, startLeg |-> L.leg,
                endLeg |-> first.size, share |-> L.share,
                journal |-> L.journal, doubt0 |-> L.doubt,
                events |-> Due(L, first.seq), doubt |-> share,
                settled |-> FALSE]
        kept == IF share > 0 THEN AddGap(clamp, gap) ELSE clamp
    IN  [led |-> ResetRoom([kept EXCEPT !.blind = first.seq], first.size),
         out |-> Append(walk.out, BookedOutcome(clamped))]

\* _give_up: re-anchor on the first view beyond the cursor.
GiveUp(L, first) == ReAnchor(L, first, Walk(L, first, FALSE))

\* LegGap.complete
Complete(gap, known) ==
    /\ gap.start # Unset
    /\ gap.end \in known
    /\ gap.startLeg + DeltaIn(gap.events) = gap.endLeg

\* A complete gap walked again from its start, on the journal changes its own
\* executions stand for.
Rewalk(gap) ==
    Walk([NewLedger EXCEPT
             !.cursor = gap.start, !.leg = gap.startLeg, !.share = gap.share,
             !.journal = gap.journal, !.doubt = gap.doubt0,
             !.events = {IF e.own
                         THEN [e EXCEPT !.share = OwnShare(e), !.credit = 0]
                         ELSE e : e \in gap.events}],
         [seq |-> gap.end, size |-> gap.endLeg], TRUE).out

\* Mutant: a gap is settled without looking at what its executions took.
NeverGuessed(out) == FALSE

\* The give-up guessed: a foreign execution in the gap took share of the run,
\* or an own one was clipped.
Guessed(out) == \E i \in DOMAIN out : out[i].consumed > 0 \/ out[i].clipped > 0

ReleaseGap(judged, i, walked) ==
    LET L == judged.led
        rest == RemoveAt(L.gaps, i)
        sum == Total([n \in DOMAIN rest |-> rest[n].doubt], DOMAIN rest)
        verdicts == SelectSeq(walked, LAMBDA o : ~o.own)
    IN  [led |-> IF Guessed(walked)
                 THEN [L EXCEPT !.gaps[i].settled = TRUE]
                 ELSE CapDoubt([L EXCEPT !.gaps = rest,
                                         !.doubt = Smaller(@, sum)]),
         out |-> judged.out \o [n \in DOMAIN verdicts |->
                                   [verdicts[n] EXCEPT !.proven = FALSE]]]

SettleGap(judged, gap, known) ==
    LET gaps == judged.led.gaps
        at == {i \in DOMAIN gaps :
                  gaps[i].start = gap.start /\ gaps[i].end = gap.end}
    IN  IF at = {} \/ gap.settled \/ ~Complete(gap, known) THEN judged
        ELSE ReleaseGap(judged, Min(at), Rewalk(gap))

\* _settle_gaps
SettleSteps(L, known) ==
    LET after[n \in 0 .. Len(L.gaps)] ==
            IF n = 0 THEN [led |-> L, out |-> <<>>]
            ELSE SettleGap(after[n - 1], L.gaps[n], known)
    IN  after
SettleGaps(L, known) == SettleSteps(L, known)[Len(L.gaps)]

\* The views beyond the cursor the evidence closes the interval up to.
Later(L) == {v \in L.views : v.seq > L.cursor}
\* Mutant: a matching sum is enough, whoever stamped the view.
MatchesSumOnly(L, v, known) == ExpectedLeg(L, v.seq) = v.size
Matches(L, v, known) == v.seq \in known /\ ExpectedLeg(L, v.seq) = v.size
Provable(L, known) ==
    {v \in Later(L) :
        \A w \in Later(L) : w.seq <= v.seq => Matches(L, w, known)}
Furthest(S) == CHOOSE v \in S : \A w \in S : w.seq <= v.seq
First(S) == CHOOSE v \in S : \A w \in S : v.seq <= w.seq

\* One round of the loop of advance.  expired: an interval seen open before
\* has outlasted the grace; one first seen open now has not.
GoOn(judged, step) ==
    [led |-> step.led, out |-> judged.out \o step.out, done |-> FALSE]
Stop(judged, L) == [led |-> L, out |-> judged.out, done |-> TRUE]
AdvanceRound(judged, known, provable, expired) ==
    LET L == [judged.led EXCEPT !.waiting = FALSE]
        target == IF provable THEN Provable(L, known) ELSE {}
    IN  IF judged.done THEN judged
        ELSE IF Later(L) = {} THEN Stop(judged, L)
        ELSE IF target # {} THEN GoOn(judged, Walk(L, Furthest(target), TRUE))
        ELSE IF judged.led.waiting /\ expired
        THEN GoOn(judged, GiveUp(L, First(Later(L))))
        ELSE Stop(judged, [L EXCEPT !.waiting = TRUE])

\* advance: every round moves the cursor onto a later view, so the loop ends
\* within as many rounds as there are views.
Rounds(L) == Cardinality(L.views) + 1
JudgeRounds(settled, known, provable, expired) ==
    LET after[n \in 0 .. Rounds(settled.led)] ==
            IF n = 0
            THEN [led |-> settled.led, out |-> settled.out, done |-> FALSE]
            ELSE AdvanceRound(after[n - 1], known, provable, expired)
    IN  after
Judged(settled, known, provable, expired) ==
    JudgeRounds(settled, known, provable, expired)[Rounds(settled.led)]
Advance(L, known, provable, expired) ==
    IF ~Started(L) THEN [led |-> L, out |-> <<>>, done |-> TRUE]
    ELSE Judged(IF provable THEN SettleGaps(L, known)
                ELSE [led |-> L, out |-> <<>>],
                known, provable, expired)

-----------------------------------------------------------------------------
(***************************************************************************)
(* Executions behind the cursor                                            *)
(***************************************************************************)

\* Mutant: a late own fill keeps everything it built.
KeptOfAll(grown, room) == grown

\* What a late own execution keeps of the share it builds: the room of its
\* side, the least foreign exposure at any step walked since blind.
KeptOf(grown, room) == Smaller(grown, Pos(room))

\* The doubt a late own reduce resolves: it is what the doubt waited for.
Resolved(L, e) ==
    IF e.seq <= L.doubtSeq THEN Pos(-(e.share * Direction(L.share))) ELSE 0

\* The execution joins the given-up interval it falls into, if one is kept.
JoinGap(L, e, resolved) ==
    LET at == GapOf(L, e.seq)
    IN  IF at = 0 THEN L
        ELSE [L EXCEPT !.gaps[at].events = @ \union {e},
                       !.gaps[at].doubt = Pos(@ - resolved)]

\* The kept part of a late fill is in doubt: released with the interval the
\* ledger re-anchored behind, or never.
DoubtKept(L, e, kept) ==
    LET at == GapOf(L, e.seq)
        never == [start |-> Unset, end |-> L.cursor, startLeg |-> L.leg,
                  endLeg |-> L.leg, share |-> L.share, journal |-> L.journal,
                  doubt0 |-> L.doubt, events |-> {}, doubt |-> kept,
                  settled |-> FALSE]
        completes == at # 0 /\ L.gaps[at].start # Unset
                            /\ L.gaps[at].end = L.blind
        held == IF completes
                THEN [L EXCEPT !.gaps[at].doubt = @ + kept]
                ELSE AddGap(L, never)
    IN  IF kept = 0 \/ e.seq = L.blind THEN L
        ELSE AddDoubt(held, L.blind, kept)

\* late_own
LateOwn(L, e) ==
    LET was == Direction(L.share)
        journal == L.journal + e.share
        wanted == Bounded(L.share + e.share, journal)
        side == Direction(wanted)
        same == IF side = was THEN Smaller(Size(L.share), Size(wanted)) ELSE 0
        shrunk == Size(L.share) - same
        grown == Size(wanted) - same
        room == [s \in Sides |->
                    IF s = was /\ e.seq <= L.blind THEN L.room[s] + shrunk
                    ELSE L.room[s]]
        kept == IF grown > 0 THEN KeptOf(grown, room[side]) ELSE 0
        resolved == Resolved(L, e)
        moved == [JoinGap(L, e, resolved) EXCEPT
                     !.journal = journal,
                     !.doubt = Pos(@ - resolved),
                     !.room = [s \in Sides |->
                                  room[s] - (IF s = side THEN kept ELSE 0)],
                     !.share = @ - shrunk * was + kept * side]
        booked == AddCredit(TakeJournal(moved, grown - kept, side),
                            L.cursor, grown - kept, side)
    IN  [led |-> CapDoubt(DoubtKept(booked, e, kept)),
         out |-> IF grown > kept THEN <<BookedOutcome(grown - kept)>>
                 ELSE <<>>]

\* late_foreign: TRUE when a given-up interval still kept takes it.
HeldLate(L, e) ==
    LET at == GapOf(L, e.seq) IN at # 0 /\ L.gaps[at].start # Unset
LateForeign(L, e) == JoinGap(L, e, 0)

-----------------------------------------------------------------------------
(***************************************************************************)
(* Credits: share reductions booked ahead of an own reduce                 *)
(***************************************************************************)

\* take_credit: [led, taken], the oldest credits first; a spent one goes.
UseCredit(used, c, seq, quantity, side) ==
    LET part == IF seq <= c.seq /\ c.side = side
                THEN Smaller(c.qty, quantity - used.taken) ELSE 0
    IN  [left |-> IF c.qty > part
                  THEN Append(used.left, [c EXCEPT !.qty = @ - part])
                  ELSE used.left,
         taken |-> used.taken + part]
CreditSteps(credits, seq, quantity, side) ==
    LET after[n \in 0 .. Len(credits)] ==
            IF n = 0 THEN [left |-> <<>>, taken |-> 0]
            ELSE UseCredit(after[n - 1], credits[n], seq, quantity, side)
    IN  after
TakeCredit(L, seq, quantity, side) ==
    LET used == CreditSteps(L.credits, seq, quantity, side)[Len(L.credits)]
    IN  [led |-> [L EXCEPT !.credits = used.left],
         taken |-> used.taken]
=============================================================================
