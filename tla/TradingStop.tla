------------------------------ MODULE TradingStop ------------------------------
(***************************************************************************)
(* A trailing exit on a one-way derivative account is no order but an      *)
(* attribute of the position: the trading stop.  When it fires the venue   *)
(* closes the whole leg, foreign exposure merged into it included, with an *)
(* order that carries no id of the run.  What proves the executions to be  *)
(* the run's are the ownership rows it wrote before each attach.  They     *)
(* arrive late, or after a restart, when the rows may be gone.             *)
(*                                                                         *)
(* A row is one attach: its exit and a generation.  Executions are         *)
(* numbered; a row was live at execution i when it was written before i    *)
(* and released at i or after (born, shut).  Other parties add to the leg  *)
(* and take from it (MaxForeign).  The order legs of an exit without a     *)
(* trail are ExitBracket's; the ledger's credits are HedgeLeg's.           *)
(***************************************************************************)
EXTENDS Integers, FiniteSets, Sequences, FiniteSetsExt

CONSTANTS
    Exits,       \* exits, each of an entry of its own
    MaxGens,     \* bound of the attaches of an exit
    Qty,         \* size of an entry
    MaxForeign,  \* bound of the foreign exposure
    MaxEntries,  \* bound of the entries
    MaxExecs,    \* bound of the executions of fired stops
    MaxFaults,   \* bound of lost answers, refusals and failed reads
    MaxCrashes,
    None,
    Beyond       \* what the code does not survive: see README

ASSUME StopAssumption ==
    /\ IsFiniteSet(Exits) /\ None \notin Exits \X (1 .. MaxGens)
    /\ Qty \in Nat \ {0} /\ MaxGens \in Nat \ {0}
    /\ {MaxForeign, MaxEntries, MaxExecs, MaxFaults, MaxCrashes} \subseteq Nat
    /\ Beyond \subseteq {"crash", "refusal", "pieces", "cancel", "later", "entry", "early"}

Rows == Exits \X (1 .. MaxGens)
Execs == 1 .. MaxExecs
MaxLeg == MaxEntries * Qty

VARIABLES
    run,      \* venue: the run's part of the leg
    foreign,  \* venue: the rest of it
    stop,     \* venue: the attach whose values the position carries
    firing,   \* venue: the fired stop whose order still fills, 0 without one
    execs,    \* venue: executions, each [order, qty, part], part being the run's
    wire,     \* an attach of unknown fate that may still land
    own,      \* durable: the state of the ownership rows
    born,     \* durable: executions before a row was written
    shut,     \* durable: executions before it was released
    journal,  \* durable: what the entry rows own
    claim,    \* durable: what was booked of an execution
    trail,    \* durable: executions an attribution recorded
    entered,  \* exits whose entry the engine holds
    trusts,   \* exits the engine was told are attached
    handled,  \* executions the process has seen, or that lie behind its floor
    pc,       \* where the plugin is
    cur,      \* the row being attached or cleared
    sup,      \* rows it supersedes
    prior,    \* the state the row had before
    since,    \* executions when the attach began
    spent     \* entries, faults and crashes so far

venueVars == <<run, foreign, stop, firing, execs, wire>>
rowVars   == <<own, born, shut>>
bookVars  == <<journal, claim, trail, handled>>
callVars  == <<cur, sup, prior, since>>
engVars   == <<entered, trusts>>
vars == <<venueVars, rowVars, bookVars, callVars, engVars, pc, spent>>

TypeOK ==
    /\ run \in 0 .. MaxLeg /\ foreign \in 0 .. MaxForeign
    /\ stop \in Rows \cup {None} /\ wire \in Rows \cup {None}
    /\ execs \in Seq([order : Execs, qty : 1 .. MaxLeg + MaxForeign, part : 0 .. MaxLeg])
    /\ firing \in 0 .. MaxExecs
    /\ own \in [Rows -> {"none", "active", "released"}]
    /\ born \in [Rows -> 0 .. MaxExecs] /\ shut \in [Rows -> 0 .. MaxExecs]
    /\ journal \in 0 .. MaxLeg /\ claim \in [Execs -> 0 .. MaxLeg]
    /\ trail \subseteq Execs /\ handled \subseteq Execs
    /\ entered \subseteq Exits /\ trusts \subseteq Exits
    /\ pc \in {"idle", "posted", "reread", "retry", "confirm", "escalated", "clear", "down"}
    /\ cur \in Rows \cup {None} /\ sup \subseteq Rows
    /\ prior \in {"none", "active", "released"} /\ since \in 0 .. MaxExecs
    /\ spent \in [entries : 0 .. MaxEntries, faults : 0 .. MaxFaults, crashes : 0 .. MaxCrashes]

Init ==
    /\ run = 0 /\ foreign = 0 /\ stop = None /\ wire = None /\ firing = 0 /\ execs = <<>>
    /\ own = [r \in Rows |-> "none"]
    /\ born = [r \in Rows |-> 0] /\ shut = [r \in Rows |-> 0]
    /\ journal = 0 /\ claim = [i \in Execs |-> 0] /\ trail = {} /\ handled = {}
    /\ entered = {} /\ trusts = {} /\ pc = "idle"
    /\ cur = None /\ sup = {} /\ prior = "none" /\ since = 0
    /\ spent = [entries |-> 0, faults |-> 0, crashes |-> 0]

Fault == spent.faults < MaxFaults /\ spent' = [spent EXCEPT !.faults = @ + 1]

Known    == 1 .. Len(execs)
Leg      == run + foreign
Active   == {r \in Rows : own[r] = "active"}
OwnersOf(x) == {r \in Active : r[1] = x}

\* The sum of f over S.
SumOver(f, S) == MapThenSumSet(LAMBDA i : f[i], S)

(***************************************************************************)
(* The venue.                                                              *)
(***************************************************************************)
\* The engine withdraws an exit whose entry was closed before it goes on.
Withdrawn == \A r \in Active : r[1] \in entered

\* An entry fills and is booked.  A stop that closed foreign exposure and is delivered
\* later takes of it ("entry"); of three exits, one attached after a stop that closed but
\* the run's is delivered may be refused its own ("early").
Enter(x) ==
    /\ pc = "idle" /\ firing = 0 /\ x \notin entered
    /\ \/ "entry" \in Beyond \/ handled = Known
       \/ "early" \in Beyond /\ \A i \in Known : execs[i].part = execs[i].qty
    /\ Withdrawn
    /\ spent.entries < MaxEntries /\ spent' = [spent EXCEPT !.entries = @ + 1]
    /\ run' = run + Qty /\ journal' = journal + Qty /\ entered' = entered \cup {x}
    /\ UNCHANGED <<foreign, stop, firing, execs, wire, rowVars, claim, trail, handled,
                   callVars, trusts, pc>>

\* Others trade on the leg; a flat position has no trading stop.
ForeignTrade ==
    /\ firing = 0 /\ foreign' \in {foreign - 1, foreign + 1} \cap 0 .. MaxForeign
    /\ stop' = IF run + foreign' = 0 THEN None ELSE stop
    /\ UNCHANGED <<run, firing, execs, wire, rowVars, bookVars, callVars, engVars, pc, spent>>

\* An order of a fired stop executes, as a whole or in part; the time between is short
\* ("pieces": several exits share the stop, or a row is written or released in between).
Executes(order) ==
    \E q \in 1 .. Leg :
        /\ q = Leg \/ (Len(execs) + 1 < MaxExecs
                       /\ (Cardinality(Active) <= 1 \/ "pieces" \in Beyond))
        /\ LET part == Min({q, run}) IN
            /\ execs' = Append(execs, [order |-> order, qty |-> q, part |-> part])
            /\ run' = run - part /\ foreign' = foreign - (q - part)
        /\ firing' = IF q = Leg THEN 0 ELSE order

Fire ==
    /\ stop # None /\ firing = 0 /\ Leg > 0 /\ Len(execs) < MaxExecs
    /\ Executes(Len(execs) + 1) /\ stop' = None
    /\ UNCHANGED <<wire, rowVars, bookVars, callVars, engVars, pc, spent>>

FireFills ==
    /\ firing # 0 /\ Executes(firing)
    /\ UNCHANGED <<stop, wire, rowVars, bookVars, callVars, engVars, pc, spent>>

\* A write of unknown fate lands late or never, and before a later one is answered.
LateLand ==
    /\ wire # None /\ wire' = None
    /\ stop' \in IF Leg > 0 /\ firing = 0 THEN {stop, wire} ELSE {stop}
    /\ UNCHANGED <<run, foreign, firing, execs, rowVars, bookVars, callVars, engVars, pc, spent>>

(***************************************************************************)
(* Ownership rows.                                                         *)
(***************************************************************************)
\* _release_netting_ownership.
Release(rs) ==
    /\ own' = [r \in Rows |-> IF r \in rs THEN "released" ELSE own[r]]
    /\ shut' = [r \in Rows |-> IF r \in rs THEN Len(execs) ELSE shut[r]]
    /\ UNCHANGED born

\* Mutant: the rows of the replaced stop stay released.
RestoreOwnOnly ==
    /\ own' = [own EXCEPT ![cur] = IF prior = "none" THEN "released" ELSE prior]
    /\ shut' = [shut EXCEPT ![cur] = Len(execs)]
    /\ UNCHANGED born

\* restore_ownership: the row goes back to what it was, what it superseded is active;
\* a reopened row counts from now.
Restore ==
    /\ own' = [r \in Rows |->
                 IF r = cur THEN IF prior = "none" THEN "released" ELSE prior
                 ELSE IF r \in sup THEN "active" ELSE own[r]]
    /\ shut' = [shut EXCEPT ![cur] = Len(execs)]
    /\ born' = [r \in Rows |-> IF r \in sup THEN Len(execs) ELSE born[r]]

\* No stop fired in between, and none is undelivered ("refusal": a reopened row is new).
Undisturbed ==
    "refusal" \in Beyond \/ (since = Len(execs) /\ (sup = {} \/ handled = Known))

(***************************************************************************)
(* _execute_exit_trading_stop.                                             *)
(***************************************************************************)
\* One transaction: the new row is active, the rows of the replaced stop are released.
HandOver(x, r) ==
    /\ own' = [q \in Rows |-> IF q = r THEN "active"
                              ELSE IF q \in OwnersOf(x) THEN "released" ELSE own[q]]
    /\ shut' = [q \in Rows |-> IF q \in OwnersOf(x) \ {r} THEN Len(execs) ELSE shut[q]]

\* The attach of a new envelope, or the same one again after a restart.  (A row that was
\* refused and is written anew counts as another: its first life spans nothing.)
Attach(x, r) ==
    /\ pc = "idle" /\ x \in entered /\ r[1] = x /\ own[r] # "released"
    /\ Withdrawn /\ (firing = 0 \/ "pieces" \in Beyond)
    /\ handled = Known \/ Active \subseteq OwnersOf(x) \/ "later" \in Beyond
    /\ \A g \in 1 .. r[2] - 1 : own[<<x, g>>] # "none"
    /\ \A g \in r[2] + 1 .. MaxGens : own[<<x, g>>] = "none"
    /\ pc' = "posted" /\ cur' = r /\ sup' = OwnersOf(x) \ {r}
    /\ prior' = own[r] /\ since' = Len(execs)
    /\ HandOver(x, r)
    /\ born' = IF own[r] = "active" THEN born ELSE [born EXCEPT ![r] = Len(execs)]
    /\ UNCHANGED <<venueVars, bookVars, engVars, spent>>

Return(ok) ==
    /\ pc' = IF ok THEN "idle" ELSE "escalated"
    /\ trusts' = IF ok THEN trusts \cup {cur[1]} ELSE trusts
    /\ cur' = None /\ sup' = {} /\ prior' = "none" /\ UNCHANGED <<since, entered>>

CanWrite == Leg > 0 /\ firing = 0

\* The write is accepted, or the venue has these values already (retCode 34040).
AttachLands ==
    /\ pc = "posted" /\ CanWrite /\ stop' = cur /\ wire' = None
    /\ Return(TRUE)
    /\ UNCHANGED <<run, foreign, firing, execs, rowVars, bookVars, spent>>

\* VenueWritesQuarantinedError: nothing left the client.
AttachQuarantined ==
    /\ pc = "posted" /\ Fault
    /\ Undisturbed /\ Restore
    /\ pc' = "idle" /\ cur' = None /\ sup' = {} /\ prior' = "none"
    /\ UNCHANGED <<venueVars, bookVars, engVars, since>>

\* The position is gone: the exit is moot.
AttachMoot ==
    /\ pc = "posted" /\ Leg = 0 /\ Release({cur})
    /\ pc' = "idle" /\ cur' = None /\ sup' = {} /\ prior' = "none"
    /\ trusts' = trusts \ {cur[1]} /\ wire' = None
    /\ UNCHANGED <<run, foreign, stop, firing, execs, bookVars, since, entered, spent>>

\* A definitive reject.
AttachRefused ==
    /\ pc = "posted" /\ Fault
    /\ Undisturbed /\ Restore /\ Return(FALSE)
    /\ UNCHANGED <<venueVars, bookVars>>

\* A write without a clear answer has landed, will land, or is lost.
Ambiguous ==
    \/ CanWrite /\ stop' = cur /\ UNCHANGED wire
    \/ wire' = cur /\ UNCHANGED stop

AttachAmbiguous ==
    /\ pc = "posted" /\ Fault /\ Ambiguous /\ pc' = "reread"
    /\ UNCHANGED <<run, foreign, firing, execs, rowVars, bookVars, callVars, engVars>>

\* _trading_stop_attached: the position shows exactly these values.
Reread ==
    /\ pc \in {"reread", "confirm"}
    /\ \/ stop = cur /\ Return(TRUE) /\ wire' = None
       \/ stop # cur /\ pc = "confirm" /\ Return(FALSE) /\ UNCHANGED wire
       \/ stop # cur /\ pc = "reread" /\ pc' = "retry" /\ UNCHANGED <<callVars, engVars, wire>>
    /\ UNCHANGED <<run, foreign, stop, firing, execs, rowVars, bookVars, spent>>

RereadFails ==
    /\ pc \in {"reread", "confirm"} /\ Fault
    /\ IF pc = "confirm" THEN Return(FALSE) ELSE pc' = "retry" /\ UNCHANGED <<callVars, engVars>>
    /\ UNCHANGED <<venueVars, rowVars, bookVars>>

\* One retry; any other answer leaves the first write's outcome unknown.
RetryLands ==
    /\ pc = "retry" /\ CanWrite /\ stop' = cur /\ pc' = "confirm"
    /\ UNCHANGED <<run, foreign, firing, execs, wire, rowVars, bookVars, callVars, engVars, spent>>

\* Mutant: what stays unresolved is released.
RetryGivesUp == Release({cur})

\* The row stays active, for the attach may have landed.
RetryUnresolved == UNCHANGED rowVars

RetryFails ==
    /\ pc = "retry"
    /\ \/ Leg = 0 /\ UNCHANGED <<stop, wire, spent>>
       \/ Fault /\ (Ambiguous \/ UNCHANGED <<stop, wire>>)
    /\ RetryUnresolved /\ Return(FALSE)
    /\ UNCHANGED <<run, foreign, firing, execs, bookVars>>

\* The engine flattens the run's position at once, and counts on no exit any more.
DefensiveFlatten ==
    /\ pc = "escalated" /\ firing = 0 /\ handled = Known
    /\ run' = 0 /\ journal' = 0 /\ entered' = {} /\ trusts' = {} /\ pc' = "idle"
    /\ stop' = IF foreign = 0 THEN None ELSE stop
    /\ UNCHANGED <<foreign, firing, execs, wire, rowVars, claim, trail, handled, callVars, spent>>

(***************************************************************************)
(* _clear_owned_trading_stop, _modify_trading_stop_exit without a trail.   *)
(***************************************************************************)
\* Clearing one of several exits takes the stop of them all.
Clear(x) ==
    /\ pc = "idle" /\ OwnersOf(x) # {}
    /\ trusts \subseteq {x} \/ "cancel" \in Beyond
    /\ cur' = (CHOOSE r \in OwnersOf(x) : TRUE) /\ pc' = "clear" /\ wire' = None
    /\ UNCHANGED <<run, foreign, stop, firing, execs, rowVars, bookVars, sup, prior, since,
                   engVars, spent>>

\* Cleared, clear already, or no position: the row is released.
ClearDone ==
    /\ pc = "clear" /\ (firing = 0 \/ "pieces" \in Beyond) /\ stop' = None /\ Release({cur})
    /\ pc' = "idle" /\ cur' = None /\ trusts' = trusts \ {cur[1]}
    /\ UNCHANGED <<run, foreign, firing, execs, wire, bookVars, sup, prior, since, entered, spent>>

\* No clear answer, or a refusal: the row stays, the engine tries again.
ClearFails ==
    /\ pc = "clear" /\ Fault /\ stop' \in {stop, None} /\ UNCHANGED rowVars
    /\ pc' = "idle" /\ cur' = None
    /\ trusts' = IF stop' = None THEN trusts \ {cur[1]} ELSE trusts
    /\ UNCHANGED <<run, foreign, firing, execs, wire, bookVars, sup, prior, since, entered>>

(***************************************************************************)
(* Executions of fired stops.                                              *)
(***************************************************************************)
\* Mutant: only rows that are live when the execution arrives.
LiveOnly(i) == Active

\* _bracket_ownerships_live_at.
Owners(i) == Active \cup {r \in Rows : own[r] = "released" /\ born[r] < i /\ i <= shut[r]}

\* _venue_stop_claimed: what other executions of the order claimed.
Claimed(i) ==
    SumOver(claim, {j \in trail : j # i /\ execs[j].order = execs[i].order})

\* The run's part is its share of the leg, whatever the rows cover.
OwnPart(i) == Min({execs[i].qty, journal})

\* A partial execution of a stop several rows share is not guessed at.
Refused(i) ==
    LET total == Qty * Cardinality(Owners(i)) IN
    Cardinality(Owners(i)) > 1 /\ execs[i].qty < total /\ Claimed(i) < total

\* _attribute_venue_bracket_execution finds claims; the share is proven by the ledger.
Attributed(i) ==
    Owners(i) # {} /\ (journal > 0 \/ Claimed(i) > 0) /\ ~Refused(i)

\* _book_own_execution, or foreign activity.  A push, or the backfill for a lost one.
\* An active row written after the execution is a candidate too ("later").
Handle(i) ==
    /\ pc # "down" /\ i \in Known \ handled /\ handled' = handled \cup {i}
    /\ "later" \in Beyond \/ Cardinality(Owners(i)) <= 1 \/ \A r \in Active : born[r] < i
    /\ IF Attributed(i)
       THEN /\ trail' = trail \cup {i} /\ claim' = [claim EXCEPT ![i] = OwnPart(i)]
            /\ journal' = journal - OwnPart(i)
            /\ entered' = IF journal' = 0 THEN {} ELSE entered \ {r[1] : r \in Owners(i)}
            /\ trusts' = trusts \cap entered'
       ELSE UNCHANGED <<trail, claim, journal, engVars>>
    /\ UNCHANGED <<venueVars, rowVars, callVars, pc, spent>>

(***************************************************************************)
(* Crash and restart.                                                      *)
(***************************************************************************)
\* The memory is lost.  Rows released while a fired stop was undelivered
\* own nothing the adoption reads ("crash").
Crash ==
    /\ pc # "down" /\ spent.crashes < MaxCrashes
    /\ \/ "crash" \in Beyond
       \/ \A i \in Known \ handled : \E r \in Active : born[r] < i
    /\ pc' = "down" /\ cur' = None /\ sup' = {} /\ prior' = "none" /\ trusts' = {}
    /\ spent' = [spent EXCEPT !.crashes = @ + 1]
    /\ UNCHANGED <<venueVars, rowVars, bookVars, since, entered>>

\* _unbooked_venue_stop_executions from the watermark on.
Unbooked(wm) ==
    {i \in Known \ trail : i > wm /\ \E r \in Active : born[r] < i}

\* _apply_adoption_baseline: the stops that fired meanwhile are netted, what is owned
\* is clamped to the leg, and what was executed so far lies behind the floor.
Restart ==
    /\ pc = "down" /\ firing = 0 /\ pc' = "idle"
    /\ \E wm \in 0 .. Len(execs) :
        /\ 1 .. wm \subseteq handled
        /\ LET qty == [i \in Known |-> execs[i].qty]
               earlier(i) == {j \in Unbooked(wm) : j < i}
               left(i) == Max({0, journal - SumOver(qty, earlier(i))})
               all == Max({0, journal - SumOver(qty, Unbooked(wm))})
           IN /\ claim' = [i \in Execs |-> IF i \in Unbooked(wm)
                                           THEN Min({qty[i], left(i)}) ELSE claim[i]]
              /\ journal' = Min({all, Leg})
        /\ trail' = trail \cup Unbooked(wm)
        /\ entered' = IF journal' = 0 THEN {}
                      ELSE entered \ {r[1] : r \in {q \in Active : \E i \in Unbooked(wm) : born[q] < i}}
    /\ handled' = Known
    /\ UNCHANGED <<venueVars, rowVars, callVars, trusts, spent>>

(***************************************************************************)
(* Behaviours.                                                             *)
(***************************************************************************)
Venue == ForeignTrade \/ Fire \/ FireFills \/ LateLand \/ \E x \in Exits : Enter(x)

Attaching ==
    \/ AttachLands \/ AttachQuarantined \/ AttachMoot \/ AttachRefused \/ AttachAmbiguous
    \/ Reread \/ RereadFails \/ RetryLands \/ RetryFails \/ DefensiveFlatten
    \/ \E x \in Exits, r \in Rows : Attach(x, r)

Clearing == ClearDone \/ ClearFails \/ \E x \in Exits : Clear(x)

Next ==
    \/ Venue \/ Attaching \/ Clearing \/ Crash \/ Restart
    \/ \E i \in Execs : Handle(i)

Spec == Init /\ [][Next]_vars

(***************************************************************************)
(* Properties.                                                             *)
(***************************************************************************)
\* Whatever the process is doing when it stops: no exit has two active owners, and one
\* whose stop the position carries, or may still get, has one (execution.py:1290-1294).
OneActiveOwner ==
    /\ \A x \in Exits : Cardinality(OwnersOf(x)) <= 1
    /\ \A r \in {stop, wire} \ {None} : OwnersOf(r[1]) # {}

\* Once every execution of a fired stop was handled, in whatever order with attaches,
\* cancels, others' trades and a restart, the entry rows own what the run holds
\* (events.py:649-887, positions.py:811-835).
JournalSettles ==
    pc # "down" /\ firing = 0 /\ handled = Known => journal = run

\* While the engine counts on an attached exit and nothing is undelivered, the position
\* carries a stop of the run (execution.py:1275-1288, 1643-1665).
NotSilentlyBare ==
    pc = "idle" /\ firing = 0 /\ handled = Known /\ trusts # {} /\ run > 0 => stop # None
================================================================================
