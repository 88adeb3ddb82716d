------------------------------ MODULE ExitBracket ------------------------------
(***************************************************************************)
(* An exit of the strategy becomes two venue orders, a limit (tp) and a    *)
(* stop (sl), placed one after the other.  Half a bracket is no bracket:   *)
(* when the second leg finds its id spent the first must be rolled back    *)
(* before the engine places everything again under fresh ids; when a leg   *)
(* is refused, or the rollback proves nothing, the position is flattened   *)
(* and what still rests is found through the journal.                      *)
(*                                                                         *)
(* One exit id of one entry.  An order is named by its leg and by the      *)
(* generation of the envelope its id is built from.  A cancel the venue    *)
(* accepted takes effect later: until then the order may fill.             *)
(* The engine (core) is external: it re-anchors a spent bracket, answers a *)
(* refused one with the defensive close and the residual cancels, changes  *)
(* legs by cancel and recreate under the pinned ids, and uses the same     *)
(* exit id for the bracket of the next entry.                              *)
(***************************************************************************)
EXTENDS Integers, FiniteSets

CONSTANTS
    MaxIds,      \* bound of the generations
    Qty,         \* size of the entry, and of each leg
    MaxFaults,   \* bound of lost answers, failed reads and refusals
    MaxChanges,  \* bound of the engine's changes and cancels
    SlowCancel   \* a recreate may adopt the order whose cancel is still to come

ASSUME BracketAssumption ==
    /\ MaxIds \in Nat \ {0} /\ Qty \in Nat \ {0}
    /\ MaxFaults \in Nat /\ MaxChanges \in Nat /\ SlowCancel \in BOOLEAN

VARIABLES
    status,   \* venue: the status of an order
    exec,     \* venue: its executed quantity
    doomed,   \* venue: live orders whose cancel is accepted and not yet carried out
    wire,     \* create requests of unknown fate that may still land
    fresh,    \* venue: orders that carry the levels the intent wants now
    held,     \* venue: what is left of the entry's position
    row,      \* durable: the state of an order's journal row
    open,     \* durable: orders whose row is live
    gen,      \* the generation of the envelope
    shape,    \* the legs the intent has
    pc,       \* where the plugin is
    placed,   \* legs this call of _execute_exit has placed
    reopened, \* the row of the leg being placed was closed before
    todo,     \* orders this cancel or amend still has to visit
    close,    \* size of the defensive close still to send
    basis,    \* what it is sized by: an order at its end, one that lives, or nothing
    outcome,  \* what execute_cancel_with_outcome has found so far
    faults,
    changes

venueVars  == <<status, exec, doomed, wire, fresh, held>>
rowVars    == <<row, open>>
escVars    == <<close, basis>>
callVars   == <<placed, reopened, todo, outcome>>
intentVars == <<gen, shape, changes>>
vars == <<venueVars, rowVars, escVars, callVars, intentVars, pc, faults>>

Legs   == {"tp", "sl"}
Orders == Legs \X (1 .. MaxIds)

TypeOK ==
    /\ status \in [Orders -> {"none", "live", "filled", "dead"}]
    /\ exec \in [Orders -> 0 .. Qty] /\ held \in 0 .. Qty
    /\ doomed \subseteq Orders /\ wire \subseteq Orders /\ fresh \subseteq Orders
    /\ row \in [Orders -> {"none", "submitted", "unknown", "confirmed", "rejected"}]
    /\ open \subseteq Orders
    /\ gen \in 1 .. MaxIds /\ shape \in SUBSET Legs \ {{}}
    /\ pc \in {"place", "posted", "rollback", "reread", "recancel", "confirm",
               "spent", "placed", "parked", "escalated", "recreate", "amend",
               "mixed", "cancel", "cancelled"}
    /\ placed \subseteq Legs /\ todo \subseteq Orders
    /\ reopened \in BOOLEAN
    /\ close \in 0 .. Qty /\ basis \in {"none", "final", "moving", "blind"}
    /\ outcome \in {"confirmed", "filled", "unknown"}
    /\ faults \in 0 .. MaxFaults /\ changes \in 0 .. MaxChanges

Init ==
    /\ status = [o \in Orders |-> "none"] /\ exec = [o \in Orders |-> 0]
    /\ doomed = {} /\ wire = {} /\ fresh = {} /\ held = Qty
    /\ row = [o \in Orders |-> "none"] /\ open = {}
    /\ gen = 1 /\ shape \in SUBSET Legs \ {{}}
    /\ pc = "place" /\ placed = {} /\ reopened = FALSE /\ todo = {}
    /\ close = 0 /\ basis = "none" /\ outcome = "unknown"
    /\ faults = 0 /\ changes = 0

Fault  == faults < MaxFaults /\ faults' = faults + 1
Change == changes < MaxChanges /\ changes' = changes + 1

(***************************************************************************)
(* The venue.                                                              *)
(***************************************************************************)
Live(o) == status[o] = "live"

\* An order executes one unit; nothing reduces more than the position.
Fill(o) ==
    /\ Live(o) /\ held > 0
    /\ exec' = [exec EXCEPT ![o] = @ + 1] /\ held' = held - 1
    /\ IF exec[o] + 1 = Qty
       THEN status' = [status EXCEPT ![o] = "filled"] /\ doomed' = doomed \ {o}
       ELSE UNCHANGED <<status, doomed>>
    /\ UNCHANGED <<wire, fresh, rowVars, escVars, callVars, intentVars, pc, faults>>

Dies(o) ==
    /\ Live(o) /\ status' = [status EXCEPT ![o] = "dead"] /\ doomed' = doomed \ {o}
    /\ UNCHANGED <<exec, wire, fresh, held, rowVars, escVars, callVars, intentVars, pc, faults>>

\* An accepted cancel is carried out.
Kill(o) == o \in doomed /\ Dies(o)

\* The venue ends a leg whose position is gone (derivatives; on spot it rests on).
VenueCancel(o) == held = 0 /\ Dies(o)

\* A create whose answer was lost lands late, or never.
LateCreate(o) ==
    /\ o \in wire /\ wire' = wire \ {o}
    /\ \/ /\ status[o] = "none" /\ held > 0
          /\ status' = [status EXCEPT ![o] = "live"] /\ fresh' = fresh \cup {o}
       \/ UNCHANGED <<status, fresh>>
    /\ UNCHANGED <<exec, doomed, held, rowVars, escVars, callVars, intentVars, pc, faults>>

\* A cancel request the venue answers: a live order is to end, any other is not found.
Doom(o) == doomed' = IF Live(o) THEN doomed \cup {o} ELSE doomed

(***************************************************************************)
(* Order pushes.                                                           *)
(***************************************************************************)
CloseRow(o) == open' = open \ {o} /\ UNCHANGED row

\* _translate_order_rows, _retire_cancelled_row: a leg's row is closed at once.
CancelPush(o) ==
    /\ status[o] = "dead" /\ o \in open /\ CloseRow(o)
    /\ UNCHANGED <<venueVars, escVars, callVars, intentVars, pc, faults>>

\* _fill_event: the row of a leg is done once it is fully filled.
BookFill(o) ==
    /\ status[o] = "filled" /\ o \in open /\ CloseRow(o)
    /\ UNCHANGED <<venueVars, escVars, callVars, intentVars, pc, faults>>

(***************************************************************************)
(* _execute_exit: one leg after the other.                                 *)
(***************************************************************************)
NextLeg == IF "tp" \in shape \ placed THEN "tp" ELSE "sl"
Current == <<NextLeg, gen>>
Whole   == shape \subseteq placed

\* Mutant: the row is written with the venue's answer only.
PersistLate(o) ==
    row' = [row EXCEPT ![o] = "submitted"] /\ UNCHANGED open

\* _persist_leg_row: durable before the request; a closed row is opened again.
PersistLegRow(o) ==
    row' = [row EXCEPT ![o] = "submitted"] /\ open' = open \cup {o}

\* _place_exit_leg up to the request.
SendLeg ==
    /\ pc = "place" /\ ~Whole /\ pc' = "posted"
    /\ PersistLegRow(Current)
    /\ reopened' = (row[Current] # "none" /\ Current \notin open)
    /\ UNCHANGED <<venueVars, escVars, placed, todo, outcome, intentVars, faults>>

LegPlaced ==
    /\ row' = [row EXCEPT ![Current] = "confirmed"] /\ UNCHANGED open
    /\ placed' = placed \cup {NextLeg} /\ pc' = "place"
    /\ UNCHANGED <<escVars, reopened, todo, outcome, intentVars>>

LegAccepted ==
    /\ pc = "posted" /\ status[Current] = "none" /\ held > 0
    /\ status' = [status EXCEPT ![Current] = "live"]
    /\ fresh' = fresh \cup {Current} /\ wire' = wire \ {Current}
    /\ LegPlaced /\ UNCHANGED <<exec, doomed, held, faults>>

\* _order_post, a duplicate whose original lives or has filled: it is adopted.
LegAdopted ==
    /\ pc = "posted" /\ status[Current] \in {"live", "filled"}
    /\ Current \in doomed => SlowCancel
    /\ LegPlaced /\ UNCHANGED <<venueVars, faults>>

\* OrderDispositionUnknownError: no answer, or the original of a duplicate cannot
\* be read.  The dispatch is parked: the engine verifies it (not modelled).
LegUnknown ==
    /\ pc = "posted" /\ Fault
    /\ row' = [row EXCEPT ![Current] = "unknown"] /\ UNCHANGED open
    /\ wire' = IF status[Current] = "none" THEN wire \cup {Current} ELSE wire
    /\ pc' = "parked"
    /\ UNCHANGED <<status, exec, doomed, fresh, held, escVars, callVars, intentVars>>

RejectRow(o) == row' = [row EXCEPT ![o] = "rejected"] /\ open' = open \ {o}

\* Mutant: any refusal counts as proof that the position is gone.
AlwaysMoot == 0

\* The venue refuses because the position is gone (retCode 110017), or for another reason.
RefusedSize == IF held = 0 THEN 0 ELSE Qty

\* BracketAttachAfterFillRejectedError: the engine flattens what is unprotected.
Escalate(size, by) == pc' = "escalated" /\ close' = size /\ basis' = by

LegRefused ==
    /\ pc = "posted" /\ status[Current] = "none" /\ Current \notin wire
    /\ \/ held = 0 /\ UNCHANGED faults
       \/ held > 0 /\ Fault
    /\ RejectRow(Current) /\ Escalate(RefusedSize, "blind")
    /\ UNCHANGED <<venueVars, callVars, intentVars>>

\* The original is dead, or created well before the row that was opened again.
OriginalIsSpent(o) == status[o] = "dead" \/ (reopened /\ status[o] # "none")

\* What the call has placed is rolled back before the error goes up.
AfterSpent == IF placed = {} THEN "spent" ELSE "rollback"

\* ClientOrderIdSpentError.
LegSpent ==
    /\ pc = "posted" /\ OriginalIsSpent(Current)
    /\ RejectRow(Current) /\ pc' = AfterSpent
    /\ UNCHANGED <<venueVars, escVars, callVars, intentVars, faults>>

\* The call returns the legs.
LegsReturned ==
    /\ pc = "place" /\ Whole /\ pc' = "placed"
    /\ UNCHANGED <<venueVars, rowVars, escVars, callVars, intentVars, faults>>

(***************************************************************************)
(* _rollback_spent_sibling.                                                *)
(***************************************************************************)
\* The leg placed before the spent one.
Sibling == <<"tp", gen>>

\* An accepted cancel, or one of an order that is not found, is read back.
RollbackCancel ==
    /\ pc \in {"rollback", "recancel"} /\ Doom(Sibling) /\ pc' = "confirm"
    /\ UNCHANGED <<status, exec, wire, fresh, held, rowVars, escVars, callVars, intentVars, faults>>

\* The answer is lost: the order is read back, the second time it is given up.
RollbackUnknown ==
    /\ pc \in {"rollback", "recancel"} /\ Fault
    /\ Doom(Sibling) \/ UNCHANGED doomed
    /\ IF pc = "rollback" THEN pc' = "reread" /\ UNCHANGED escVars ELSE Escalate(Qty, "blind")
    /\ UNCHANGED <<status, exec, wire, fresh, held, rowVars, callVars, intentVars>>

\* A quarantine refuses the cancel before it is sent.
RollbackQuarantined ==
    /\ pc \in {"rollback", "recancel"} /\ Fault /\ Escalate(Qty, "blind")
    /\ UNCHANGED <<venueVars, rowVars, callVars, intentVars>>

\* Mutant: a partly executed order that is dead counts as rolled back.
DeadIsEnough(o) == IF status[o] = "dead" THEN "gone" ELSE IF exec[o] > 0 THEN "executed" ELSE "open"

\* _rollback_readback.
Readback(o) ==
    IF exec[o] > 0 THEN "executed" ELSE IF status[o] = "dead" THEN "gone" ELSE "open"

\* What the rollback found executed is not closed again.
Unexecuted(o) == Qty - exec[o]

\* The verdict is clear: nothing of the sibling is left or executed, or the close
\* is sized to what it left.
RollbackVerdict ==
    /\ pc \in {"reread", "confirm"} /\ UNCHANGED faults
    /\ \/ /\ Readback(Sibling) = "gone"
          /\ CloseRow(Sibling) /\ pc' = "spent"
          /\ UNCHANGED escVars
       \/ /\ Readback(Sibling) = "executed"
          /\ Escalate(Unexecuted(Sibling), IF Live(Sibling) THEN "moving" ELSE "final")
          /\ UNCHANGED <<rowVars>>
    /\ UNCHANGED <<venueVars, placed, reopened, todo, outcome, intentVars>>

\* After an accepted cancel the fill state stays unproven.
Unproven == Escalate(Qty, "blind")

\* The order still lives, or cannot be read.
RollbackUndecided ==
    /\ pc \in {"reread", "confirm"}
    /\ \/ Readback(Sibling) = "open" /\ UNCHANGED faults
       \/ Fault
    /\ IF pc = "reread" THEN pc' = "recancel" /\ UNCHANGED escVars ELSE Unproven
    /\ UNCHANGED <<venueVars, rowVars, callVars, intentVars>>

(***************************************************************************)
(* What the engine does with the outcome.                                  *)
(***************************************************************************)
\* A spent bracket is placed again under fresh ids.
Reanchor ==
    /\ pc = "spent" /\ gen < MaxIds
    /\ gen' = gen + 1 /\ placed' = {} /\ pc' = "place"
    /\ UNCHANGED <<venueVars, rowVars, escVars, reopened, todo, outcome,
                   shape, changes, faults>>

\* execute_close with the size of the error, capped by the position.
DefensiveClose ==
    /\ pc = "escalated" /\ close > 0
    /\ held' = (IF close < held THEN held - close ELSE 0) /\ close' = 0
    /\ UNCHANGED <<status, exec, doomed, wire, fresh, rowVars, basis, callVars,
                   intentVars, pc, faults>>

\* Mutant: residuals are those of the envelope that failed.
ResidualsOfCall == {o \in open : row[o] = "confirmed" /\ o[2] = gen /\ o[1] \notin placed}

\* get_residual_orders_after_bracket_attach_reject: rows with an exchange id.
Residuals == {o \in open : row[o] = "confirmed"}

\* cancel_broker_order_ref; what is not found is gone.
CancelResidual(o) ==
    /\ pc = "escalated" /\ o \in Residuals /\ o \notin doomed /\ Doom(o)
    /\ UNCHANGED <<status, exec, wire, fresh, held, rowVars, escVars, callVars,
                   intentVars, pc, faults>>

\* The entry is opened again and its exit uses the same id.
NewTrade ==
    /\ pc \in {"placed", "mixed", "cancelled", "escalated"} /\ Change
    /\ held = 0 /\ close = 0 /\ gen < MaxIds
    /\ \A o \in Orders : ~Live(o) /\ (status[o] = "filled" => o \notin open)
    /\ gen' = gen + 1 /\ held' = Qty /\ shape' \in SUBSET Legs \ {{}}
    /\ pc' = "place" /\ placed' = {} /\ basis' = "none" /\ outcome' = "unknown"
    /\ UNCHANGED <<status, exec, doomed, wire, fresh, rowVars, close, reopened,
                   todo, faults>>

(***************************************************************************)
(* Cancels and changes of a placed bracket.                                *)
(***************************************************************************)
\* _live_coids_for_cancel: an order whose row is closed is not addressed.
LiveLegs == open

\* modify_exit with other legs: the base class cancels and places anew, under
\* the pinned ids.
ChangeShape ==
    /\ pc \in {"placed", "mixed"} /\ Change
    /\ shape' \in SUBSET Legs \ {{}, shape} /\ fresh' = {}
    /\ todo' = LiveLegs /\ pc' = "recreate"
    /\ UNCHANGED <<status, exec, doomed, wire, held, rowVars, escVars, placed,
                   reopened, outcome, gen, faults>>

\* execute_cancel, _cancel_by_coid: not found is benign, the row is closed at once.
CancelLeg(o) ==
    /\ pc = "recreate" /\ o \in todo /\ todo' = todo \ {o}
    /\ Doom(o) /\ CloseRow(o)
    /\ UNCHANGED <<status, exec, wire, fresh, held, escVars, placed, reopened, 
                   outcome, intentVars, pc, faults>>

\* The answer to one of them is lost; the engine cancels again.
CancelLegUnknown(o) ==
    /\ pc = "recreate" /\ o \in todo /\ Fault /\ Live(o) /\ Doom(o)
    /\ UNCHANGED <<status, exec, wire, fresh, held, rowVars, escVars, callVars,
                   intentVars, pc>>

Recreate ==
    /\ pc = "recreate" /\ todo = {} /\ placed' = {} /\ pc' = "place"
    /\ UNCHANGED <<venueVars, rowVars, escVars, reopened, todo, outcome,
                   intentVars, faults>>

\* modify_exit with the same legs: each is amended, the tp first.
ChangeLevels ==
    /\ pc \in {"placed", "mixed"} /\ Change
    /\ fresh' = {} /\ todo' = shape \X {gen} /\ pc' = "amend"
    /\ UNCHANGED <<status, exec, doomed, wire, held, rowVars, escVars, placed,
                   reopened, outcome, gen, shape, faults>>

NextAmend == IF <<"tp", gen>> \in todo THEN <<"tp", gen>> ELSE <<"sl", gen>>

AmendLeg ==
    /\ pc = "amend" /\ todo # {} /\ Live(NextAmend)
    /\ fresh' = fresh \cup {NextAmend} /\ todo' = todo \ {NextAmend}
    /\ UNCHANGED <<status, exec, doomed, wire, held, rowVars, escVars, placed,
                   reopened, outcome, intentVars, pc, faults>>

\* Mutant: a leg that is gone is passed over.
SkipGone == todo' = todo \ {NextAmend} /\ UNCHANGED pc

\* _amend_or_none found no order: everything is cancelled and placed anew.
RecreateAll == todo' = LiveLegs /\ pc' = "recreate"

AmendGone ==
    /\ pc = "amend" /\ todo # {} /\ ~Live(NextAmend) /\ RecreateAll
    /\ UNCHANGED <<venueVars, rowVars, escVars, placed, reopened, outcome,
                   intentVars, faults>>

\* A refused amend, or one without an answer, ends the call; legs before it keep
\* their new levels.
AmendFails ==
    /\ pc = "amend" /\ todo # {} /\ Fault /\ pc' = "mixed"
    /\ \/ Live(NextAmend) /\ fresh' = fresh \cup {NextAmend}
       \/ UNCHANGED fresh
    /\ UNCHANGED <<status, exec, doomed, wire, held, rowVars, escVars, callVars, intentVars>>

Amended ==
    /\ pc = "amend" /\ todo = {} /\ pc' = "placed"
    /\ UNCHANGED <<venueVars, rowVars, escVars, callVars, intentVars, faults>>

\* execute_cancel_with_outcome of the exit.
Withdraw ==
    /\ pc \in {"placed", "mixed", "cancelled"} /\ Change
    /\ todo' = LiveLegs /\ pc' = "cancel"
    /\ outcome' = IF LiveLegs = {} THEN "unknown" ELSE "confirmed"
    /\ UNCHANGED <<venueVars, rowVars, escVars, placed, reopened, gen, shape, faults>>

\* Mutant: the last leg decides.
LastAnswer(answer) == answer

\* A fill dominates, then any doubt.
Worse(answer) ==
    IF "filled" \in {outcome, answer} THEN "filled"
    ELSE IF "unknown" \in {outcome, answer} THEN "unknown" ELSE "confirmed"

\* _cancel_outcome_for: an accepted cancel, or the order's end as it is read back.
CancelOutcome(o) ==
    /\ pc = "cancel" /\ o \in todo /\ todo' = todo \ {o} /\ Doom(o)
    /\ outcome' = Worse(IF status[o] = "filled" THEN "filled"
                        ELSE IF status[o] = "none" THEN "unknown" ELSE "confirmed")
    /\ IF status[o] \in {"live", "dead"} THEN CloseRow(o) ELSE UNCHANGED rowVars
    /\ UNCHANGED <<status, exec, wire, fresh, held, escVars, placed, reopened, 
                   intentVars, pc, faults>>

\* No clear answer, or the order cannot be read back.
CancelDoubtful(o) ==
    /\ pc = "cancel" /\ o \in todo /\ Fault /\ todo' = todo \ {o}
    /\ Doom(o) \/ UNCHANGED doomed
    /\ outcome' = Worse("unknown")
    /\ UNCHANGED <<status, exec, wire, fresh, held, rowVars, escVars, placed, reopened,
                   intentVars, pc>>

Withdrawn ==
    /\ pc = "cancel" /\ todo = {} /\ pc' = "cancelled"
    /\ UNCHANGED <<venueVars, rowVars, escVars, callVars, intentVars, faults>>

(***************************************************************************)
(* Behaviours.                                                             *)
(***************************************************************************)
Venue == \E o \in Orders : Fill(o) \/ Kill(o) \/ VenueCancel(o) \/ LateCreate(o)
Pushes == \E o \in Orders : CancelPush(o) \/ BookFill(o)

Place ==
    \/ SendLeg \/ LegAccepted \/ LegAdopted \/ LegUnknown \/ LegRefused
    \/ LegSpent \/ LegsReturned
Rollback ==
    \/ RollbackCancel \/ RollbackUnknown \/ RollbackQuarantined
    \/ RollbackVerdict \/ RollbackUndecided
Aftermath ==
    \/ Reanchor \/ DefensiveClose \/ NewTrade
    \/ \E o \in Orders : CancelResidual(o)
Changes ==
    \/ ChangeShape \/ Recreate \/ ChangeLevels \/ AmendLeg \/ AmendGone \/ AmendFails
    \/ Amended \/ Withdraw \/ Withdrawn
    \/ \E o \in Orders : CancelLeg(o) \/ CancelLegUnknown(o) \/ CancelOutcome(o)
                        \/ CancelDoubtful(o)

Next == Venue \/ Pushes \/ Place \/ Rollback \/ Aftermath \/ Changes

Spec == Init /\ [][Next]_vars

\* The venue carries out a cancel, the engine sends the defensive close and
\* cancels what is enumerated.
Fairness ==
    /\ WF_vars(DefensiveClose)
    /\ \A o \in Orders : WF_vars(CancelResidual(o)) /\ WF_vars(Kill(o))

LiveSpec == Spec /\ Fairness

(***************************************************************************)
(* Properties.                                                             *)
(***************************************************************************)
\* Whatever the process is doing when it stops, an order that rests at the venue,
\* or that may still land, is found through a live row of the journal
\* (execution.py:735-757), unless its cancel was accepted.
Traceable == \A o \in Orders : Live(o) \/ o \in wire => o \in open \cup doomed

\* When the spent error goes up, what this call had placed is dead and never executed;
\* and once the engine places everything again under fresh ids, no order of an
\* earlier envelope rests beside it (execution.py:1127-1205, 2062-2138).
FreshBracketAlone ==
    /\ pc = "spent" =>
          \A leg \in placed : status[<<leg, gen>>] = "dead" /\ exec[<<leg, gen>>] = 0
    /\ \A o \in Orders : o[2] < gen /\ Live(o) => o \in doomed

\* The defensive close leaves nothing of the position open, and when it is sized
\* by an order that has ended it takes exactly what that order left
\* (execution.py:1142-1174).
DefensiveSize ==
    /\ pc = "escalated" /\ close > 0 => close >= held
    /\ pc = "escalated" /\ close = 0 => held = 0
    /\ basis = "final" /\ close > 0 => close + exec[Sibling] = Qty

\* When the call returns, every leg of the intent was placed or amended under an id
\* of this envelope with the levels wanted now, or has filled: none that died
\* before is passed over (execution.py:2455-2608).
PlacedIsWhole ==
    pc = "placed" =>
        \A leg \in shape : <<leg, gen>> \in fresh \/ status[<<leg, gen>>] = "filled"

\* The disposition of a cancel is about the bracket it addresses: lost to a fill only
\* when a leg of it has filled, confirmed only when none of it rests on
\* (execution.py:1940-1962, 2141-2182).
CancelOutcomeSound ==
    /\ outcome = "filled" => \E leg \in Legs : status[<<leg, gen>>] = "filled"
    /\ pc = "cancelled" /\ outcome = "confirmed" =>
          \A o \in Orders : Live(o) => o \in doomed

\* After an escalation the position is flat and nothing rests, in the end: every
\* leg left behind is among the residuals (execution.py:2693-2717).
EscalationEnds ==
    pc = "escalated" ~> held = 0 /\ \A o \in Orders : ~Live(o)

\* The docstring of the rollback: the close is sized to the confirmed residual.
ConfirmedResidual ==
    pc = "escalated" /\ basis \in {"final", "moving"} /\ close > 0 =>
        close + exec[Sibling] <= Qty
================================================================================
