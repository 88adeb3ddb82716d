-------------------------------- MODULE Dispatch --------------------------------
(***************************************************************************)
(* An entry of the strategy must become one venue order and no second one, *)
(* although the create request, its reply and the process can be lost at   *)
(* any point: the row is written before the request goes out, the          *)
(* orderLinkId is rebuilt from the durable envelope, a duplicate reject is *)
(* answered by looking the original up, and a dispatch whose fate is       *)
(* unknown is parked until the venue's answer by orderLinkId settles it.   *)
(*                                                                         *)
(* One intent.  Its ids are numbers in the order they are minted; a fresh  *)
(* id is minted on a later bar or when the engine re-anchors a spent one.  *)
(* The engine (core) is external: it dispatches an intent that is neither  *)
(* parked nor placed, parks one of unknown fate and re-anchors a spent id. *)
(* Id 1 may have been spent by an order of a prior instance whose position *)
(* is gone; its envelope was left behind.                                  *)
(*                                                                         *)
(* A tick is one interval of the reconcile cadence.  A create lands or is  *)
(* lost, and its order shows in the reads, within the interval: this is    *)
(* what the miss streak of the parked lookup stands on.                    *)
(***************************************************************************)
EXTENDS Integers, FiniteSets

CONSTANTS
    MaxIds,          \* bound of the minted ids
    MaxPosts,        \* bound of the create requests
    MaxTime,         \* bound of the clock
    MaxCrashes,      \* bound of the process crashes
    Grace,           \* _PARKED_DISPATCH_GRACE_S in ticks
    MissesToReject,  \* _PARKED_DISPATCH_MISSES_TO_REJECT
    Skew,            \* _SPENT_COID_SKEW_MS in ticks
    PartialCancel    \* the venue may cancel the rest of a partly filled order

ASSUME DispatchAssumption ==
    /\ MaxIds \in Nat \ {0} /\ MaxPosts \in Nat \ {0} /\ MaxTime \in Nat \ {0}
    /\ MissesToReject \in Nat \ {0}
    /\ MaxCrashes \in Nat /\ Grace \in Nat /\ Skew \in Nat
    /\ PartialCancel \in BOOLEAN
    /\ Skew + 2 <= MaxTime

VARIABLES
    now,       \* the clock
    status,    \* venue: the status of an id's order
    created,   \* venue: when it was created, 0 for an order of a prior instance
    shown,     \* venue: ids whose order the reads show
    wire,      \* create requests on their way
    posts,     \* requests sent so far, the number of the newest
    row,       \* durable: the state of an id's journal row
    closed,    \* durable: ids whose row is closed
    since,     \* durable: the creation instant of a row
    anchor,    \* durable: the id the intent's envelope rebuilds, 0 without an envelope
    parked,    \* durable: "waits" while the engine waits for the fate of the anchor's
               \* dispatch, "rejected" once the plugin recorded that resolution
    last,      \* the newest id minted
    up,        \* the process runs
    pc,        \* where the dispatch is
    reply,     \* answer to the newest request, when the process still waits for it
    misses,    \* _parked_lookup_misses
    looked,    \* parked rows this reconcile pass has looked up
    done,      \* the engine counts the intent as placed
    crashes

orderVars == <<status, created, shown>>
venueVars == <<now, status, created, shown, wire>>
rowVars   == <<row, closed, since>>
storeVars == <<row, closed, since, anchor, parked>>
procVars  == <<up, pc, reply, misses, looked, done>>
vars == <<venueVars, posts, storeVars, last, procVars, crashes>>

Ids == 1 .. MaxIds
Start == Skew + 2

TypeOK ==
    /\ now \in Start .. MaxTime
    /\ status \in [Ids -> {"none", "live", "filled", "partial", "dead"}]
    /\ created \in [Ids -> 0 .. MaxTime] /\ shown \subseteq Ids
    /\ wire \subseteq [id : Ids, n : 1 .. MaxPosts] /\ posts \in 0 .. MaxPosts
    /\ row \in [Ids -> {"none", "submitted", "unknown", "confirmed", "rejected"}]
    /\ closed \subseteq Ids /\ since \in [Ids -> 0 .. MaxTime]
    /\ anchor \in {0} \cup Ids /\ last \in {0} \cup Ids
    /\ parked \in {"no", "waits", "rejected"} /\ looked \subseteq Ids
    /\ up \in BOOLEAN /\ done \in BOOLEAN
    /\ pc \in {"idle", "posted"}
    /\ reply \in {"none", "ok", "reject", "duplicate"}
    /\ misses \in [Ids -> 0 .. MissesToReject - 1]
    /\ crashes \in 0 .. MaxCrashes

(***************************************************************************)
(* Orders of this run and of the prior instance.                           *)
(***************************************************************************)
Prior(i) == status[i] # "none" /\ created[i] = 0
Dead(i)  == status[i] \in {"dead", "partial"}
Fills(i) == status[i] \in {"filled", "partial"}
OpenRow(i) == row[i] # "none" /\ i \notin closed
Exposed(i) == ~Prior(i) /\ (status[i] = "live" \/ Fills(i))
Pending(i) == row[i] \in {"submitted", "unknown"} /\ i \notin closed

\* _duplicate_original_is_spent: the order was created well before the row.
OriginalIsSpent(i) ==
    row[i] # "none" /\ created[i] < since[i] - Skew

Init ==
    /\ now = Start
    /\ wire = {} /\ posts = 0
    /\ \E leftover \in BOOLEAN :
          /\ status = [i \in Ids |-> IF leftover /\ i = 1 THEN "filled" ELSE "none"]
          /\ shown = (IF leftover THEN {1} ELSE {})
          /\ anchor = (IF leftover THEN 1 ELSE 0)
          /\ last = anchor
    /\ created = [i \in Ids |-> 0]
    /\ row = [i \in Ids |-> "none"] /\ closed = {} /\ since = [i \in Ids |-> 0]
    /\ parked = "no"
    /\ up = TRUE /\ pc = "idle" /\ reply = "none"
    /\ misses = [i \in Ids |-> 0] /\ looked = {}
    /\ done = FALSE /\ crashes = 0

(***************************************************************************)
(* The venue.                                                              *)
(***************************************************************************)
\* A create has landed or is lost, and its order is shown.
Settled == wire = {} /\ \A i \in Ids : status[i] = "none" \/ i \in shown

ParkedRow(i) == row[i] = "unknown" /\ i \notin closed

\* The next interval, with its pass over the parked rows; the streak of a row
\* that is parked no more is forgotten.  The clock stops at its bound.
Tick ==
    /\ Settled
    /\ now' = IF now < MaxTime THEN now + 1 ELSE now
    /\ looked' = {}
    /\ misses' = [i \in Ids |-> IF ParkedRow(i) THEN misses[i] ELSE 0]
    /\ UNCHANGED <<orderVars, wire, posts, storeVars, last, up, pc, reply, done, crashes>>

Answer(m, kind) ==
    reply' = IF up /\ pc = "posted" /\ m.n = posts THEN kind ELSE reply

\* The venue books the order, refuses it, or knows the id already.
Land(m) ==
    /\ m \in wire /\ wire' = wire \ {m}
    /\ \/ /\ status[m.id] = "none"
          /\ status' = [status EXCEPT ![m.id] = "live"]
          /\ created' = [created EXCEPT ![m.id] = now]
          /\ Answer(m, "ok")
       \/ /\ status[m.id] = "none"
          /\ Answer(m, "reject") /\ UNCHANGED <<status, created>>
       \/ /\ status[m.id] # "none"
          /\ Answer(m, "duplicate") /\ UNCHANGED <<status, created>>
    /\ UNCHANGED <<now, shown, posts, storeVars, last, up, pc, misses, looked, done, crashes>>

LoseCreate(m) ==
    /\ m \in wire /\ wire' = wire \ {m}
    /\ UNCHANGED <<now, orderVars, posts, storeVars, last, procVars, crashes>>

Show(i) ==
    /\ status[i] # "none" /\ i \notin shown
    /\ shown' = shown \cup {i}
    /\ UNCHANGED <<now, status, created, wire, posts, storeVars, last, procVars, crashes>>

\* A live order fills, dies, or fills in part and dies.
End(i) ==
    /\ status[i] = "live"
    /\ \E s \in {"filled", "dead"} \cup (IF PartialCancel THEN {"partial"} ELSE {}) :
          status' = [status EXCEPT ![i] = s]
    /\ UNCHANGED <<now, created, shown, wire, posts, storeVars, last, procVars, crashes>>

(***************************************************************************)
(* Dispatch.                                                               *)
(***************************************************************************)
\* Without an envelope the id comes from the bar: the same as before or a new one.
Mintable == IF anchor # 0 THEN {anchor} ELSE {last, last + 1} \cap Ids

\* create_entry_order_row: a closed row is opened again, from now on.
Persist(i) ==
    /\ row' = [row EXCEPT ![i] = "submitted"]
    /\ closed' = closed \ {i}
    /\ since' = [since EXCEPT ![i] = IF row[i] = "none" \/ i \in closed THEN now ELSE @]

\* _place_entry_order up to the request: row and envelope are durable first.
PlaceEntryOrder ==
    /\ up /\ pc = "idle" /\ parked = "no" /\ ~done
    /\ posts < MaxPosts /\ now + Grace <= MaxTime
    /\ \E i \in Mintable :
          /\ anchor' = i /\ last' = i
          /\ Persist(i)
          /\ wire' = wire \cup {[id |-> i, n |-> posts + 1]}
    /\ posts' = posts + 1 /\ pc' = "posted" /\ reply' = "none"
    /\ UNCHANGED <<now, orderVars, parked, up, misses, looked, done, crashes>>

ConfirmRow(i) == row' = [row EXCEPT ![i] = "confirmed"] /\ UNCHANGED <<closed, since>>
RejectRow(i) ==
    /\ row' = [row EXCEPT ![i] = "rejected"] /\ closed' = closed \cup {i}
    /\ UNCHANGED since

\* The reply confirms the row.
Placed ==
    /\ up /\ pc = "posted" /\ reply = "ok"
    /\ ConfirmRow(anchor)
    /\ pc' = "idle" /\ done' = TRUE
    /\ UNCHANGED <<venueVars, posts, anchor, parked, last, up, reply,
                   misses, looked, crashes>>

\* A definitive reject: nothing is live, the engine drops the envelope.
Rejected ==
    /\ up /\ pc = "posted" /\ reply = "reject"
    /\ RejectRow(anchor)
    /\ anchor' = 0 /\ pc' = "idle"
    /\ UNCHANGED <<venueVars, posts, parked, last, up, reply, misses,
                   looked, done, crashes>>

\* OrderDispositionUnknownError: the row and the engine wait.
Park ==
    /\ row' = [row EXCEPT ![anchor] = "unknown"] /\ UNCHANGED <<closed, since>>
    /\ parked' = "waits" /\ pc' = "idle" /\ done' = FALSE
    /\ UNCHANGED <<anchor, last>>

\* The transport fails or the server answers that it does not know.
Ambiguous ==
    /\ up /\ pc = "posted"
    /\ Park
    /\ UNCHANGED <<venueVars, posts, up, reply, misses, looked,
                   crashes>>

\* ClientOrderIdSpentError: the engine re-anchors the envelope on a fresh id.
Spend(i) ==
    /\ RejectRow(i)
    /\ last' = IF last < MaxIds THEN last + 1 ELSE last
    /\ anchor' = IF last < MaxIds THEN last + 1 ELSE 0
    /\ pc' = "idle"
    /\ UNCHANGED <<parked, done>>

Adopt(i) ==
    /\ ConfirmRow(i)
    /\ pc' = "idle" /\ done' = TRUE
    /\ UNCHANGED <<parked, anchor, last>>

\* Mutant: the creation time of the original is not looked at.
SpentWhenDead(i) == Dead(i)

\* The venue knows the id and nothing is live under it.
Spent(i) == Dead(i) \/ OriginalIsSpent(i)

\* A duplicate reject: _order_post looks the original up by the id.
Duplicate ==
    /\ up /\ pc = "posted" /\ reply = "duplicate"
    /\ \/ anchor \in shown /\ Spent(anchor) /\ Spend(anchor)
       \/ anchor \in shown /\ ~Spent(anchor) /\ Adopt(anchor)
       \/ Park
    /\ UNCHANGED <<venueVars, posts, up, reply, misses, looked,
                   crashes>>

(***************************************************************************)
(* A parked dispatch.                                                      *)
(***************************************************************************)
\* What _resolve_parked_dispatches looks up, once a pass.
Due(i) == ParkedRow(i) /\ now - since[i] >= Grace /\ i \notin looked

\* _confirm_lookup: a prior instance's order is not this row's order.
Found(i) == i \in shown /\ ~OriginalIsSpent(i)

\* Mutant: one conclusive miss is enough.
FirstMiss(i) == ~Found(i)
\* Mutant: one miss more than configured.
MissTooMany(i) == ~Found(i) /\ misses[i] = MissesToReject
\* Mutant: an order found dead is left to the engine and the fill path.
OnlyMisses(i) == ~Found(i) /\ misses[i] + 1 = MissesToReject

\* Nothing of this dispatch exists: dead without fills, or missed often enough.
Hopeless(i) ==
    \/ Found(i) /\ status[i] = "dead"
    \/ ~Found(i) /\ misses[i] + 1 = MissesToReject

RejectParked(i) ==
    /\ RejectRow(i)
    /\ parked' = IF i = anchor /\ parked = "waits" THEN "rejected" ELSE parked
    /\ misses' = [misses EXCEPT ![i] = 0]

\* One lookup that came through.  A transport failure changes nothing.
ResolveParked(i) ==
    /\ up /\ Due(i) /\ looked' = looked \cup {i}
    /\ IF Hopeless(i) THEN RejectParked(i)
       ELSE /\ misses' = [misses EXCEPT ![i] = IF Found(i) THEN 0 ELSE @ + 1]
            /\ UNCHANGED <<rowVars, parked>>
    /\ UNCHANGED <<venueVars, posts, anchor, last, up, pc, reply, done, crashes>>

\* The engine consumes the resolution on its next sync: the envelope is dropped
\* and the intent dispatched anew.
ConsumeResolution ==
    /\ up /\ parked = "rejected"
    /\ parked' = "no" /\ anchor' = 0
    /\ UNCHANGED <<venueVars, posts, rowVars, last, procVars, crashes>>

\* The engine's verification finds the order among the open ones.
VerifyOpen ==
    /\ up /\ parked # "no" /\ status[anchor] = "live" /\ anchor \in shown
    /\ parked' = "no" /\ done' = TRUE
    /\ UNCHANGED <<venueVars, posts, rowVars, anchor, last, up, pc, reply,
                   misses, looked, crashes>>

\* _fill_event: a fill of the parked order proves that it landed.
FillUnparks ==
    /\ up /\ parked # "no" /\ Fills(anchor) /\ ~Prior(anchor)
    /\ parked' = "no" /\ done' = TRUE
    /\ UNCHANGED <<venueVars, posts, rowVars, anchor, last, up, pc, reply,
                   misses, looked, crashes>>

\* _translate_order_rows: the push of a cancel or reject retires the row.
DeadPush(i) ==
    /\ up /\ status[i] = "dead" /\ row[i] # "none"
    /\ closed' = closed \cup {i}
    /\ IF i = anchor /\ pc = "idle"
       THEN parked' = "no" /\ done' = FALSE /\ anchor' = 0
       ELSE UNCHANGED <<parked, done, anchor>>
    /\ UNCHANGED <<venueVars, posts, row, since, last, up, pc, reply, misses,
                   looked, crashes>>

(***************************************************************************)
(* Crash and restart.                                                      *)
(***************************************************************************)
Crash ==
    /\ up /\ crashes < MaxCrashes
    /\ up' = FALSE /\ crashes' = crashes + 1
    /\ pc' = "idle" /\ reply' = "none" /\ done' = FALSE
    /\ misses' = [i \in Ids |-> 0] /\ looked' = {}
    /\ UNCHANGED <<venueVars, posts, storeVars, last>>

\* _confirm_recovered_row promotes an order without fills, or one whose
\* executions can be read; a prior instance's are older than the row.
Promotable(i, readable) ==
    \/ status[i] = "live"
    \/ Fills(i) /\ readable /\ ~OriginalIsSpent(i)

\* The orphan passes, on a symbol read as flat: a confirmed row that no open
\* order backs is closed, an envelope without a live row is cleared.
Orphaned(i) == row[i] = "confirmed" /\ i \notin closed /\ status[i] # "live"

\* _recover_in_flight_submissions: each pending row is looked up, then the
\* orphans are retired when both snapshots could be read.
Restart ==
    /\ ~up /\ Settled
    /\ \E read \in SUBSET {i \in Ids : Pending(i) /\ i \in shown},
          readable \in BOOLEAN, flat \in BOOLEAN :
          LET promoted == {i \in read : Promotable(i, readable)}
              refused  == {i \in read : status[i] = "dead"}
              orphans  == IF flat THEN {i \in Ids : Orphaned(i)} ELSE {}
              keeps    == /\ refused \cup orphans = {}
                          /\ flat => anchor # 0 /\ OpenRow(anchor)
          IN  /\ flat => \A i \in Ids : ~(Fills(i) /\ ~Prior(i))
              /\ row' = [i \in Ids |-> IF i \in promoted THEN "confirmed"
                                       ELSE IF i \in refused THEN "rejected" ELSE row[i]]
              /\ closed' = closed \cup refused \cup orphans
              /\ anchor' = IF keeps THEN anchor ELSE 0
              /\ parked' = IF keeps /\ anchor \notin promoted THEN parked ELSE "no"
    /\ up' = TRUE
    /\ done' = (anchor' # 0 /\ anchor' \notin closed' /\ row'[anchor'] = "confirmed")
    /\ UNCHANGED <<venueVars, posts, since, last, pc, reply, misses, looked,
                   crashes>>

Requests == [id : Ids, n : 1 .. MaxPosts]
Venue == \/ Tick
         \/ \E m \in Requests : Land(m) \/ LoseCreate(m)
         \/ \E i \in Ids : Show(i) \/ End(i)
Engine == PlaceEntryOrder \/ Placed \/ Rejected \/ Ambiguous \/ Duplicate
Parked == \/ ConsumeResolution \/ VerifyOpen \/ FillUnparks
          \/ \E i \in Ids : ResolveParked(i) \/ DeadPush(i)
Next == Venue \/ Engine \/ Parked \/ Crash \/ Restart

Spec == Init /\ [][Next]_vars

\* The clock runs, requests end and orders are shown, the process is started
\* again and its tasks run.  A lookup may fail any number of times but not for
\* ever.  A fill reaches the process by push or by the backfill.
Fairness ==
    /\ WF_vars(Tick) /\ WF_vars(Restart)
    /\ \A m \in Requests : WF_vars(Land(m) \/ LoseCreate(m))
    /\ \A i \in Ids : WF_vars(Show(i)) /\ SF_vars(ResolveParked(i))
    /\ WF_vars(ConsumeResolution) /\ WF_vars(VerifyOpen) /\ WF_vars(FillUnparks)

LiveSpec == Spec /\ Fairness

-----------------------------------------------------------------------------
(***************************************************************************)
(* Properties                                                              *)
(***************************************************************************)
\* The intent never holds two orders that are live or carry fills: no
\* combination of a lost reply, a crash, a duplicate reject, a resolver's
\* rejection and a recovery makes the engine dispatch anew while an order
\* stands (_order_post, _resolve_parked_dispatches,
\* _recover_in_flight_submissions).
OneOrder == \A i, j \in Ids : Exposed(i) /\ Exposed(j) => i = j

\* What the engine counts as placed is an order of this run: never one that did
\* not land, nor one a prior instance placed under a spent id
\* (_duplicate_original_is_spent, _confirm_recovered_row).
PlacedIsReal == done => status[anchor] # "none" /\ ~Prior(anchor)

\* A row closed as rejected stands for nothing: its order, if any, is dead
\* without fills or a prior instance's (_reject_parked_dispatch,
\* _retire_recovered_rejected).
RejectedIsGone == \A i \in Ids : row[i] = "rejected" => ~Exposed(i)

\* A dispatch parked on an open row does not stay parked: it is verified,
\* filled or rejected (_resolve_parked_dispatches).
ParkResolves == parked = "waits" /\ ParkedRow(anchor) ~> parked # "waits"
=================================================================================
