----------------------------- MODULE DispatchProofs -----------------------------
(***************************************************************************)
(* Theorems about Dispatch, for every number of ids, requests and crashes. *)
(*                                                                         *)
(* The argument: only the newest id can have an order that stands, because *)
(* the engine goes on to the next id only where nothing of the last one    *)
(* exists or can still come into being (Gone).  What has to be shown is    *)
(* that each verdict "nothing exists" is right: the reject reply, the      *)
(* spent original, the streak of misses, the push of a dead order and the  *)
(* orphan passes of a restart.  The streak is right because its second     *)
(* miss comes an interval after the request: at least two are needed.      *)
(***************************************************************************)
EXTENDS Dispatch, TLAPS

\* Nothing of the id stands, and no request can change that.
Gone(i) ==
    \/ status[i] = "dead"
    \/ Prior(i)
    \/ status[i] = "none" /\ \A m \in wire : m.id # i

\* The id's request is on its way, or its order is not shown yet.
Unseen(i) ==
    \/ status[i] = "none" /\ \E m \in wire : m.id = i
    \/ status[i] # "none" /\ i \notin shown

\* The engine is at the newest id; the ids before it are done with, and so is the
\* newest one where no envelope is left.
IdsInv ==
    /\ anchor \in {0, last}
    /\ \A i \in Ids : i > last =>
          status[i] = "none" /\ row[i] = "none" /\ i \notin closed /\ misses[i] = 0
    /\ \A i \in Ids : i < last \/ anchor = 0 => Gone(i) /\ ~OpenRow(i)

\* An order that stands has an open row, which is not younger; a confirmed row
\* has an order of this run.
OrderInv ==
    \A i \in Ids :
        /\ status[i] # "partial"
        /\ status[i] = "none" => created[i] = 0 /\ i \notin shown
        /\ Prior(i) => status[i] = "filled"
        /\ created[i] <= now
        /\ row[i] # "none" => Start <= since[i] /\ since[i] <= now
        /\ row[i] = "rejected" => i \in closed
        /\ Exposed(i) => OpenRow(i) /\ since[i] <= created[i]
        /\ OpenRow(i) /\ row[i] = "confirmed" => status[i] # "none" /\ ~Prior(i)

\* A request that can still create an order is the only one of its id, its row is
\* open, and the process, when it runs, waits for the reply or is parked.
WireInv ==
    /\ \A m \in wire : m.id <= last /\ m.n <= posts
    /\ \A m \in wire : status[m.id] = "none" =>
          /\ OpenRow(m.id)
          /\ up => \/ pc = "posted" /\ reply = "none" /\ m.n = posts
                   \/ pc = "idle" /\ parked = "waits"
    /\ \A m, k \in wire : m.id = k.id /\ status[m.id] = "none" => m = k

\* While the reply is awaited, and what it says.
PostInv ==
    pc = "posted" =>
        /\ up /\ parked = "no" /\ ~done /\ anchor # 0
        /\ row[anchor] = "submitted"
        /\ \A m \in wire : m.n = posts => m.id = anchor
        /\ reply = "reject" => status[anchor] = "none" /\ \A m \in wire : m.id # anchor
        /\ reply \in {"ok", "duplicate"} => status[anchor] # "none"
        /\ reply = "ok" => ~Prior(anchor)

\* A park is over once nothing of its dispatch stands, or an order is found.
ParkInv ==
    /\ parked # "no" => anchor # 0 /\ pc = "idle" /\ ~done
    /\ parked = "waits" => row[anchor] = "unknown"
    /\ parked = "rejected" => /\ Gone(anchor) /\ row[anchor] = "rejected"
                              /\ misses[anchor] = 0
    /\ parked = "no" /\ last # 0 /\ status[last] = "none"
          => misses[last] = 0 /\ ~ParkedRow(last)

DoneInv ==
    done => up /\ pc = "idle" /\ anchor # 0 /\ status[anchor] # "none" /\ ~Prior(anchor)

\* Before an order shows, its streak has one miss at most, and that in this interval.
MissInv ==
    \A i \in Ids :
        /\ Unseen(i) /\ misses[i] # 0 => misses[i] = 1 /\ i \in looked
        /\ ~up => misses[i] = 0

Core == IdsInv /\ OrderInv /\ WireInv /\ PostInv /\ ParkInv /\ DoneInv /\ MissInv

-----------------------------------------------------------------------------
(***************************************************************************)
(* Type correctness.  Types alone are not inductive: a spent id is closed  *)
(* while a reply is handled, and it must be an id.                         *)
(***************************************************************************)
Posting == pc = "posted" => up /\ anchor # 0 /\ parked = "no"

LEMMA InitType == Init => TypeOK /\ Posting
<1>. SUFFICES ASSUME Init PROVE TypeOK /\ Posting
  OBVIOUS
<1>. USE DispatchAssumption DEF Ids, Start
<1>1. now \in Start .. MaxTime
  BY DEF Init
<1>2. /\ status \in [Ids -> {"none", "live", "filled", "partial", "dead"}]
      /\ created \in [Ids -> 0 .. MaxTime] /\ shown \subseteq Ids
  BY DEF Init
<1>3. wire \subseteq [id : Ids, n : 1 .. MaxPosts] /\ posts \in 0 .. MaxPosts
  BY DEF Init
<1>4. /\ row \in [Ids -> {"none", "submitted", "unknown", "confirmed", "rejected"}]
      /\ closed \subseteq Ids /\ since \in [Ids -> 0 .. MaxTime]
  BY DEF Init
<1>5. anchor \in {0} \cup Ids /\ last \in {0} \cup Ids
  BY DEF Init
<1>6. misses \in [Ids -> 0 .. MissesToReject - 1]
  BY DEF Init
<1>7. up \in BOOLEAN /\ done \in BOOLEAN
  BY DEF Init
<1>. QED  BY <1>1, <1>2, <1>3, <1>4, <1>5, <1>6, <1>7 DEF Init, TypeOK, Posting

LEMMA VenueType == TypeOK /\ Posting /\ Venue => TypeOK' /\ Posting'
<1>. SUFFICES ASSUME TypeOK, Posting, Venue PROVE TypeOK' /\ Posting'
  OBVIOUS
<1>. USE DispatchAssumption DEF Ids, Start, orderVars, storeVars, procVars
<1>1. CASE Tick
  BY <1>1 DEF Tick, TypeOK, Posting
<1>2. ASSUME NEW m \in Requests, Land(m) PROVE TypeOK' /\ Posting'
  <2>1. m.id \in Ids
    BY DEF Requests
  <2>2. UNCHANGED <<now, shown, posts, storeVars, last, up, pc, misses, looked, done, crashes>>
    BY <1>2 DEF Land
  <2>3. /\ status \in [Ids -> {"none", "live", "filled", "partial", "dead"}]
        /\ created \in [Ids -> 0 .. MaxTime] /\ now \in 0 .. MaxTime
    BY DEF TypeOK
  <2>4. \/ UNCHANGED <<status, created>>
        \/ /\ status' = [status EXCEPT ![m.id] = "live"]
           /\ created' = [created EXCEPT ![m.id] = now]
    BY <1>2 DEF Land
  <2>5. status' \in [Ids -> {"none", "live", "filled", "partial", "dead"}]
    BY <2>3, <2>4
  <2>6. created' \in [Ids -> 0 .. MaxTime]
    BY <2>3, <2>4
  <2>7. wire' \subseteq [id : Ids, n : 1 .. MaxPosts]
    BY <1>2 DEF Land, TypeOK
  <2>8. reply' \in {"none", "ok", "reject", "duplicate"}
    BY <1>2 DEF Land, Answer, TypeOK
  <2>. QED  BY <2>2, <2>5, <2>6, <2>7, <2>8 DEF TypeOK, Posting
<1>3. ASSUME NEW m \in Requests, LoseCreate(m) PROVE TypeOK' /\ Posting'
  BY <1>3 DEF LoseCreate, TypeOK, Posting
<1>4. ASSUME NEW i \in Ids, Show(i) PROVE TypeOK' /\ Posting'
  BY <1>4 DEF Show, TypeOK, Posting
<1>5. ASSUME NEW i \in Ids, End(i) PROVE TypeOK' /\ Posting'
  BY <1>5 DEF End, TypeOK, Posting
<1>. QED  BY <1>1, <1>2, <1>3, <1>4, <1>5 DEF Venue

LEMMA EngineType == TypeOK /\ Posting /\ Engine => TypeOK' /\ Posting'
<1>. SUFFICES ASSUME TypeOK, Posting, Engine PROVE TypeOK' /\ Posting'
  OBVIOUS
<1>. USE DispatchAssumption DEF Ids, Start, orderVars, venueVars
<1>1. CASE PlaceEntryOrder
  <2>1. PICK i \in Mintable :
          /\ anchor' = i /\ last' = i /\ Persist(i)
          /\ wire' = wire \cup {[id |-> i, n |-> posts + 1]}
    BY <1>1 DEF PlaceEntryOrder
  <2>2. i \in Ids
    BY <1>1 DEF Mintable, TypeOK
  <2>3. posts + 1 \in 1 .. MaxPosts /\ posts' \in 0 .. MaxPosts
    BY <1>1 DEF PlaceEntryOrder, TypeOK
  <2>4. wire' \subseteq [id : Ids, n : 1 .. MaxPosts]
    BY <2>1, <2>2, <2>3 DEF TypeOK
  <2>5. /\ row' \in [Ids -> {"none", "submitted", "unknown", "confirmed", "rejected"}]
        /\ closed' \subseteq Ids /\ since' \in [Ids -> 0 .. MaxTime]
    <3>1. /\ row \in [Ids -> {"none", "submitted", "unknown", "confirmed", "rejected"}]
          /\ closed \subseteq Ids /\ since \in [Ids -> 0 .. MaxTime] /\ now \in 0 .. MaxTime
      BY DEF TypeOK
    <3>2. row' \in [Ids -> {"none", "submitted", "unknown", "confirmed", "rejected"}]
      BY <2>1, <2>2, <3>1 DEF Persist
    <3>3. closed' \subseteq Ids
      BY <2>1, <3>1 DEF Persist
    <3>4. PICK t \in 0 .. MaxTime : since' = [since EXCEPT ![i] = t]
      BY <2>1, <2>2, <3>1 DEF Persist
    <3>5. since' \in [Ids -> 0 .. MaxTime]
      BY <3>1, <3>4
    <3>. QED  BY <3>2, <3>3, <3>5
  <2>6. /\ UNCHANGED <<now, status, created, shown, parked, up, misses, looked, done, crashes>>
        /\ up /\ pc' = "posted" /\ reply' = "none" /\ parked = "no"
        /\ anchor' \in Ids /\ last' \in Ids
    BY <1>1, <2>1, <2>2 DEF PlaceEntryOrder
  <2>7. Posting'
    BY <2>6 DEF Posting
  <2>. QED  BY <2>3, <2>4, <2>5, <2>6, <2>7 DEF TypeOK
<1>2. CASE Placed
  BY <1>2 DEF Placed, ConfirmRow, TypeOK, Posting
<1>3. CASE Rejected
  BY <1>3 DEF Rejected, RejectRow, TypeOK, Posting
<1>4. CASE Ambiguous
  BY <1>4 DEF Ambiguous, Park, TypeOK, Posting
<1>5. CASE Duplicate
  <2>1. UNCHANGED <<venueVars, posts, up, reply, misses, looked, crashes>>
        /\ pc' = "idle" /\ anchor \in Ids
    BY <1>5 DEF Duplicate, Spend, Adopt, Park, TypeOK, Posting
  <2>2. /\ row' \in [Ids -> {"none", "submitted", "unknown", "confirmed", "rejected"}]
        /\ closed' \subseteq Ids /\ UNCHANGED since
    BY <1>5, <2>1 DEF Duplicate, Spend, Adopt, Park, RejectRow, ConfirmRow, TypeOK
  <2>3. \/ UNCHANGED <<anchor, last>>
        \/ /\ last' = IF last < MaxIds THEN last + 1 ELSE last
           /\ anchor' = IF last < MaxIds THEN last + 1 ELSE 0
    BY <1>5 DEF Duplicate, Spend, Adopt, Park
  <2>4. anchor \in {0} \cup Ids /\ last \in {0} \cup Ids
    BY DEF TypeOK
  <2>5. anchor' \in {0} \cup Ids /\ last' \in {0} \cup Ids
    BY <2>3, <2>4
  <2>6. parked' \in {"no", "waits", "rejected"}
    BY <1>5 DEF Duplicate, Spend, Adopt, Park, TypeOK
  <2>7. done' \in BOOLEAN
    BY <1>5 DEF Duplicate, Spend, Adopt, Park, TypeOK
  <2>. QED  BY <2>1, <2>2, <2>5, <2>6, <2>7 DEF TypeOK, Posting
<1>. QED  BY <1>1, <1>2, <1>3, <1>4, <1>5 DEF Engine

LEMMA ParkedType == TypeOK /\ Posting /\ Parked => TypeOK' /\ Posting'
<1>. SUFFICES ASSUME TypeOK, Posting, Parked PROVE TypeOK' /\ Posting'
  OBVIOUS
<1>. USE DispatchAssumption DEF Ids, Start, orderVars, venueVars, rowVars, procVars
<1>1. CASE ConsumeResolution
  <2>1. /\ UNCHANGED <<now, status, created, shown, wire, posts, row, closed, since, last,
                      up, pc, reply, misses, looked, done, crashes>>
        /\ anchor' \in {0} \cup Ids /\ parked' = "no"
    BY <1>1 DEF ConsumeResolution
  <2>2. pc # "posted"
    BY <1>1 DEF ConsumeResolution, Posting
  <2>. QED  BY <2>1, <2>2 DEF TypeOK, Posting
<1>2. CASE VerifyOpen
  BY <1>2 DEF VerifyOpen, TypeOK, Posting
<1>3. CASE FillUnparks
  BY <1>3 DEF FillUnparks, TypeOK, Posting
<1>4. ASSUME NEW i \in Ids, ResolveParked(i) PROVE TypeOK' /\ Posting'
  <2>1. UNCHANGED <<venueVars, posts, anchor, last, up, pc, reply, done, crashes>>
        /\ looked' \subseteq Ids
    BY <1>4 DEF ResolveParked, TypeOK
  <2>2. misses' \in [Ids -> 0 .. MissesToReject - 1]
    <3>. misses \in [Ids -> 0 .. MissesToReject - 1]
      BY DEF TypeOK
    <3>1. CASE Hopeless(i)
      <4>1. misses' = [misses EXCEPT ![i] = 0]
        BY <1>4, <3>1 DEF ResolveParked, RejectParked
      <4>. QED  BY <4>1
    <3>2. CASE ~Hopeless(i)
      <4>1. misses' = [misses EXCEPT ![i] = IF Found(i) THEN 0 ELSE @ + 1]
        BY <1>4, <3>2 DEF ResolveParked
      <4>2. ~Found(i) => misses[i] + 1 # MissesToReject
        BY <3>2 DEF Hopeless
      <4>. QED  BY <4>1, <4>2
    <3>. QED  BY <3>1, <3>2
  <2>3. /\ row' \in [Ids -> {"none", "submitted", "unknown", "confirmed", "rejected"}]
        /\ closed' \subseteq Ids /\ UNCHANGED since /\ parked' \in {"no", "waits", "rejected"}
    BY <1>4 DEF ResolveParked, RejectParked, RejectRow, TypeOK
  <2>4. Posting'
    BY <1>4 DEF ResolveParked, RejectParked, Posting
  <2>. QED  BY <2>1, <2>2, <2>3, <2>4 DEF TypeOK
<1>5. ASSUME NEW i \in Ids, DeadPush(i) PROVE TypeOK' /\ Posting'
  BY <1>5 DEF DeadPush, TypeOK, Posting
<1>. QED  BY <1>1, <1>2, <1>3, <1>4, <1>5 DEF Parked

LEMMA CrashType == TypeOK /\ Posting /\ Crash => TypeOK' /\ Posting'
<1>. SUFFICES ASSUME TypeOK, Posting, Crash PROVE TypeOK' /\ Posting'
  OBVIOUS
<1>. USE DispatchAssumption DEF Ids, Start, venueVars, storeVars
<1>1. misses' \in [Ids -> 0 .. MissesToReject - 1]
  BY DEF Crash
<1>2. crashes' \in 0 .. MaxCrashes
  BY DEF Crash, TypeOK
<1>3. up' \in BOOLEAN /\ done' \in BOOLEAN
  BY DEF Crash
<1>4. pc' = "idle" /\ reply' = "none" /\ looked' = {}
  BY DEF Crash
<1>5. UNCHANGED <<now, status, created, shown, wire, posts, row, closed, since, anchor,
                  parked, last>>
  BY DEF Crash
<1>. QED  BY <1>1, <1>2, <1>3, <1>4, <1>5 DEF TypeOK, Posting

LEMMA RestartType == TypeOK /\ Posting /\ Restart => TypeOK' /\ Posting'
<1>. SUFFICES ASSUME TypeOK, Posting, Restart PROVE TypeOK' /\ Posting'
  OBVIOUS
<1>. USE DispatchAssumption DEF Ids, Start, venueVars
<1>1. UNCHANGED <<now, status, created, shown, wire, posts, since, last, pc, reply, misses,
                  looked, crashes>>
  BY DEF Restart
<1>2. /\ row' \in [Ids -> {"none", "submitted", "unknown", "confirmed", "rejected"}]
      /\ closed' \subseteq Ids
  BY DEF Restart, TypeOK
<1>3. anchor' \in {0} \cup Ids /\ parked' \in {"no", "waits", "rejected"}
  BY DEF Restart, TypeOK
<1>4. up' \in BOOLEAN /\ done' \in BOOLEAN /\ pc' = "idle"
  BY DEF Restart, TypeOK, Posting
<1>. QED  BY <1>1, <1>2, <1>3, <1>4 DEF TypeOK, Posting

\* Every state of the dispatch is well typed; in particular a streak of misses ends
\* before it outgrows its limit (_parked_lookup_misses).
THEOREM DispatchTypeCorrect == Spec => []TypeOK
<1>1. TypeOK /\ Posting /\ UNCHANGED vars => TypeOK' /\ Posting'
  BY DEF TypeOK, Posting, vars, venueVars, storeVars, procVars
<1>2. TypeOK /\ Posting /\ [Next]_vars => TypeOK' /\ Posting'
  BY <1>1, VenueType, EngineType, ParkedType, CrashType, RestartType DEF Next
<1>. QED  BY <1>2, InitType, PTL DEF Spec

-----------------------------------------------------------------------------
(***************************************************************************)
(* The inductive invariant                                                 *)
(***************************************************************************)
\* The types the steps need.
Shape ==
    /\ Ids \subseteq Nat \ {0}
    /\ now \in Nat \ {0} /\ Start <= now /\ posts \in Nat
    /\ status \in [Ids -> {"none", "live", "filled", "partial", "dead"}]
    /\ created \in [Ids -> Nat] /\ since \in [Ids -> Nat] /\ misses \in [Ids -> Nat]
    /\ row \in [Ids -> {"none", "submitted", "unknown", "confirmed", "rejected"}]
    /\ \A m \in wire : m.id \in Ids /\ m.n \in Nat
    /\ anchor \in Nat /\ (anchor # 0 => anchor \in Ids)
    /\ last \in Nat /\ (last # 0 => last \in Ids)
    /\ (last + 1 \in Ids <=> last < MaxIds)
    /\ pc \in {"idle", "posted"} /\ parked \in {"no", "waits", "rejected"}
    /\ Start \in Nat \ {0, 1} /\ Skew \in Nat /\ Start = Skew + 2

LEMMA ShapeFollows == TypeOK => Shape
<1>. SUFFICES ASSUME TypeOK PROVE Shape
  OBVIOUS
<1>1. Ids \subseteq Nat \ {0} /\ Start \in Nat \ {0, 1} /\ Skew \in Nat /\ Start = Skew + 2
  BY DispatchAssumption DEF Ids, Start
<1>2. now \in Nat \ {0} /\ Start <= now /\ posts \in Nat
  BY <1>1, DispatchAssumption DEF TypeOK
<1>3. /\ status \in [Ids -> {"none", "live", "filled", "partial", "dead"}]
      /\ row \in [Ids -> {"none", "submitted", "unknown", "confirmed", "rejected"}]
  BY DEF TypeOK
<1>4. created \in [Ids -> Nat] /\ since \in [Ids -> Nat] /\ misses \in [Ids -> Nat]
  BY DispatchAssumption DEF TypeOK
<1>5. \A m \in wire : m.id \in Ids /\ m.n \in Nat
  BY DEF TypeOK
<1>6. /\ anchor \in Nat /\ (anchor # 0 => anchor \in Ids)
      /\ last \in Nat /\ (last # 0 => last \in Ids)
  BY <1>1 DEF TypeOK
<1>7. last + 1 \in Ids <=> last < MaxIds
  BY DispatchAssumption DEF TypeOK, Ids
<1>8. pc \in {"idle", "posted"} /\ parked \in {"no", "waits", "rejected"}
  BY DEF TypeOK
<1>. QED  BY <1>1, <1>2, <1>3, <1>4, <1>5, <1>6, <1>7, <1>8 DEF Shape

LEMMA TickStep ==
  ASSUME Shape, Core, Tick
  PROVE  Core'
<1>1. UNCHANGED <<status, created, shown, wire, posts, row, closed, since, anchor, parked,
                  last, up, pc, reply, done, crashes>>
  BY DEF Tick, orderVars, storeVars
<1>2. now' \in {now, now + 1} /\ Settled
      /\ misses' = [i \in Ids |-> IF ParkedRow(i) THEN misses[i] ELSE 0]
  BY DEF Tick
<1>3. IdsInv'
  BY <1>1, <1>2 DEF Shape, Core, IdsInv, Gone, Prior, OpenRow
<1>4. OrderInv'
  BY <1>1, <1>2 DEF Shape, Core, OrderInv, Exposed, Prior, Fills, OpenRow
<1>5. WireInv'
  BY <1>1 DEF Core, WireInv, OpenRow
<1>6. PostInv'
  BY <1>1 DEF Core, PostInv, Prior
<1>7. ParkInv'
  BY <1>1, <1>2 DEF Shape, Core, ParkInv, Gone, Prior, ParkedRow
<1>8. DoneInv'
  BY <1>1 DEF Core, DoneInv, Prior
<1>9. MissInv'
  BY <1>1, <1>2 DEF Shape, Core, MissInv, Unseen, Settled
<1>. QED  BY <1>3, <1>4, <1>5, <1>6, <1>7, <1>8, <1>9 DEF Core

LEMMA LandStep ==
  ASSUME Shape, Core, NEW m \in wire, Land(m)
  PROVE  Core'
<1>1. /\ UNCHANGED <<now, shown, posts, row, closed, since, anchor, parked, last, up, pc,
                     misses, looked, done, crashes>>
      /\ wire' = wire \ {m} /\ m.id \in Ids
  BY DEF Land, storeVars, Shape
<1>2. \/ /\ status[m.id] = "none" /\ Answer(m, "ok")
         /\ status' = [status EXCEPT ![m.id] = "live"]
         /\ created' = [created EXCEPT ![m.id] = now]
      \/ status[m.id] = "none" /\ Answer(m, "reject") /\ UNCHANGED <<status, created>>
      \/ status[m.id] # "none" /\ Answer(m, "duplicate") /\ UNCHANGED <<status, created>>
  BY DEF Land
<1>3. IdsInv'
  BY <1>1, <1>2 DEF Shape, Core, IdsInv, WireInv, Gone, Prior, OpenRow
<1>4. OrderInv'
  BY <1>1, <1>2 DEF Shape, Core, OrderInv, WireInv, Exposed, Prior, Fills, OpenRow
<1>5. WireInv'
  <2>1. ASSUME NEW k \in wire', status'[k.id] = "none"
        PROVE  k \in wire /\ k # m /\ status[k.id] = "none" /\ k.id # m.id
    BY <1>1, <1>2, <2>1 DEF Shape, Core, WireInv
  <2>2. ASSUME NEW k \in wire', status'[k.id] = "none", reply = "none", k.n = posts, pc = "posted"
        PROVE  reply' = "none"
    <3>1. m.n # posts
      BY <1>1, <2>1, <2>2 DEF Core, PostInv
    <3>. QED  BY <1>2, <2>2, <3>1 DEF Answer
  <2>. QED  BY <1>1, <2>1, <2>2 DEF Core, WireInv, OpenRow
<1>6. PostInv'
  <2>. SUFFICES ASSUME pc = "posted" PROVE PostInv'
    BY <1>1 DEF PostInv
  <2>1. /\ up /\ parked = "no" /\ ~done /\ anchor # 0 /\ row[anchor] = "submitted"
        /\ \A k \in wire : k.n = posts => k.id = anchor
    BY DEF Core, PostInv
  <2>3. CASE m.n # posts
    BY <1>1, <1>2, <2>1, <2>3 DEF Shape, Core, PostInv, WireInv, Prior, Answer
  <2>4. CASE m.n = posts
    BY <1>1, <1>2, <2>1, <2>4 DEF Shape, Core, PostInv, WireInv, Prior, Answer
  <2>. QED  BY <2>3, <2>4
<1>7. ParkInv'
  BY <1>1, <1>2 DEF Shape, Core, ParkInv, Gone, Prior, ParkedRow
<1>8. DoneInv'
  BY <1>1, <1>2 DEF Shape, Core, DoneInv, Prior
<1>9. MissInv'
  BY <1>1, <1>2 DEF Shape, Core, MissInv, Unseen
<1>. QED  BY <1>3, <1>4, <1>5, <1>6, <1>7, <1>8, <1>9 DEF Core

LEMMA LoseStep ==
  ASSUME Shape, Core, NEW m \in wire, LoseCreate(m)
  PROVE  Core'
<1>1. /\ UNCHANGED <<now, status, created, shown, posts, row, closed, since, anchor, parked, last,
                     up, pc, reply, misses, looked, done, crashes>>
      /\ wire' = wire \ {m}
  BY DEF LoseCreate, orderVars, storeVars, procVars
<1>2. IdsInv'
  BY <1>1 DEF Shape, Core, IdsInv, Gone, Prior, OpenRow
<1>3. OrderInv'
  BY <1>1 DEF Shape, Core, OrderInv, Exposed, Prior, Fills, OpenRow
<1>4. WireInv'
  BY <1>1 DEF Shape, Core, WireInv, OpenRow
<1>5. PostInv'
  BY <1>1 DEF Shape, Core, PostInv, Prior
<1>6. ParkInv'
  BY <1>1 DEF Shape, Core, ParkInv, Gone, Prior, ParkedRow
<1>7. DoneInv'
  BY <1>1 DEF Shape, Core, DoneInv, Prior
<1>8. MissInv'
  BY <1>1 DEF Shape, Core, MissInv, Unseen
<1>. QED  BY <1>2, <1>3, <1>4, <1>5, <1>6, <1>7, <1>8 DEF Core

LEMMA ShowStep ==
  ASSUME Shape, Core, NEW i \in Ids, Show(i)
  PROVE  Core'
<1>1. /\ UNCHANGED <<now, status, created, wire, posts, row, closed, since, anchor, parked, last,
                     up, pc, reply, misses, looked, done, crashes>>
      /\ shown' = shown \cup {i} /\ status[i] # "none"
  BY DEF Show, storeVars, procVars
<1>2. IdsInv'
  BY <1>1 DEF Shape, Core, IdsInv, Gone, Prior, OpenRow
<1>3. OrderInv'
  BY <1>1 DEF Shape, Core, OrderInv, Exposed, Prior, Fills, OpenRow
<1>4. WireInv'
  BY <1>1 DEF Shape, Core, WireInv, OpenRow
<1>5. PostInv'
  BY <1>1 DEF Shape, Core, PostInv, Prior
<1>6. ParkInv'
  BY <1>1 DEF Shape, Core, ParkInv, Gone, Prior, ParkedRow
<1>7. DoneInv'
  BY <1>1 DEF Shape, Core, DoneInv, Prior
<1>8. MissInv'
  BY <1>1 DEF Shape, Core, MissInv, Unseen
<1>. QED  BY <1>2, <1>3, <1>4, <1>5, <1>6, <1>7, <1>8 DEF Core

LEMMA EndStep ==
  ASSUME Shape, Core, ~PartialCancel, NEW i \in Ids, End(i)
  PROVE  Core'
<1>1. /\ UNCHANGED <<now, created, shown, wire, posts, row, closed, since, anchor, parked, last,
                     up, pc, reply, misses, looked, done, crashes>>
      /\ status[i] = "live"
  BY DEF End, storeVars, procVars
<1>2. PICK s \in {"filled", "dead"} : status' = [status EXCEPT ![i] = s]
  BY DEF End
<1>3. IdsInv'
  BY <1>1, <1>2 DEF Shape, Core, IdsInv, Gone, Prior, OpenRow
<1>4. OrderInv'
  BY <1>1, <1>2 DEF Shape, Core, OrderInv, Exposed, Prior, Fills, OpenRow
<1>5. WireInv'
  BY <1>1, <1>2 DEF Shape, Core, WireInv, OpenRow
<1>6. PostInv'
  BY <1>1, <1>2 DEF Shape, Core, PostInv, Prior
<1>7. ParkInv'
  BY <1>1, <1>2 DEF Shape, Core, ParkInv, Gone, Prior, ParkedRow
<1>8. DoneInv'
  BY <1>1, <1>2 DEF Shape, Core, DoneInv, Prior
<1>9. MissInv'
  BY <1>1, <1>2 DEF Shape, Core, MissInv, Unseen
<1>. QED  BY <1>3, <1>4, <1>5, <1>6, <1>7, <1>8, <1>9 DEF Core

LEMMA PlaceStep ==
  ASSUME Shape, Core, PlaceEntryOrder
  PROVE  Core'
<1>1. PICK i \in Mintable :
        /\ anchor' = i /\ last' = i /\ Persist(i)
        /\ wire' = wire \cup {[id |-> i, n |-> posts + 1]}
  BY DEF PlaceEntryOrder
<1>2. /\ UNCHANGED <<now, status, created, shown, parked, up, misses, looked, done, crashes>>
      /\ up /\ pc = "idle" /\ parked = "no" /\ ~done
      /\ posts' = posts + 1 /\ pc' = "posted" /\ reply' = "none"
  BY DEF PlaceEntryOrder, orderVars
<1>3. i \in Ids /\ i \in {last, last + 1} /\ (i = last + 1 => anchor = 0)
  BY DEF Mintable, Shape, Core, IdsInv
<1>4. /\ row' = [row EXCEPT ![i] = "submitted"] /\ closed' = closed \ {i}
      /\ since' = [since EXCEPT ![i] = IF OpenRow(i) THEN since[i] ELSE now]
  BY <1>1 DEF Persist, OpenRow
<1>5. PICK r : r.id = i /\ r.n = posts + 1 /\ wire' = wire \cup {r}
  <2>. DEFINE new == [id |-> i, n |-> posts + 1]
  <2>1. new.id = i /\ new.n = posts + 1 /\ wire' = wire \cup {new}
    BY <1>1
  <2>. QED  BY <2>1
<1>6. \A k \in wire : k.id \in Ids /\ k.id <= last /\ k.n <= posts /\ status[k.id] # "none"
  BY <1>2 DEF Shape, Core, WireInv
<1>7. IdsInv'
  <2>1. ASSUME NEW j \in Ids, j > i
        PROVE  status[j] = "none" /\ row'[j] = "none" /\ j \notin closed' /\ misses[j] = 0
    BY <1>3, <1>4, <2>1 DEF Shape, Core, IdsInv
  <2>2. ASSUME NEW j \in Ids, j < i PROVE Gone(j)' /\ ~OpenRow(j)'
    <3>1. Gone(j) /\ ~OpenRow(j)
      BY <1>3, <2>2 DEF Shape, Core, IdsInv
    <3>2. ~OpenRow(j)'
      BY <1>3, <1>4, <2>2, <3>1 DEF Shape, OpenRow
    <3>. QED  BY <1>2, <1>3, <1>5, <2>2, <3>1, <3>2 DEF Shape, Gone, Prior
  <2>. QED  BY <1>1, <1>2, <1>3, <2>1, <2>2 DEF Shape, IdsInv
<1>8. OrderInv'
  <2>1. ASSUME NEW j \in Ids, Exposed(j) PROVE OpenRow(j)' /\ since'[j] <= created[j]
    BY <1>3, <1>4, <2>1 DEF Shape, Core, OrderInv, OpenRow
  <2>2. ASSUME NEW j \in Ids, row'[j] # "none" PROVE Start <= since'[j] /\ since'[j] <= now
    BY <1>3, <1>4, <2>2 DEF Shape, Core, OrderInv, OpenRow
  <2>3. ASSUME NEW j \in Ids
        PROVE  /\ row'[j] = "rejected" => j \in closed'
               /\ OpenRow(j)' /\ row'[j] = "confirmed" => status[j] # "none" /\ ~Prior(j)
    BY <1>3, <1>4 DEF Shape, Core, OrderInv, OpenRow
  <2>. QED  BY <1>2, <2>1, <2>2, <2>3 DEF Core, OrderInv, Exposed, Prior, Fills
<1>9. WireInv'
  <2>1. OpenRow(i)'
    BY <1>3, <1>4 DEF Shape, OpenRow
  <2>2. ASSUME NEW k \in wire' PROVE k.id <= last' /\ k.n <= posts'
    <3>1. CASE k \in wire
      <4>1. k.id \in Nat /\ k.n \in Nat /\ k.id <= last /\ k.n <= posts
        BY <1>6, <3>1 DEF Shape
      <4>. QED  BY <1>1, <1>2, <1>3, <4>1 DEF Shape
    <3>2. CASE k = r
      BY <1>1, <1>2, <1>3, <1>5, <3>2 DEF Shape
    <3>. QED  BY <1>5, <3>1, <3>2
  <2>3. \A k \in wire' : status'[k.id] = "none" => k = r
    BY <1>2, <1>5, <1>6
  <2>. QED  BY <1>2, <1>5, <2>1, <2>2, <2>3 DEF WireInv
<1>10. PostInv'
  <2>1. \A k \in wire' : k.n = posts' => k.id = anchor'
    BY <1>1, <1>2, <1>5, <1>6 DEF Shape
  <2>. QED  BY <1>1, <1>2, <1>3, <1>4, <2>1 DEF Shape, PostInv
<1>11. ParkInv'
  <2>1. status[i] = "none" => misses[i] = 0
    BY <1>2, <1>3 DEF Shape, Core, ParkInv, IdsInv
  <2>. QED  BY <1>1, <1>2, <1>3, <1>4, <2>1 DEF Shape, ParkInv, ParkedRow
<1>12. DoneInv'
  BY <1>2 DEF DoneInv
<1>13. MissInv'
  <2>1. status[i] = "none" => misses[i] = 0
    BY <1>2, <1>3 DEF Shape, Core, ParkInv, IdsInv
  <2>2. ASSUME NEW j \in Ids, Unseen(j)' PROVE Unseen(j) \/ (j = i /\ status[i] = "none")
    <3>1. UNCHANGED <<status, shown>>
      BY <1>2
    <3>2. ASSUME NEW k \in wire' PROVE k \in wire \/ k.id = i
      <4>1. k \in wire \/ k = r
        BY <1>5
      <4>. QED  BY <1>5, <4>1
    <3>. QED  BY <2>2, <3>1, <3>2 DEF Unseen
  <2>. QED  BY <1>2, <2>1, <2>2 DEF Core, MissInv
<1>. QED  BY <1>7, <1>8, <1>9, <1>10, <1>11, <1>12, <1>13 DEF Core

LEMMA AdoptStep ==
  ASSUME Shape, Core, pc = "posted", Adopt(anchor), status[anchor] # "none", ~Prior(anchor),
         UNCHANGED <<venueVars, posts, up, reply, misses, looked, crashes>>
  PROVE  Core'
<1>1. /\ UNCHANGED <<now, status, created, shown, wire, posts, closed, since, anchor, parked, last,
                     up, reply, misses, looked, crashes>>
      /\ row' = [row EXCEPT ![anchor] = "confirmed"] /\ pc' = "idle" /\ done'
      /\ pc = "posted" /\ status[anchor] # "none" /\ ~Prior(anchor)
  BY DEF Adopt, ConfirmRow, venueVars
<1>2. IdsInv'
  BY <1>1 DEF Shape, Core, IdsInv, PostInv, Gone, Prior, OpenRow
<1>3. OrderInv'
  BY <1>1 DEF Shape, Core, OrderInv, PostInv, Exposed, Prior, Fills, OpenRow
<1>4. WireInv'
  BY <1>1 DEF Shape, Core, WireInv, PostInv, OpenRow
<1>5. PostInv'
  BY <1>1 DEF Shape, Core, PostInv, Prior
<1>6. ParkInv'
  BY <1>1 DEF Shape, Core, ParkInv, PostInv, IdsInv, Gone, Prior, ParkedRow
<1>7. DoneInv'
  BY <1>1 DEF Shape, Core, DoneInv, PostInv, Prior
<1>8. MissInv'
  BY <1>1 DEF Shape, Core, MissInv, Unseen
<1>. QED  BY <1>2, <1>3, <1>4, <1>5, <1>6, <1>7, <1>8 DEF Core

LEMMA PlacedStep ==
  ASSUME Shape, Core, Placed
  PROVE  Core'
<1>1. status[anchor] # "none" /\ ~Prior(anchor)
  BY DEF Placed, Core, PostInv
<1>. QED  BY <1>1, AdoptStep DEF Placed, Adopt

LEMMA RejectedStep ==
  ASSUME Shape, Core, Rejected
  PROVE  Core'
<1>1. /\ UNCHANGED <<now, status, created, shown, wire, posts, since, parked, last,
                     up, reply, misses, looked, done, crashes>>
      /\ row' = [row EXCEPT ![anchor] = "rejected"] /\ closed' = closed \cup {anchor}
      /\ anchor' = 0 /\ pc' = "idle" /\ pc = "posted" /\ reply = "reject"
  BY DEF Rejected, RejectRow, venueVars
<1>2. IdsInv'
  <2>1. ASSUME NEW j \in Ids PROVE Gone(j) /\ ~OpenRow(j)'
    BY <1>1 DEF Shape, Core, IdsInv, PostInv, WireInv, Gone, OpenRow
  <2>. QED  BY <1>1, <2>1 DEF Shape, Core, IdsInv, PostInv, Gone, Prior
<1>3. OrderInv'
  BY <1>1 DEF Shape, Core, OrderInv, PostInv, Exposed, Prior, Fills, OpenRow
<1>4. WireInv'
  BY <1>1 DEF Shape, Core, WireInv, PostInv, OpenRow
<1>5. PostInv'
  BY <1>1 DEF Shape, Core, PostInv, Prior
<1>6. ParkInv'
  BY <1>1 DEF Shape, Core, ParkInv, PostInv, IdsInv, Gone, Prior, ParkedRow
<1>7. DoneInv'
  BY <1>1 DEF Shape, Core, DoneInv, PostInv, Prior
<1>8. MissInv'
  BY <1>1 DEF Shape, Core, MissInv, Unseen
<1>. QED  BY <1>2, <1>3, <1>4, <1>5, <1>6, <1>7, <1>8 DEF Core

LEMMA ParkStep ==
  ASSUME Shape, Core, pc = "posted", Park,
         UNCHANGED <<venueVars, posts, up, reply, misses, looked, crashes>>
  PROVE  Core'
<1>1. /\ UNCHANGED <<now, status, created, shown, wire, posts, closed, since, anchor, last,
                     up, reply, misses, looked, crashes>>
      /\ row' = [row EXCEPT ![anchor] = "unknown"]
      /\ parked' = "waits" /\ pc' = "idle" /\ ~done'
  BY DEF Park, venueVars
<1>2. IdsInv'
  BY <1>1 DEF Shape, Core, IdsInv, PostInv, Gone, Prior, OpenRow
<1>3. OrderInv'
  BY <1>1 DEF Shape, Core, OrderInv, PostInv, Exposed, Prior, Fills, OpenRow
<1>4. WireInv'
  BY <1>1 DEF Shape, Core, WireInv, PostInv, OpenRow
<1>5. PostInv'
  BY <1>1 DEF Shape, Core, PostInv, Prior
<1>6. ParkInv'
  BY <1>1 DEF Shape, Core, ParkInv, PostInv, IdsInv, Gone, Prior, ParkedRow
<1>7. DoneInv'
  BY <1>1 DEF Shape, Core, DoneInv, PostInv, Prior
<1>8. MissInv'
  BY <1>1 DEF Shape, Core, MissInv, Unseen
<1>. QED  BY <1>2, <1>3, <1>4, <1>5, <1>6, <1>7, <1>8 DEF Core

\* An order older than its row by more than the skew does not stand; one of the
\* prior instance always is.
LEMMA SpentOriginal ==
  ASSUME Shape, Core, NEW i \in Ids
  PROVE  /\ OriginalIsSpent(i) => ~Exposed(i)
         /\ Prior(i) /\ row[i] # "none" => OriginalIsSpent(i)
<1>1. Exposed(i) => since[i] <= created[i]
  BY DEF Core, OrderInv
<1>2. created[i] \in Nat /\ since[i] \in Nat /\ Skew \in Nat
  BY DEF Shape
<1>3. OriginalIsSpent(i) => ~Exposed(i)
  BY <1>1, <1>2 DEF OriginalIsSpent
<1>4. row[i] # "none" => Skew + 2 <= since[i]
  BY DEF Shape, Core, OrderInv
<1>5. Prior(i) /\ row[i] # "none" => OriginalIsSpent(i)
  BY <1>2, <1>4 DEF Prior, OriginalIsSpent
<1>. QED  BY <1>3, <1>5

\* Only the anchor's row can be open, and it is the newest id.
LEMMA OnlyAnchorOpen ==
  ASSUME Shape, Core, NEW i \in Ids, OpenRow(i)
  PROVE  i = anchor /\ i = last
BY DEF Shape, Core, IdsInv, OpenRow

\* An order that neither stands nor can still be created is gone.
LEMMA NotExposedGone ==
  ASSUME Shape, Core, NEW i \in Ids, ~Exposed(i),
         status[i] = "none" => \A m \in wire : m.id # i
  PROVE  Gone(i)
BY DEF Shape, Exposed, Fills, Gone

LEMMA SpendStep ==
  ASSUME Shape, Core, pc = "posted", reply = "duplicate", Spent(anchor), Spend(anchor),
         UNCHANGED <<venueVars, posts, up, reply, misses, looked, crashes>>
  PROVE  Core'
<1>1. /\ UNCHANGED <<now, status, created, shown, wire, posts, since, parked, up, reply, misses,
                     looked, done, crashes>>
      /\ row' = [row EXCEPT ![anchor] = "rejected"] /\ closed' = closed \cup {anchor}
      /\ pc' = "idle"
      /\ last' = IF last < MaxIds THEN last + 1 ELSE last
      /\ anchor' = IF last < MaxIds THEN last + 1 ELSE 0
  BY DEF Spend, RejectRow, venueVars
<1>2. anchor = last /\ anchor \in Ids /\ status[anchor] # "none"
      /\ parked = "no" /\ ~done /\ up
  BY DEF Shape, Core, PostInv, IdsInv
<1>3. status[anchor] = "dead" \/ Prior(anchor)
  <2>1. ~Exposed(anchor)
    BY <1>2, SpentOriginal DEF Spent, Dead, Core, OrderInv, Exposed, Fills
  <2>. QED  BY <1>2, <2>1 DEF Shape, Exposed, Fills
<1>4. \/ last' = last /\ anchor' = 0
      \/ last' = last + 1 /\ anchor' = last' /\ last' \in Ids
  BY <1>1 DEF Shape
<1>5. IdsInv'
  <2>1. ASSUME NEW j \in Ids PROVE Gone(j)' /\ ~OpenRow(j)'
    <3>1. Gone(j)
      BY <1>2, <1>3 DEF Shape, Core, IdsInv, WireInv, Gone
    <3>2. Gone(j)'
      BY <1>1, <3>1 DEF Gone, Prior
    <3>3. ~OpenRow(j)'
      BY <1>1, <1>2 DEF Shape, Core, IdsInv, OpenRow
    <3>. QED  BY <3>2, <3>3
  <2>2. ASSUME NEW j \in Ids, j > last
        PROVE  status[j] = "none" /\ row'[j] = "none" /\ j \notin closed' /\ misses[j] = 0
    BY <1>1, <1>2, <2>2 DEF Shape, Core, IdsInv
  <2>3. ASSUME NEW j \in Ids, j > last' PROVE j > last
    BY <1>4, <2>3 DEF Shape
  <2>4. anchor' \in {0, last'}
    BY <1>4
  <2>. QED  BY <1>1, <2>1, <2>2, <2>3, <2>4 DEF IdsInv
<1>6. OrderInv'
  <2>1. ASSUME NEW j \in Ids, Exposed(j) PROVE OpenRow(j)' /\ since[j] <= created[j]
    <3>1. j # anchor /\ OpenRow(j) /\ since[j] <= created[j]
      BY <1>3, <2>1 DEF Core, OrderInv, Exposed, Fills
    <3>. QED  BY <1>1, <3>1 DEF Shape, OpenRow
  <2>2. ASSUME NEW j \in Ids
        PROVE  /\ row'[j] # "none" => Start <= since[j] /\ since[j] <= now
               /\ row'[j] = "rejected" => j \in closed'
               /\ OpenRow(j)' /\ row'[j] = "confirmed" => status[j] # "none" /\ ~Prior(j)
    BY <1>1, <1>2 DEF Shape, Core, OrderInv, PostInv, OpenRow
  <2>. QED  BY <1>1, <2>1, <2>2 DEF Core, OrderInv, Exposed, Prior, Fills
<1>7. WireInv'
  <2>1. ASSUME NEW m \in wire PROVE status[m.id] # "none"
    <3>. SUFFICES ASSUME status[m.id] = "none" PROVE FALSE
      OBVIOUS
    <3>1. m.id \in Ids /\ OpenRow(m.id)
      BY DEF Shape, Core, WireInv
    <3>2. m.id = anchor
      BY <3>1, OnlyAnchorOpen
    <3>. QED  BY <1>2, <3>2
  <2>2. ASSUME NEW m \in wire PROVE m.id <= last' /\ m.n <= posts'
    <3>1. m.id \in Nat /\ m.id <= last /\ m.n <= posts /\ last \in Nat
      BY DEF Shape, Core, WireInv
    <3>2. last' \in {last, last + 1} /\ posts' = posts
      BY <1>1, <1>4
    <3>. QED  BY <3>1, <3>2
  <2>. QED  BY <1>1, <2>1, <2>2 DEF WireInv
<1>8. PostInv'
  BY <1>1 DEF PostInv
<1>9. ParkInv'
  <2>1. CASE last' = last
    BY <1>1, <1>2, <2>1 DEF ParkInv
  <2>2. CASE last' = last + 1 /\ last' \in Ids
    BY <1>1, <1>2, <2>2 DEF Shape, Core, IdsInv, ParkInv, ParkedRow
  <2>. QED  BY <1>4, <2>1, <2>2
<1>10. DoneInv'
  BY <1>1, <1>2 DEF DoneInv
<1>11. MissInv'
  BY <1>1 DEF Shape, Core, MissInv, Unseen
<1>. QED  BY <1>5, <1>6, <1>7, <1>8, <1>9, <1>10, <1>11 DEF Core

LEMMA DuplicateStep ==
  ASSUME Shape, Core, Duplicate
  PROVE  Core'
<1>1. UNCHANGED <<venueVars, posts, up, reply, misses, looked, crashes>>
      /\ pc = "posted" /\ reply = "duplicate"
  BY DEF Duplicate
<1>2. CASE Spent(anchor) /\ Spend(anchor)
  BY <1>1, <1>2, SpendStep
<1>3. CASE ~Spent(anchor) /\ Adopt(anchor)
  <2>1. anchor \in Ids /\ status[anchor] # "none" /\ row[anchor] # "none"
    BY <1>1 DEF Shape, Core, PostInv
  <2>2. ~Prior(anchor)
    BY <1>3, <2>1, SpentOriginal DEF Spent
  <2>. QED  BY <1>1, <1>3, <2>1, <2>2, AdoptStep
<1>4. CASE Park
  BY <1>1, <1>4, ParkStep
<1>. QED  BY <1>2, <1>3, <1>4 DEF Duplicate

LEMMA AmbiguousStep ==
  ASSUME Shape, Core, Ambiguous
  PROVE  Core'
BY ParkStep DEF Ambiguous

LEMMA ConsumeStep ==
  ASSUME Shape, Core, ConsumeResolution
  PROVE  Core'
<1>1. /\ UNCHANGED <<now, status, created, shown, wire, posts, row, closed, since, last,
                     up, pc, reply, misses, looked, done, crashes>>
      /\ anchor' = 0 /\ parked' = "no" /\ parked = "rejected"
  BY DEF ConsumeResolution, venueVars, rowVars, procVars
<1>2. /\ anchor = last /\ anchor \in Ids /\ pc = "idle" /\ ~done
      /\ Gone(anchor) /\ row[anchor] = "rejected" /\ anchor \in closed /\ misses[anchor] = 0
  BY <1>1 DEF Shape, Core, ParkInv, IdsInv, OrderInv
<1>3. IdsInv'
  <2>1. ASSUME NEW j \in Ids PROVE Gone(j) /\ ~OpenRow(j)
    BY <1>2 DEF Shape, Core, IdsInv, WireInv, Gone, OpenRow
  <2>. QED  BY <1>1, <2>1 DEF Core, IdsInv, Gone, Prior, OpenRow
<1>4. OrderInv'
  BY <1>1 DEF Core, OrderInv, Exposed, Prior, Fills, OpenRow
<1>5. WireInv'
  <2>1. \A m \in wire : status[m.id] # "none"
    BY <1>2, OnlyAnchorOpen DEF Shape, Core, WireInv, OpenRow
  <2>. QED  BY <1>1, <2>1 DEF Core, WireInv
<1>6. PostInv'
  BY <1>1, <1>2 DEF PostInv
<1>7. ParkInv'
  BY <1>1, <1>2 DEF ParkInv, ParkedRow
<1>8. DoneInv'
  BY <1>1, <1>2 DEF DoneInv
<1>9. MissInv'
  BY <1>1 DEF Core, MissInv, Unseen
<1>. QED  BY <1>3, <1>4, <1>5, <1>6, <1>7, <1>8, <1>9 DEF Core

\* The order of a parked dispatch is found: the intent is placed.
LEMMA UnparkStep ==
  ASSUME Shape, Core, up, parked # "no", status[anchor] # "none", ~Prior(anchor),
         parked' = "no", done',
         UNCHANGED <<venueVars, posts, rowVars, anchor, last, up, pc, reply, misses, looked,
                     crashes>>
  PROVE  Core'
<1>1. UNCHANGED <<now, status, created, shown, wire, posts, row, closed, since, anchor, last,
                  up, pc, reply, misses, looked, crashes>>
  BY DEF venueVars, rowVars
<1>2. anchor = last /\ anchor \in Ids /\ pc = "idle"
  BY DEF Shape, Core, ParkInv, IdsInv
<1>3. IdsInv'
  BY <1>1 DEF Core, IdsInv, Gone, Prior, OpenRow
<1>4. OrderInv'
  BY <1>1 DEF Core, OrderInv, Exposed, Prior, Fills, OpenRow
<1>5. WireInv'
  <2>1. \A m \in wire : status[m.id] # "none"
    BY <1>2, OnlyAnchorOpen DEF Shape, Core, WireInv, OpenRow
  <2>. QED  BY <1>1, <2>1 DEF Core, WireInv
<1>6. PostInv'
  BY <1>1, <1>2 DEF PostInv
<1>7. ParkInv'
  BY <1>1, <1>2 DEF ParkInv
<1>8. DoneInv'
  BY <1>1, <1>2 DEF Shape, DoneInv, Prior
<1>9. MissInv'
  BY <1>1 DEF Core, MissInv, Unseen
<1>. QED  BY <1>3, <1>4, <1>5, <1>6, <1>7, <1>8, <1>9 DEF Core

LEMMA VerifyOpenStep ==
  ASSUME Shape, Core, VerifyOpen
  PROVE  Core'
<1>1. anchor \in Ids /\ status[anchor] = "live"
  BY DEF VerifyOpen, Shape, Core, ParkInv
<1>2. ~Prior(anchor)
  BY <1>1 DEF Core, OrderInv
<1>. QED  BY <1>1, <1>2, UnparkStep DEF VerifyOpen

LEMMA FillUnparksStep ==
  ASSUME Shape, Core, FillUnparks
  PROVE  Core'
<1>1. status[anchor] # "none"
  BY DEF FillUnparks, Fills
<1>. QED  BY <1>1, UnparkStep DEF FillUnparks

LEMMA ResolveParkedStep ==
  ASSUME Shape, Core, MissesToReject \in Nat, MissesToReject >= 2,
         NEW i \in Ids, ResolveParked(i)
  PROVE  Core'
<1>1. /\ UNCHANGED <<now, status, created, shown, wire, posts, since, anchor, last, up, pc,
                     reply, done, crashes>>
      /\ up /\ ParkedRow(i) /\ i \notin looked /\ looked' = looked \cup {i}
  BY DEF ResolveParked, RejectParked, RejectRow, Due, venueVars, rowVars
<1>2. i = anchor /\ i = last /\ i # 0 /\ row[i] = "unknown" /\ OpenRow(i)
  BY <1>1, OnlyAnchorOpen DEF Shape, ParkedRow, OpenRow
<1>3. pc = "idle" /\ parked # "rejected"
  BY <1>2 DEF Shape, Core, PostInv, ParkInv
<1>4. CASE Hopeless(i)
  <2>1. /\ row' = [row EXCEPT ![i] = "rejected"] /\ closed' = closed \cup {i}
        /\ parked' = (IF parked = "waits" THEN "rejected" ELSE parked)
        /\ misses' = [misses EXCEPT ![i] = 0]
    BY <1>2, <1>4 DEF ResolveParked, RejectParked, RejectRow
  <2>2. Gone(i)
    <3>1. CASE status[i] = "dead"
      BY <3>1 DEF Gone
    <3>2. CASE ~Found(i) /\ misses[i] + 1 = MissesToReject
      <4>1. misses[i] # 0
        BY <3>2 DEF Shape
      <4>2. ~Unseen(i)
        BY <1>1, <4>1 DEF Core, MissInv
      <4>3. status[i] # "none" => ~Exposed(i)
        BY <3>2, <4>2, SpentOriginal DEF Unseen, Found
      <4>4. ~Exposed(i)
        BY <4>3 DEF Exposed, Fills
      <4>. QED  BY <4>2, <4>4, NotExposedGone DEF Unseen
    <3>. QED  BY <1>4, <3>1, <3>2 DEF Hopeless
  <2>3. ~Exposed(i)
    BY <2>2 DEF Gone, Exposed, Fills
  <2>4. IdsInv'
    BY <1>1, <1>2, <2>1 DEF Shape, Core, IdsInv, Gone, Prior, OpenRow
  <2>5. OrderInv'
    <3>1. ASSUME NEW j \in Ids, Exposed(j) PROVE OpenRow(j)' /\ since[j] <= created[j]
      <4>1. j # i /\ OpenRow(j) /\ since[j] <= created[j]
        BY <2>3, <3>1 DEF Core, OrderInv
      <4>. QED  BY <2>1, <4>1 DEF Shape, OpenRow
    <3>2. ASSUME NEW j \in Ids
          PROVE  /\ row'[j] # "none" => Start <= since[j] /\ since[j] <= now
                 /\ row'[j] = "rejected" => j \in closed'
                 /\ OpenRow(j)' /\ row'[j] = "confirmed" => status[j] # "none" /\ ~Prior(j)
      BY <1>2, <2>1 DEF Shape, Core, OrderInv, OpenRow
    <3>. QED  BY <1>1, <3>1, <3>2 DEF Core, OrderInv, Exposed, Prior, Fills
  <2>6. WireInv'
    <3>1. ASSUME NEW m \in wire PROVE status[m.id] # "none"
      BY <1>2, <2>2, OnlyAnchorOpen DEF Shape, Core, WireInv, Gone, Prior
    <3>. QED  BY <1>1, <3>1 DEF Core, WireInv
  <2>7. PostInv'
    BY <1>1, <1>3 DEF PostInv
  <2>8. ParkInv'
    BY <1>1, <1>2, <1>3, <2>1, <2>2 DEF Shape, Core, ParkInv, Gone, Prior, ParkedRow
  <2>9. DoneInv'
    BY <1>1 DEF Core, DoneInv, Prior
  <2>10. MissInv'
    BY <1>1, <2>1 DEF Shape, Core, MissInv, Unseen
  <2>. QED  BY <2>4, <2>5, <2>6, <2>7, <2>8, <2>9, <2>10 DEF Core
<1>5. CASE ~Hopeless(i)
  <2>1. /\ UNCHANGED <<row, closed, parked>>
        /\ misses' = [misses EXCEPT ![i] = IF Found(i) THEN 0 ELSE misses[i] + 1]
    BY <1>5 DEF ResolveParked, rowVars
  <2>2. IdsInv'
    BY <1>1, <1>2, <2>1 DEF Shape, Core, IdsInv, Gone, Prior, OpenRow
  <2>3. OrderInv'
    BY <1>1, <2>1 DEF Core, OrderInv, Exposed, Prior, Fills, OpenRow
  <2>4. WireInv'
    BY <1>1, <2>1 DEF Core, WireInv, OpenRow
  <2>5. PostInv'
    BY <1>1, <1>3 DEF PostInv
  <2>6. ParkInv'
    BY <1>1, <1>2, <1>3, <2>1 DEF Core, ParkInv, ParkedRow
  <2>7. DoneInv'
    BY <1>1 DEF Core, DoneInv, Prior
  <2>8. MissInv'
    <3>1. ASSUME NEW j \in Ids, Unseen(j), misses'[j] # 0 PROVE misses'[j] = 1 /\ j \in looked'
      BY <1>1, <2>1, <3>1 DEF Shape, Core, MissInv
    <3>. QED  BY <1>1, <3>1 DEF MissInv, Unseen
  <2>. QED  BY <2>2, <2>3, <2>4, <2>5, <2>6, <2>7, <2>8 DEF Core
<1>. QED  BY <1>4, <1>5

LEMMA DeadPushStep ==
  ASSUME Shape, Core, NEW i \in Ids, DeadPush(i)
  PROVE  Core'
<1>1. /\ UNCHANGED <<now, status, created, shown, wire, posts, row, since, last, up, pc, reply,
                     misses, looked, crashes>>
      /\ status[i] = "dead" /\ row[i] # "none" /\ closed' = closed \cup {i}
  BY DEF DeadPush, venueVars
<1>2. \/ i = anchor /\ pc = "idle" /\ parked' = "no" /\ ~done' /\ anchor' = 0
      \/ (i # anchor \/ pc = "posted") /\ UNCHANGED <<parked, done, anchor>>
  BY DEF DeadPush, Shape
<1>3. Gone(i) /\ ~Exposed(i)
  BY <1>1 DEF Gone, Exposed, Fills
<1>4. IdsInv'
  <2>1. ASSUME NEW j \in Ids, j < last \/ anchor' = 0 PROVE Gone(j) /\ ~OpenRow(j)'
    BY <1>1, <1>2, <1>3, <2>1 DEF Shape, Core, IdsInv, WireInv, Gone, OpenRow
  <2>2. anchor' \in {0, last}
    BY <1>2 DEF Core, IdsInv
  <2>3. i <= last
    BY <1>1 DEF Shape, Core, IdsInv
  <2>4. ASSUME NEW j \in Ids, j > last PROVE j \notin closed'
    BY <1>1, <2>3, <2>4 DEF Shape, Core, IdsInv
  <2>. QED  BY <1>1, <2>1, <2>2, <2>4 DEF Core, IdsInv, Gone, Prior
<1>5. OrderInv'
  BY <1>1, <1>3 DEF Shape, Core, OrderInv, Exposed, Prior, Fills, OpenRow
<1>6. WireInv'
  <2>1. ASSUME NEW m \in wire, status[m.id] = "none"
        PROVE  m.id # i /\ m.id = anchor /\ OpenRow(m.id)
    BY <1>1, <2>1, OnlyAnchorOpen DEF Shape, Core, WireInv
  <2>. QED  BY <1>1, <1>2, <2>1 DEF Core, WireInv, OpenRow
<1>7. PostInv'
  BY <1>1, <1>2 DEF Core, PostInv, Prior
<1>8. ParkInv'
  BY <1>1, <1>2 DEF Shape, Core, IdsInv, ParkInv, Gone, Prior, ParkedRow
<1>9. DoneInv'
  BY <1>1, <1>2 DEF Core, DoneInv, Prior
<1>10. MissInv'
  BY <1>1 DEF Core, MissInv, Unseen
<1>. QED  BY <1>4, <1>5, <1>6, <1>7, <1>8, <1>9, <1>10 DEF Core

LEMMA CrashStep ==
  ASSUME Shape, Core, Crash
  PROVE  Core'
<1>1. /\ UNCHANGED <<now, status, created, shown, wire, posts, row, closed, since, anchor, parked,
                     last>>
      /\ ~up' /\ pc' = "idle" /\ reply' = "none" /\ ~done' /\ looked' = {}
      /\ misses' = [j \in Ids |-> 0]
  BY DEF Crash, venueVars, storeVars
<1>2. IdsInv'
  BY <1>1 DEF Core, IdsInv, Gone, Prior, OpenRow
<1>3. OrderInv'
  BY <1>1 DEF Core, OrderInv, Exposed, Prior, Fills, OpenRow
<1>4. WireInv'
  BY <1>1 DEF Core, WireInv, OpenRow
<1>5. PostInv'
  BY <1>1 DEF PostInv
<1>6. ParkInv'
  BY <1>1 DEF Shape, Core, ParkInv, Gone, Prior, ParkedRow
<1>7. DoneInv'
  BY <1>1 DEF DoneInv
<1>8. MissInv'
  BY <1>1 DEF MissInv
<1>. QED  BY <1>2, <1>3, <1>4, <1>5, <1>6, <1>7, <1>8 DEF Core

LEMMA RestartStep ==
  ASSUME Shape, Core, Restart
  PROVE  Core'
<1>1. /\ UNCHANGED <<now, status, created, shown, wire, posts, since, last, pc, reply, misses,
                     looked, crashes>>
      /\ up' /\ ~up /\ Settled
      /\ done' = (anchor' # 0 /\ anchor' \notin closed' /\ row'[anchor'] = "confirmed")
  BY DEF Restart, venueVars
<1>2. PICK read \in SUBSET {i \in Ids : Pending(i) /\ i \in shown},
           readable \in BOOLEAN, flat \in BOOLEAN :
        LET promoted == {i \in read : Promotable(i, readable)}
            refused  == {i \in read : status[i] = "dead"}
            orphans  == IF flat THEN {i \in Ids : Orphaned(i)} ELSE {}
            keeps    == /\ refused \cup orphans = {}
                        /\ flat => anchor # 0 /\ OpenRow(anchor)
        IN  /\ flat => \A i \in Ids : ~(Fills(i) /\ ~Prior(i))
            /\ row' = [i \in Ids |-> IF i \in promoted THEN "confirmed"
                                     ELSE IF i \in refused THEN "rejected" ELSE row[i]]
            /\ closed' = closed \cup refused \cup orphans
            /\ anchor' = IF keeps THEN anchor ELSE 0
            /\ parked' = IF keeps /\ anchor \notin promoted THEN parked ELSE "no"
  BY DEF Restart
<1>. DEFINE promoted == {i \in read : Promotable(i, readable)}
            refused  == {i \in read : status[i] = "dead"}
            orphans  == IF flat THEN {i \in Ids : Orphaned(i)} ELSE {}
            retired  == refused \cup orphans
            keeps    == retired = {} /\ (flat => anchor # 0 /\ OpenRow(anchor))
<1>3. /\ row' = [i \in Ids |-> IF i \in promoted THEN "confirmed"
                               ELSE IF i \in refused THEN "rejected" ELSE row[i]]
      /\ closed' = closed \cup retired
      /\ anchor' = (IF keeps THEN anchor ELSE 0)
      /\ parked' = (IF keeps /\ anchor \notin promoted THEN parked ELSE "no")
  BY <1>2
<1>4. wire = {} /\ ~done /\ pc = "idle" /\ \A i \in Ids : misses[i] = 0
  BY <1>1 DEF Settled, Shape, Core, DoneInv, PostInv, MissInv
\* What the passes touch is the newest row alone.
<1>5. ASSUME NEW i \in promoted
      PROVE  /\ i \in Ids /\ i = last /\ i = anchor /\ OpenRow(i) /\ row[i] # "rejected"
             /\ status[i] \in {"live", "filled", "partial"} /\ ~Prior(i)
  <2>1. i \in Ids /\ OpenRow(i) /\ Promotable(i, readable) /\ row[i] \in {"submitted", "unknown"}
    BY DEF Pending, OpenRow
  <2>2. i = last /\ i = anchor
    BY <2>1, OnlyAnchorOpen
  <2>3. row[i] # "none"
    BY <2>1
  <2>4. Prior(i) => status[i] = "filled" /\ OriginalIsSpent(i)
    BY <2>1, <2>3, SpentOriginal DEF Core, OrderInv
  <2>. QED  BY <2>1, <2>2, <2>4 DEF Promotable, Fills
<1>6. ASSUME NEW i \in retired
      PROVE  /\ i \in Ids /\ i = last /\ i = anchor /\ OpenRow(i) /\ status[i] = "dead"
             /\ (row[i] = "confirmed" \/ i \in refused)
  <2>1. CASE i \in refused
    <3>1. i \in Ids /\ OpenRow(i) /\ status[i] = "dead"
      BY <2>1 DEF Pending, OpenRow
    <3>. QED  BY <2>1, <3>1, OnlyAnchorOpen
  <2>2. CASE i \in orphans
    <3>1. i \in Ids /\ Orphaned(i) /\ ~(Fills(i) /\ ~Prior(i))
      BY <1>2, <2>2
    <3>2. OpenRow(i) /\ row[i] = "confirmed" /\ status[i] # "live"
      BY <3>1 DEF Orphaned, OpenRow
    <3>3. status[i] # "none" /\ ~Prior(i)
      BY <3>1, <3>2 DEF Core, OrderInv
    <3>4. status[i] = "dead"
      BY <3>1, <3>2, <3>3 DEF Shape, Fills
    <3>. QED  BY <3>1, <3>2, <3>4, OnlyAnchorOpen
  <2>. QED  BY <2>1, <2>2
<1>7. ASSUME NEW i \in Ids PROVE Exposed(i) \/ Gone(i)
  BY <1>4, NotExposedGone
<1>8. promoted \subseteq Ids /\ refused \subseteq retired /\ retired \subseteq Ids
  BY <1>6
<1>9. ASSUME NEW i \in Ids, OpenRow(i)' PROVE OpenRow(i) /\ i \notin retired
  BY <1>3, <1>5, <1>8, <1>9 DEF OpenRow
<1>10. ASSUME NEW i \in Ids, OpenRow(i), i \notin retired PROVE OpenRow(i)'
  BY <1>3, <1>8, <1>10 DEF OpenRow
<1>11. ASSUME NEW i \in Ids, i \notin promoted, i \notin refused PROVE row'[i] = row[i]
  BY <1>3, <1>11
<1>12. IdsInv'
  <2>1. anchor' \in {0, last}
    BY <1>3 DEF Core, IdsInv
  <2>2. ASSUME NEW i \in Ids, i > last PROVE row'[i] = "none" /\ i \notin closed'
    <3>1. i # last
      BY <2>2 DEF Shape
    <3>2. i \notin promoted /\ i \notin retired
      BY <1>5, <1>6, <3>1
    <3>. QED  BY <1>3, <1>8, <1>11, <2>2, <3>2 DEF Core, IdsInv
  <2>3. ASSUME NEW i \in Ids, i < last \/ anchor = 0 PROVE Gone(i) /\ ~OpenRow(i)'
    BY <1>9, <2>3 DEF Core, IdsInv
  <2>4. ASSUME NEW i \in Ids, anchor # 0, anchor' = 0 PROVE Gone(i) /\ ~OpenRow(i)'
    <3>1. ~keeps
      BY <1>3, <2>4
    <3>2. CASE i # anchor
      <4>1. ~OpenRow(i)
        BY <3>2, OnlyAnchorOpen
      <4>2. ~Exposed(i)
        BY <4>1 DEF Core, OrderInv
      <4>. QED  BY <1>7, <1>9, <4>1, <4>2
    <3>3. CASE i = anchor
      <4>1. CASE retired # {}
        <5>1. i \in retired
          BY <1>6, <3>3, <4>1
        <5>. QED  BY <1>6, <1>9, <5>1 DEF Gone
      <4>2. CASE ~OpenRow(anchor)
        <5>1. ~Exposed(i)
          BY <3>3, <4>2 DEF Core, OrderInv
        <5>. QED  BY <1>7, <1>9, <3>3, <4>2, <5>1
      <4>. QED  BY <2>4, <3>1, <4>1, <4>2
    <3>. QED  BY <3>2, <3>3
  <2>. QED  BY <1>1, <2>1, <2>2, <2>3, <2>4 DEF Core, IdsInv, Gone, Prior
<1>13. OrderInv'
  <2>1. ASSUME NEW i \in Ids, Exposed(i) PROVE OpenRow(i)' /\ since[i] <= created[i]
    <3>1. OpenRow(i) /\ since[i] <= created[i] /\ i \notin retired
      BY <1>6, <2>1 DEF Core, OrderInv, Exposed, Fills
    <3>. QED  BY <1>10, <3>1
  <2>2. ASSUME NEW i \in Ids
        PROVE  /\ row'[i] # "none" => Start <= since[i] /\ since[i] <= now
               /\ row'[i] = "rejected" => i \in closed'
               /\ OpenRow(i)' /\ row'[i] = "confirmed" => status[i] # "none" /\ ~Prior(i)
    <3>1. CASE i \in promoted
      BY <1>3, <1>5, <3>1 DEF Core, OrderInv, OpenRow
    <3>2. CASE i \in refused
      BY <1>3, <1>6, <1>8, <1>9, <3>2 DEF Core, OrderInv, OpenRow
    <3>3. CASE i \notin promoted /\ i \notin refused
      BY <1>3, <1>9, <1>11, <3>3 DEF Core, OrderInv
    <3>. QED  BY <3>1, <3>2, <3>3
  <2>. QED  BY <1>1, <2>1, <2>2 DEF Core, OrderInv, Exposed, Prior, Fills
<1>14. WireInv'
  BY <1>1, <1>4 DEF WireInv
<1>15. PostInv'
  BY <1>1, <1>4 DEF PostInv
<1>16. ASSUME parked' # "no"
       PROVE  keeps /\ UNCHANGED <<anchor, parked>> /\ anchor # 0 /\ anchor \in Ids
              /\ row'[anchor] = row[anchor]
  <2>1. keeps /\ anchor \notin promoted /\ UNCHANGED <<anchor, parked>>
    BY <1>3, <1>16
  <2>2. anchor # 0 /\ anchor \in Ids
    BY <1>16, <2>1 DEF Shape, Core, ParkInv
  <2>. QED  BY <1>8, <1>11, <2>1, <2>2
<1>17. ParkInv'
  <2>1. parked' # "no" => anchor' # 0 /\ pc' = "idle" /\ ~done'
    BY <1>1, <1>4, <1>16 DEF Core, ParkInv, Shape
  <2>2. parked' = "waits" => row'[anchor'] = "unknown"
    BY <1>16 DEF Core, ParkInv
  <2>3. parked' = "rejected" => /\ Gone(anchor)' /\ row'[anchor'] = "rejected"
                                /\ misses'[anchor'] = 0
    BY <1>1, <1>16 DEF Core, ParkInv, Gone, Prior
  <2>4. ASSUME parked' = "no", last # 0, status[last] = "none"
        PROVE  misses[last] = 0 /\ (row'[last] # "unknown" \/ last \in closed')
    <3>1. last \in Ids /\ misses[last] = 0 /\ last \notin promoted /\ last \notin retired
      BY <1>4, <1>5, <1>6, <2>4 DEF Shape
    <3>2. row'[last] = row[last] /\ (last \in closed' <=> last \in closed)
      BY <1>3, <1>8, <1>11, <3>1
    <3>3. CASE parked = "no"
      BY <2>4, <3>2, <3>3 DEF Core, ParkInv, ParkedRow
    <3>4. CASE parked # "no"
      <4>1. anchor = last /\ promoted = {} /\ retired = {}
        BY <1>5, <1>6, <2>4, <3>4 DEF Core, ParkInv, IdsInv
      <4>2. flat /\ ~OpenRow(last)
        BY <1>3, <2>4, <3>4, <4>1 DEF Core, ParkInv
      <4>. QED  BY <3>1, <3>2, <4>2 DEF OpenRow, ParkedRow
    <3>. QED  BY <3>1, <3>3, <3>4
  <2>. QED  BY <1>1, <2>1, <2>2, <2>3, <2>4 DEF ParkInv, ParkedRow
<1>18. DoneInv'
  <2>. SUFFICES ASSUME done' PROVE status[anchor'] # "none" /\ ~Prior(anchor')
    BY <1>1, <1>4 DEF DoneInv, Prior
  <2>1. /\ anchor' = anchor /\ anchor \in Ids
        /\ anchor \notin closed' /\ row'[anchor] = "confirmed"
    BY <1>1, <1>3 DEF Shape
  <2>2. \A i \in Ids : i \notin closed' /\ row'[i] = "confirmed" => status[i] # "none" /\ ~Prior(i)
    BY <1>1, <1>13 DEF OrderInv, OpenRow, Prior
  <2>. QED  BY <2>1, <2>2
<1>19. MissInv'
  BY <1>1, <1>4 DEF MissInv
<1>. QED  BY <1>12, <1>13, <1>14, <1>15, <1>17, <1>18, <1>19 DEF Core

LEMMA InitCore == Init => Core
<1>. SUFFICES ASSUME Init PROVE Core
  OBVIOUS
<1>1. Ids \subseteq Nat \ {0} /\ 1 \in Ids /\ Start \in Nat
  BY DispatchAssumption DEF Ids, Start
<1>2. PICK leftover \in BOOLEAN :
        /\ status = [i \in Ids |-> IF leftover /\ i = 1 THEN "filled" ELSE "none"]
        /\ shown = (IF leftover THEN {1} ELSE {})
        /\ anchor = (IF leftover THEN 1 ELSE 0) /\ last = anchor
  BY DEF Init
<1>3. /\ now = Start /\ wire = {} /\ posts = 0 /\ parked = "no" /\ pc = "idle"
      /\ created = [i \in Ids |-> 0] /\ row = [i \in Ids |-> "none"] /\ closed = {}
      /\ misses = [i \in Ids |-> 0] /\ done = FALSE
  BY DEF Init
<1>4. IdsInv
  BY <1>1, <1>2, <1>3 DEF IdsInv, Gone, Prior, OpenRow
<1>5. OrderInv
  BY <1>1, <1>2, <1>3 DEF OrderInv, Exposed, Prior, Fills, OpenRow
<1>6. WireInv /\ PostInv
  BY <1>3 DEF WireInv, PostInv
<1>7. ParkInv
  BY <1>1, <1>2, <1>3 DEF ParkInv, ParkedRow
<1>8. DoneInv /\ MissInv
  BY <1>3 DEF DoneInv, MissInv
<1>. QED  BY <1>4, <1>5, <1>6, <1>7, <1>8 DEF Core

LEMMA StutterStep ==
  ASSUME Core, UNCHANGED vars
  PROVE  Core'
<1>1. UNCHANGED <<now, status, created, shown, wire, posts, row, closed, since, anchor, parked,
                  last, up, pc, reply, misses, looked, done, crashes>>
  BY DEF vars, venueVars, storeVars, procVars
<1>2. IdsInv' /\ OrderInv'
  BY <1>1 DEF Core, IdsInv, OrderInv, Gone, Exposed, Prior, Fills, OpenRow
<1>3. WireInv' /\ PostInv'
  BY <1>1 DEF Core, WireInv, PostInv, Prior, OpenRow
<1>4. ParkInv' /\ DoneInv' /\ MissInv'
  BY <1>1 DEF Core, ParkInv, DoneInv, MissInv, Gone, Prior, Unseen, ParkedRow
<1>. QED  BY <1>2, <1>3, <1>4 DEF Core

\* The core of the invariant holds: the venue cancels no rest of a partly filled order
\* (the code takes such a row for dead), and at least two misses reject a park.
THEOREM DispatchInvariant ==
  ASSUME ~PartialCancel, MissesToReject >= 2
  PROVE  Spec => [](TypeOK /\ Core)
<1>1. MissesToReject \in Nat
  BY DispatchAssumption
<1>2. ASSUME TypeOK, Core, Next PROVE Core'
  <2>. USE <1>2, ShapeFollows
  <2>1. CASE Tick
    BY <2>1, TickStep
  <2>2. ASSUME NEW m \in Requests, Land(m) \/ LoseCreate(m) PROVE Core'
    <3>1. m \in wire
      BY <2>2 DEF Land, LoseCreate
    <3>. QED  BY <2>2, <3>1, LandStep, LoseStep
  <2>3. ASSUME NEW i \in Ids, Show(i) PROVE Core'
    BY <2>3, ShowStep
  <2>4. ASSUME NEW i \in Ids, End(i) PROVE Core'
    BY <2>4, EndStep
  <2>5. CASE Engine
    BY <2>5, PlaceStep, PlacedStep, RejectedStep, AmbiguousStep, DuplicateStep DEF Engine
  <2>6. ASSUME NEW i \in Ids, ResolveParked(i) PROVE Core'
    BY <1>1, <2>6, ResolveParkedStep
  <2>7. ASSUME NEW i \in Ids, DeadPush(i) PROVE Core'
    BY <2>7, DeadPushStep
  <2>8. CASE ConsumeResolution \/ VerifyOpen \/ FillUnparks
    BY <2>8, ConsumeStep, VerifyOpenStep, FillUnparksStep
  <2>9. CASE Crash \/ Restart
    BY <2>9, CrashStep, RestartStep
  <2>. QED  BY <2>1, <2>2, <2>3, <2>4, <2>5, <2>6, <2>7, <2>8, <2>9 DEF Next, Venue, Parked
<1>3. TypeOK /\ Core /\ [Next]_vars => Core'
  BY <1>2, StutterStep
<1>. QED  BY <1>3, InitCore, DispatchTypeCorrect, PTL DEF Spec

-----------------------------------------------------------------------------
\* The intent never holds two orders that are live or carry fills, whatever is lost,
\* answered late or interrupted (_order_post, _resolve_parked_dispatches,
\* _recover_in_flight_submissions), as long as the streak that rejects a parked dispatch
\* has at least two misses and no partly filled order is cancelled.
THEOREM NeverTwoOrders ==
  ASSUME ~PartialCancel, MissesToReject >= 2
  PROVE  Spec => []OneOrder
<1>1. ASSUME TypeOK, Core PROVE OneOrder
  <2>1. ASSUME NEW i \in Ids, Exposed(i) PROVE i = last
    BY <1>1, <2>1, ShapeFollows, OnlyAnchorOpen DEF Core, OrderInv
  <2>. QED  BY <2>1 DEF OneOrder
<1>. QED  BY <1>1, DispatchInvariant, PTL

\* What the engine counts as placed is an order of this run
\* (_duplicate_original_is_spent, _confirm_recovered_row).
THEOREM PlacedOrderIsReal ==
  ASSUME ~PartialCancel, MissesToReject >= 2
  PROVE  Spec => []PlacedIsReal
<1>1. Core => PlacedIsReal
  BY DEF Core, DoneInv, PlacedIsReal
<1>. QED  BY <1>1, DispatchInvariant, PTL

\* A row closed as rejected stands for no order of this run (_reject_parked_dispatch,
\* _retire_recovered_rejected).
THEOREM RejectedStandsForNothing ==
  ASSUME ~PartialCancel, MissesToReject >= 2
  PROVE  Spec => []RejectedIsGone
<1>1. Core => RejectedIsGone
  BY DEF Core, OrderInv, OpenRow, RejectedIsGone
<1>. QED  BY <1>1, DispatchInvariant, PTL
=================================================================================
