--------------------------- MODULE FillDeliveryProofs ---------------------------
(***************************************************************************)
(* No execution of a confirmed order moves the engine's position twice,    *)
(* for every number of orders, every overlap and any number of crashes and *)
(* stream drops; and the cursor of a confirmed row counts just what the    *)
(* position includes, unless a crash leaves a dispatch unanswered.         *)
(***************************************************************************)
EXTENDS FillDelivery, SequenceTheorems, FunctionTheorems, FiniteSetTheorems, TLAPS

(***************************************************************************)
(* The inductive invariant                                                 *)
(***************************************************************************)
\* The types the argument needs.
Shape ==
    /\ now \in Nat
    /\ execs \in Seq([order : Rows, time : Nat])
    /\ indexed \subseteq 1 .. Len(execs)
    /\ rowState \in [Rows -> {"none", "pending", "confirmed"}]
    /\ up \in BOOLEAN /\ baselined \in BOOLEAN
    /\ queue \in Seq(1 .. Len(execs)) /\ parked \in Seq(1 .. Len(execs))
    /\ adopt \in [phase : {"idle", "clock", "walk"}, snap : Nat, floor : Nat,
                  attempt : Nat, ids : SUBSET Nat, walked : SUBSET Rows, lag : BOOLEAN]
    /\ acks \subseteq Rows
    /\ owners \in [Ids -> Nat]

\* Replies are awaited behind the gate only, a pass runs before it only, and an
\* order that was never placed has not executed.
Lifecycle ==
    /\ ~up => ~baselined
    /\ acks # {} => baselined
    /\ adopt.phase # "idle" => ~baselined
    /\ \A o \in Rows : rowState[o] = "none" => ExecsOf(o) = {}

\* Unless a walk lagged, the ids of a pass hold what its walked orders executed
\* up to the position snapshot.
WalkInv ==
    /\ adopt.snap <= Len(execs)
    /\ adopt.lag \/ \A o \in adopt.walked : \A e \in ExecsOf(o) :
                       e <= adopt.snap => e \in adopt.ids

\* Rows no later recovery can promote: confirmed, or about to be by their reply.
Clean(o) == rowState[o] = "confirmed" \/ o \in acks

\* What the engine owns of a clean row it owns once, and its id is remembered.
OwnInv ==
    /\ \A e \in Ids : e \notin 1 .. Len(execs) => owners[e] = 0
    /\ ~baselined => \A e \in Ids : owners[e] = 0
    /\ \A o \in Rows : Clean(o) =>
          \A e \in ExecsOf(o) \cap Ids : owners[e] <= 1 /\ (owners[e] > 0 => e \in seen)

FillInv == Shape /\ Lifecycle /\ WalkInv /\ OwnInv

-----------------------------------------------------------------------------
(***************************************************************************)
(* Lemmas                                                                  *)
(***************************************************************************)
\* An order's executions are a finite set of positions of the venue's list.
LEMMA ExecsFinite ==
  ASSUME Shape, NEW o
  PROVE  /\ ExecsOf(o) \subseteq 1 .. Len(execs) /\ IsFiniteSet(ExecsOf(o))
         /\ Cardinality(ExecsOf(o)) \in Nat
<1>1. ExecsOf(o) \subseteq 1 .. Len(execs)
  BY DEF ExecsOf
<1>2. IsFiniteSet(1 .. Len(execs))
  BY FS_Interval DEF Shape
<1>3. IsFiniteSet(ExecsOf(o))
  BY <1>1, <1>2, FS_Subset
<1>. QED  BY <1>1, <1>3, FS_CardinalityType

\* What a sequence of executions lists.
LEMMA ListedExecs ==
  ASSUME NEW n \in Nat, NEW s \in Seq(1 .. n)
  PROVE  ToSet(s) \subseteq 1 .. n
BY DEF ToSet

\* Booking entries not seen before, and remembering them, keeps the ownership
\* (_translate_executions, _backfill_one_execution).
LEMMA BookingOwnsOnce ==
  ASSUME FillInv, baselined, baselined' = baselined,
         NEW entries \in SUBSET (1 .. Len(execs)),
         NEW fresh \in SUBSET (entries \ seen),
         seen' = seen \cup entries, Book(fresh),
         UNCHANGED <<execs, rowState, acks>>
  PROVE  owners' \in [Ids -> Nat] /\ OwnInv'
<1>1. owners' = [e \in Ids |-> IF e \in fresh THEN owners[e] + 1 ELSE owners[e]]
  BY DEF Book
<1>2. owners' \in [Ids -> Nat]
  BY <1>1 DEF FillInv, Shape
<1>3. \A e \in Ids : e \notin 1 .. Len(execs') => owners'[e] = 0
  BY <1>1 DEF FillInv, OwnInv
<1>4. ASSUME NEW o \in Rows, Clean(o)', NEW e \in ExecsOf(o)' \cap Ids
      PROVE  owners'[e] <= 1 /\ (owners'[e] > 0 => e \in seen')
  <2>1. Clean(o) /\ e \in ExecsOf(o) \cap Ids
    BY <1>4 DEF Clean, ExecsOf
  <2>2. owners[e] \in Nat /\ owners[e] <= 1 /\ (owners[e] > 0 => e \in seen)
    BY <2>1 DEF FillInv, OwnInv, Shape
  <2>. QED  BY <1>1, <2>1, <2>2
<1>. QED  BY <1>2, <1>3, <1>4 DEF OwnInv

\* A step that leaves alone what the ownership talks about.
LEMMA OwnStutter ==
  ASSUME OwnInv, UNCHANGED <<execs, rowState, acks, baselined, seen, owners>>
  PROVE  OwnInv'
BY DEF OwnInv, Clean, ExecsOf

LEMMA LifeStutter ==
  ASSUME Lifecycle, UNCHANGED <<execs, rowState, acks, baselined, up, adopt>>
  PROVE  Lifecycle'
BY DEF Lifecycle, ExecsOf

LEMMA WalkStutter ==
  ASSUME WalkInv, UNCHANGED <<execs, adopt>>
  PROVE  WalkInv'
BY DEF WalkInv, ExecsOf

-----------------------------------------------------------------------------
(***************************************************************************)
(* The steps                                                               *)
(***************************************************************************)
LEMMA InitInv == Init => FillInv
<1>. SUFFICES ASSUME Init PROVE FillInv
  OBVIOUS
<1>1. execs = <<>> /\ Len(execs) = 0 /\ \A o : ExecsOf(o) = {}
  BY DEF Init, ExecsOf
<1>2. Shape
  <2>1. <<>> \in Seq([order : Rows, time : Nat]) /\ <<>> \in Seq(1 .. 0)
    OBVIOUS
  <2>2. NoAdoption \in [phase : {"idle", "clock", "walk"}, snap : Nat, floor : Nat,
                         attempt : Nat, ids : SUBSET Nat, walked : SUBSET Rows,
                         lag : BOOLEAN]
    BY DEF NoAdoption
  <2>. QED  BY <1>1, <2>1, <2>2 DEF Init, Shape
<1>3. Lifecycle /\ WalkInv
  BY <1>1 DEF Init, Lifecycle, WalkInv, NoAdoption
<1>4. OwnInv
  BY <1>1 DEF Init, OwnInv
<1>. QED  BY <1>2, <1>3, <1>4 DEF FillInv

LEMMA VenueStep == FillInv /\ Venue => FillInv'
<1>. SUFFICES ASSUME FillInv, Venue PROVE FillInv'
  OBVIOUS
<1>. USE DEF FillInv
<1>1. CASE Tick
  <2>1. Shape'
    BY <1>1 DEF Shape, Tick, rowVars, loopVars, adoptVars, procVars
  <2>. QED
    BY <1>1, <2>1, OwnStutter, LifeStutter, WalkStutter
    DEF Tick, rowVars, loopVars, adoptVars, procVars
<1>2. ASSUME NEW o \in Rows, Execute(o) PROVE FillInv'
  <2>. DEFINE new == Len(execs) + 1
  <2>1. /\ execs' = Append(execs, [order |-> o, time |-> now]) /\ Len(execs') = new
        /\ execs' \in Seq([order : Rows, time : Nat])
        /\ \A e \in 1 .. Len(execs) : execs'[e] = execs[e]
        /\ execs'[new] = [order |-> o, time |-> now]
        /\ 1 .. Len(execs') = (1 .. Len(execs)) \cup {new}
    BY <1>2 DEF Execute, Shape
  <2>2. ExecsOf(o)' = ExecsOf(o) \cup {new}
        /\ \A p \in Rows \ {o} : ExecsOf(p)' = ExecsOf(p)
    BY <2>1 DEF ExecsOf
  <2>3. queue' \in Seq(1 .. Len(execs')) /\ parked' \in Seq(1 .. Len(execs'))
    <3>1. queue \in Seq(1 .. Len(execs')) /\ parked \in Seq(1 .. Len(execs'))
      BY <2>1 DEF Shape
    <3>2. new \in 1 .. Len(execs')
      BY <2>1
    <3>3. queue' = (IF open THEN Append(queue, new) ELSE queue) /\ parked' = parked
      BY <1>2 DEF Execute
    <3>4. Append(queue, new) \in Seq(1 .. Len(execs'))
      BY <3>1, <3>2
    <3>. QED  BY <3>1, <3>3, <3>4
  <2>4. Shape'
    BY <1>2, <2>1, <2>3 DEF Shape, Execute, rowVars, adoptVars, procVars
  <2>5. Lifecycle'
    BY <1>2, <2>2 DEF Lifecycle, Execute, rowVars, adoptVars, procVars
  <2>6. WalkInv'
    <3>1. adopt' = adopt /\ adopt.snap \in Nat /\ adopt.walked \subseteq Rows
      BY <1>2 DEF Execute, adoptVars, Shape
    <3>2. Len(execs) \in Nat /\ adopt.snap < new
      BY <3>1 DEF WalkInv, Shape
    <3>3. ASSUME NEW p \in adopt.walked, NEW e \in ExecsOf(p)', e <= adopt.snap
          PROVE  e \in ExecsOf(p)
      BY <2>2, <3>1, <3>2, <3>3
    <3>. QED  BY <2>1, <3>1, <3>2, <3>3 DEF WalkInv
  <2>7. OwnInv'
    <3>1. new \in Ids => owners[new] = 0
      BY DEF OwnInv, Shape
    <3>. QED  BY <1>2, <2>1, <2>2, <3>1 DEF OwnInv, Clean, Execute, rowVars, adoptVars, procVars
  <2>. QED  BY <2>4, <2>5, <2>6, <2>7
<1>3. ASSUME NEW e \in Ids, Index(e) PROVE FillInv'
  <2>1. Shape'
    BY <1>3 DEF Shape, Index, rowVars, loopVars, adoptVars, procVars
  <2>. QED
    BY <1>3, <2>1, OwnStutter, LifeStutter, WalkStutter
    DEF Index, rowVars, loopVars, adoptVars, procVars
<1>4. CASE Drop
  <2>1. queue' \in Seq(1 .. Len(execs))
    <3>1. PICK n \in 0 .. Len(queue) : queue' = SubSeq(queue, 1, n)
      BY <1>4 DEF Drop
    <3>2. \A i \in 1 .. n : queue[i] \in 1 .. Len(execs)
      BY <3>1 DEF Shape
    <3>. QED  BY <3>1, <3>2, SubSeqProperties
  <2>2. Shape'
    BY <1>4, <2>1 DEF Shape, Drop, venueVars, rowVars, adoptVars
  <2>. QED
    BY <1>4, <2>2, OwnStutter, LifeStutter, WalkStutter
    DEF Drop, venueVars, rowVars, adoptVars
<1>. QED  BY <1>1, <1>2, <1>3, <1>4 DEF Venue

LEMMA EngineStep == FillInv /\ Engine => FillInv'
<1>. SUFFICES ASSUME FillInv, NEW o \in Rows, Place(o) \/ Ack(o) PROVE FillInv'
  BY DEF Engine
<1>. USE DEF FillInv
<1>1. UNCHANGED <<now, execs, indexed, queue, parked, up, baselined, adopt, seen, owners>>
  BY DEF Place, Ack, venueVars, loopVars, adoptVars
<1>2. baselined /\ acks' \subseteq Rows
      /\ rowState' \in [Rows -> {"none", "pending", "confirmed"}]
  BY DEF Place, Ack, Lifecycle, Shape
<1>3. \A p \in Rows : /\ rowState'[p] = "none" => rowState[p] = "none"
                      /\ Clean(p)' => Clean(p) \/ ExecsOf(p) = {}
  BY DEF Place, Ack, Clean, Lifecycle, Shape
<1>4. \A p : ExecsOf(p)' = ExecsOf(p)
  BY <1>1 DEF ExecsOf
<1>5. Shape'
  BY <1>1, <1>2 DEF Shape
<1>6. Lifecycle'
  BY <1>1, <1>2, <1>3, <1>4 DEF Lifecycle
<1>7. OwnInv'
  BY <1>1, <1>3, <1>4 DEF OwnInv
<1>. QED  BY <1>1, <1>5, <1>6, <1>7, WalkStutter

\* A step of the loop that only books: the entries are executions of the venue.
LEMMA BookingStep ==
  ASSUME FillInv, baselined,
         NEW entries \in SUBSET (1 .. Len(execs)), NEW fresh \in SUBSET (entries \ seen),
         seen' = seen \cup entries, Book(fresh),
         queue' \in Seq(1 .. Len(execs)), parked' \in Seq(1 .. Len(execs)),
         UNCHANGED <<now, execs, indexed, rowState, up, baselined, adopt, acks>>
  PROVE  FillInv'
<1>1. owners' \in [Ids -> Nat] /\ OwnInv'
  BY BookingOwnsOnce
<1>2. Shape'
  BY <1>1 DEF FillInv, Shape
<1>. QED  BY <1>1, <1>2, LifeStutter, WalkStutter DEF FillInv

\* The entries of a window or of orders are executions of the venue.
LEMMA ReadsAreExecs ==
  ASSUME Shape
  PROVE  /\ Window \subseteq 1 .. Len(execs)
         /\ \A read : UNION {OrderExecutions(o) : o \in read} \subseteq 1 .. Len(execs)
BY DEF Shape, Window, OrderExecutions, Indexed

LEMMA LoopStep == FillInv /\ Loop => FillInv'
<1>. SUFFICES ASSUME FillInv, Loop PROVE FillInv'
  OBVIOUS
<1>0. Shape /\ ToSet(parked) \subseteq 1 .. Len(execs)
  BY ListedExecs DEF FillInv, Shape
<1>1. CASE HandleFrame
  <2>1. /\ queue # <<>> /\ queue' = Tail(queue)
        /\ UNCHANGED <<now, execs, indexed, rowState, up, baselined, adopt, acks>>
    BY <1>1 DEF HandleFrame, venueVars, adoptVars, procVars
  <2>2. queue' \in Seq(1 .. Len(execs)) /\ Head(queue) \in 1 .. Len(execs)
    BY <1>0, <2>1 DEF Shape
  <2>3. CASE baselined
    <3>. DEFINE entries == ToSet(parked) \cup {Head(queue)}
    <3>1. seen' = seen \cup entries /\ Book(entries \ seen) /\ parked' = <<>>
      BY <1>1, <2>3 DEF HandleFrame, Translate
    <3>2. entries \in SUBSET (1 .. Len(execs))
      BY <1>0, <2>2
    <3>3. parked' \in Seq(1 .. Len(execs))
      BY <3>1
    <3>. HIDE DEF entries
    <3>. QED  BY <2>1, <2>2, <2>3, <3>1, <3>2, <3>3, BookingStep
  <2>4. CASE ~baselined
    <3>1. parked' = Append(parked, Head(queue)) /\ UNCHANGED <<seen, owners>>
      BY <1>1, <2>4 DEF HandleFrame, bookVars
    <3>2. parked' \in Seq(1 .. Len(execs))
      BY <1>0, <2>2, <3>1 DEF Shape
    <3>3. Shape'
      BY <1>0, <2>1, <2>2, <3>1, <3>2 DEF Shape
    <3>. QED  BY <2>1, <3>1, <3>3, OwnStutter, LifeStutter, WalkStutter DEF FillInv
  <2>. QED  BY <1>0, <2>3, <2>4 DEF Shape
<1>2. CASE ReplayParked
  <2>1. /\ baselined /\ parked' = <<>> /\ queue' = queue
        /\ seen' = seen \cup ToSet(parked) /\ Book(ToSet(parked) \ seen)
        /\ UNCHANGED <<now, execs, indexed, rowState, up, baselined, adopt, acks>>
    BY <1>2 DEF ReplayParked, Translate, venueVars, adoptVars, procVars
  <2>2. parked' \in Seq(1 .. Len(execs)) /\ queue' \in Seq(1 .. Len(execs))
    BY <1>0, <2>1 DEF Shape
  <2>. QED  BY <1>0, <2>1, <2>2, BookingStep
<1>3. CASE Reconnect \/ NoteUnbooked
  <2>1. /\ UNCHANGED <<now, execs, indexed, rowState, up, baselined, adopt, acks,
                       parked, seen, owners>>
        /\ queue' = <<>> \/ queue' = queue
    BY <1>3 DEF Reconnect, NoteUnbooked, venueVars, rowVars, adoptVars, procVars
  <2>2. queue' \in Seq(1 .. Len(execs)) /\ parked' \in Seq(1 .. Len(execs))
    <3>1. <<>> \in Seq(1 .. Len(execs))
      OBVIOUS
    <3>. QED  BY <1>0, <2>1, <3>1 DEF Shape
  <2>3. Shape'
    BY <1>0, <2>1, <2>2 DEF Shape
  <2>. QED  BY <2>1, <2>3, OwnStutter, LifeStutter, WalkStutter DEF FillInv
<1>4. CASE Backfill \/ BackfillBreaks \/ RecoverUnbooked \/ RecoverFails
  <2>1. UNCHANGED <<now, execs, indexed, rowState, up, baselined, adopt, acks, queue, parked>>
    BY <1>4 DEF Backfill, BackfillBreaks, RecoverUnbooked, RecoverFails,
                venueVars, adoptVars, procVars
  <2>2. \/ UNCHANGED <<seen, owners>>
        \/ /\ baselined
           /\ \E entries \in SUBSET (1 .. Len(execs)) : BackfillEntries(entries)
    <3>1. CASE Backfill
      BY <1>0, <3>1, ReadsAreExecs DEF Backfill, bookVars
    <3>2. CASE BackfillBreaks
      <4>1. PICK from : BackfillEntries({e \in Window : e >= from})
        BY <3>2 DEF BackfillBreaks
      <4>2. {e \in Window : e >= from} \in SUBSET (1 .. Len(execs)) /\ baselined
        BY <1>0, <3>2, ReadsAreExecs DEF BackfillBreaks
      <4>. QED  BY <4>1, <4>2
    <3>3. CASE RecoverUnbooked
      BY <1>0, <3>3, ReadsAreExecs DEF RecoverUnbooked, RecoverReads, bookVars
    <3>4. CASE RecoverFails
      BY <1>0, <3>4, ReadsAreExecs DEF RecoverFails, RecoverReads
    <3>. QED  BY <1>4, <3>1, <3>2, <3>3, <3>4
  <2>3. CASE UNCHANGED <<seen, owners>>
    <3>1. Shape'
      BY <1>0, <2>1, <2>3 DEF Shape
    <3>. QED  BY <2>1, <2>3, <3>1, OwnStutter, LifeStutter, WalkStutter DEF FillInv
  <2>4. ASSUME baselined, NEW entries \in SUBSET (1 .. Len(execs)), BackfillEntries(entries)
        PROVE  FillInv'
    <3>. DEFINE fresh == {e \in entries \ seen : CursorLeaves(entries \ seen, e)}
    <3>1. seen' = seen \cup entries /\ Book(fresh) /\ fresh \in SUBSET (entries \ seen)
      BY <2>4 DEF BackfillEntries
    <3>2. queue' \in Seq(1 .. Len(execs)) /\ parked' \in Seq(1 .. Len(execs))
      BY <1>0, <2>1 DEF Shape
    <3>. HIDE DEF fresh
    <3>. QED  BY <2>1, <2>4, <3>1, <3>2, BookingStep
  <2>. QED  BY <2>2, <2>3, <2>4
<1>. QED  BY <1>1, <1>2, <1>3, <1>4 DEF Loop

\* A pass that does not commit changes nothing but itself.
LEMMA PassStep ==
  ASSUME FillInv, ~baselined,
         UNCHANGED <<venueVars, rowVars, loopVars, baselined, procVars, seen, owners>>,
         adopt' \in [phase : {"idle", "clock", "walk"}, snap : Nat, floor : Nat,
                     attempt : Nat, ids : SUBSET Nat, walked : SUBSET Rows, lag : BOOLEAN],
         WalkInv'
  PROVE  FillInv'
<1>1. UNCHANGED <<now, execs, indexed, rowState, up, baselined, acks, queue, parked,
                  seen, owners>>
  BY DEF venueVars, rowVars, loopVars, procVars
<1>2. Shape'
  BY <1>1 DEF FillInv, Shape
<1>3. Lifecycle'
  BY <1>1 DEF FillInv, Lifecycle, ExecsOf
<1>. QED  BY <1>1, <1>2, <1>3, OwnStutter DEF FillInv

\* A walk that does not lag found all its order executed: the seed is complete.
LEMMA WalkStep == FillInv /\ (\E o \in Rows : AdoptWalk(o)) => FillInv'
<1>. SUFFICES ASSUME FillInv, NEW o \in Rows, AdoptWalk(o) PROVE FillInv'
  OBVIOUS
<1>. DEFINE ids == OrderExecutions(o) \cup ParkedOf(o)
<1>1. Shape /\ Lifecycle /\ WalkInv
  BY DEF FillInv
<1>2. ids \subseteq ExecsOf(o)
  BY DEF OrderExecutions, Indexed, ParkedOf
<1>3. ExecsOf(o) \subseteq 1 .. Len(execs) /\ IsFiniteSet(ExecsOf(o))
      /\ Cardinality(ExecsOf(o)) \in Nat
  BY <1>1, ExecsFinite
<1>4. IsFiniteSet(ids) /\ Cardinality(ids) \in Nat
      /\ Cardinality(ids) <= Cardinality(ExecsOf(o))
      /\ (Cardinality(ExecsOf(o)) = Cardinality(ids) => ExecsOf(o) = ids)
  BY <1>2, <1>3, FS_Subset, FS_CardinalityType
<1>5. adopt' = [adopt EXCEPT !.walked = @ \cup {o}, !.ids = @ \cup ids,
                             !.lag = @ \/ Cardinality(ids) < CumExec(o)]
  BY DEF AdoptWalk
<1>6. ids \in SUBSET Nat
  BY <1>1, <1>2, <1>3 DEF Shape
<1>. HIDE DEF ids
<1>7. /\ adopt'.phase = adopt.phase /\ adopt'.snap = adopt.snap
      /\ adopt'.walked = adopt.walked \cup {o} /\ adopt'.ids = adopt.ids \cup ids
      /\ adopt'.lag = (adopt.lag \/ Cardinality(ids) < CumExec(o))
      /\ adopt' \in [phase : {"idle", "clock", "walk"}, snap : Nat, floor : Nat,
                     attempt : Nat, ids : SUBSET Nat, walked : SUBSET Rows, lag : BOOLEAN]
  BY <1>1, <1>5, <1>6 DEF Shape
<1>8. ~baselined /\ UNCHANGED <<venueVars, rowVars, loopVars, baselined, procVars, seen, owners>>
  BY <1>1 DEF AdoptWalk, Lifecycle
<1>9. WalkInv'
  <2>1. execs' = execs /\ \A p : ExecsOf(p)' = ExecsOf(p)
    BY <1>8 DEF venueVars, ExecsOf
  <2>2. ASSUME ~adopt'.lag, NEW p \in adopt'.walked, NEW e \in ExecsOf(p), e <= adopt.snap
        PROVE  e \in adopt'.ids
    <3>1. CASE p = o
      <4>1. ExecsOf(o) = ids
        BY <1>3, <1>4, <1>7, <2>2 DEF CumExec
      <4>. QED  BY <1>7, <2>2, <3>1, <4>1
    <3>2. CASE p # o
      BY <1>1, <1>7, <2>2, <3>2 DEF WalkInv
    <3>. QED  BY <3>1, <3>2
  <2>. QED  BY <1>1, <1>7, <2>1, <2>2 DEF WalkInv
<1>. QED  BY <1>7, <1>8, <1>9, PassStep

\* The commit: the snapshot is still the venue's position and no walk lagged, so
\* what the engine adopts of a confirmed row is what the frontier remembers.
LEMMA CommitStep == FillInv /\ AdoptCommit => FillInv'
<1>. SUFFICES ASSUME FillInv, AdoptCommit PROVE FillInv'
  OBVIOUS
<1>1. Shape /\ Lifecycle /\ WalkInv
  BY DEF FillInv
<1>2. /\ up /\ baselined' = TRUE /\ adopt' = NoAdoption /\ floor' = adopt.floor
      /\ seen' = seen \cup adopt.ids
      /\ owners' = [e \in Ids |-> IF e <= adopt.snap THEN 1 ELSE 0]
      /\ UNCHANGED <<now, execs, indexed, rowState, up, acks, queue, parked>>
  BY DEF AdoptCommit, venueVars, loopVars, procVars
<1>3. ~baselined /\ acks = {}
  BY <1>1 DEF AdoptCommit, Walked, Lifecycle
<1>4. Len(execs) = adopt.snap /\ ~adopt.lag
      /\ \A o \in Rows : rowState[o] = "confirmed" => o \in adopt.walked
  BY DEF AdoptCommit, Walked, Stable, Walkable
<1>5. \A p : ExecsOf(p)' = ExecsOf(p) /\ ExecsOf(p) \subseteq 1 .. Len(execs)
  BY <1>2 DEF ExecsOf
<1>6. Shape'
  <2>1. NoAdoption \in [phase : {"idle", "clock", "walk"}, snap : Nat, floor : Nat,
                         attempt : Nat, ids : SUBSET Nat, walked : SUBSET Rows,
                         lag : BOOLEAN]
    BY DEF NoAdoption
  <2>. QED  BY <1>1, <1>2, <2>1 DEF Shape
<1>7. Lifecycle' /\ WalkInv'
  BY <1>1, <1>2, <1>5 DEF Lifecycle, WalkInv, NoAdoption, Shape
<1>8. OwnInv'
  <2>1. \A e \in Ids : e \notin 1 .. Len(execs') => owners'[e] = 0
    <3>1. \A e \in Ids : e \in Int /\ e >= 1
      BY DEF Ids
    <3>. QED  BY <1>1, <1>2, <1>4, <3>1 DEF Shape
  <2>2. ASSUME NEW o \in Rows, Clean(o)', NEW e \in ExecsOf(o)' \cap Ids
        PROVE  owners'[e] <= 1 /\ (owners'[e] > 0 => e \in seen')
    <3>1. rowState[o] = "confirmed" /\ e \in ExecsOf(o) /\ e <= adopt.snap
      BY <1>1, <1>2, <1>3, <1>4, <1>5, <2>2 DEF Clean, Shape
    <3>2. e \in adopt.ids
      BY <1>1, <1>4, <3>1 DEF WalkInv
    <3>. QED  BY <1>2, <2>2, <3>1, <3>2
  <2>. QED  BY <1>2, <2>1, <2>2 DEF OwnInv
<1>. QED  BY <1>6, <1>7, <1>8 DEF FillInv

LEMMA AdoptionStep == FillInv /\ Adoption => FillInv'
<1>. SUFFICES ASSUME FillInv, Adoption PROVE FillInv'
  OBVIOUS
<1>. DEFINE PassType == [phase : {"idle", "clock", "walk"}, snap : Nat, floor : Nat,
                         attempt : Nat, ids : SUBSET Nat, walked : SUBSET Rows,
                         lag : BOOLEAN]
<1>1. Shape /\ Lifecycle /\ WalkInv /\ Len(execs) \in Nat
  BY DEF FillInv, Shape
<1>2. NoAdoption \in PassType
  BY DEF NoAdoption
<1>3. CASE AdoptSnapshot
  <2>1. adopt' \in PassType /\ adopt'.snap = Len(execs) /\ adopt'.walked = {}
    BY <1>1, <1>3 DEF AdoptSnapshot, NoAdoption
  <2>2. execs' = execs
    BY <1>3 DEF AdoptSnapshot, venueVars
  <2>3. WalkInv'
    BY <1>1, <2>1, <2>2 DEF WalkInv
  <2>. QED  BY <1>3, <2>1, <2>3, PassStep DEF AdoptSnapshot
<1>4. CASE AdoptClock
  <2>1. adopt' \in PassType /\ adopt'.snap = adopt.snap /\ adopt'.walked = adopt.walked
        /\ adopt'.ids = adopt.ids /\ adopt'.lag = adopt.lag
    BY <1>1, <1>4 DEF AdoptClock, Shape
  <2>2. execs' = execs /\ \A o : ExecsOf(o)' = ExecsOf(o)
    BY <1>4 DEF AdoptClock, venueVars, ExecsOf
  <2>3. WalkInv'
    BY <1>1, <2>1, <2>2 DEF WalkInv
  <2>. QED  BY <1>1, <1>4, <2>1, <2>3, PassStep DEF AdoptClock, Lifecycle
<1>5. CASE AdoptRetry \/ AdoptFails
  <2>1. adopt' = NoAdoption
        \/ adopt' = [adopt EXCEPT !.attempt = @ + 1, !.snap = Len(execs), !.ids = {},
                                  !.walked = {}, !.lag = FALSE]
    BY <1>5 DEF AdoptRetry, AdoptFails
  <2>2. adopt' \in PassType /\ adopt'.snap <= Len(execs) /\ adopt'.walked = {}
    <3>1. CASE adopt' = NoAdoption
      BY <1>1, <1>2, <3>1 DEF NoAdoption
    <3>2. CASE adopt' = [adopt EXCEPT !.attempt = @ + 1, !.snap = Len(execs), !.ids = {},
                                      !.walked = {}, !.lag = FALSE]
      <4>1. adopt \in PassType /\ adopt.attempt \in Nat
        BY <1>1 DEF Shape
      <4>2. adopt' = [phase |-> adopt.phase, snap |-> Len(execs), floor |-> adopt.floor,
                      attempt |-> adopt.attempt + 1, ids |-> {}, walked |-> {},
                      lag |-> FALSE]
        BY <3>2, <4>1
      <4>3. adopt' \in PassType
        BY <1>1, <4>1, <4>2
      <4>4. adopt'.snap = Len(execs) /\ adopt'.walked = {}
        BY <3>2, <4>1
      <4>. QED  BY <1>1, <4>3, <4>4
    <3>. QED  BY <2>1, <3>1, <3>2
  <2>3. ~baselined
        /\ UNCHANGED <<venueVars, rowVars, loopVars, baselined, procVars, seen, owners>>
    BY <1>1, <1>5 DEF AdoptRetry, AdoptFails, Walked, Lifecycle
  <2>4. WalkInv'
    BY <2>2, <2>3 DEF WalkInv, venueVars
  <2>. QED  BY <2>2, <2>3, <2>4, PassStep
<1>. QED  BY <1>3, <1>4, <1>5, WalkStep, CommitStep DEF Adoption

\* The frontier dies with the process, and so does the engine's position.
LEMMA CrashStep == FillInv /\ Crash => FillInv'
<1>. SUFFICES ASSUME FillInv, Crash PROVE FillInv'
  OBVIOUS
<1>1. /\ up' = FALSE /\ baselined' = FALSE /\ adopt' = NoAdoption /\ acks' = {}
      /\ queue' = <<>> /\ parked' = <<>> /\ owners' = [e \in Ids |-> 0]
      /\ UNCHANGED <<now, execs, indexed, rowState>>
  BY DEF Crash, venueVars, rowVars
<1>2. \A p : ExecsOf(p)' = ExecsOf(p)
  BY <1>1 DEF ExecsOf
<1>3. Shape'
  <2>1. NoAdoption \in [phase : {"idle", "clock", "walk"}, snap : Nat, floor : Nat,
                         attempt : Nat, ids : SUBSET Nat, walked : SUBSET Rows,
                         lag : BOOLEAN]
    BY DEF NoAdoption
  <2>2. queue' \in Seq(1 .. Len(execs')) /\ parked' \in Seq(1 .. Len(execs'))
    BY <1>1
  <2>. QED  BY <1>1, <2>1, <2>2 DEF FillInv, Shape
<1>4. Lifecycle' /\ WalkInv'
  BY <1>1, <1>2 DEF FillInv, Shape, Lifecycle, WalkInv, NoAdoption
<1>5. OwnInv'
  BY <1>1 DEF OwnInv
<1>. QED  BY <1>3, <1>4, <1>5 DEF FillInv

\* A recovered row is clean from here on: the engine owns nothing yet.
LEMMA RestartStep == FillInv /\ Restart => FillInv'
<1>. SUFFICES ASSUME FillInv, Restart PROVE FillInv'
  OBVIOUS
<1>1. PICK found \in SUBSET {o \in Rows : Recoverable(o)} :
        rowState' = [o \in Rows |-> IF o \in found THEN "confirmed" ELSE rowState[o]]
  BY DEF Restart
<1>2. /\ ~up /\ up' = TRUE
      /\ UNCHANGED <<now, execs, indexed, baselined, adopt, acks, queue, parked, owners>>
  BY DEF Restart, venueVars, loopVars, adoptVars
<1>3. ~baselined /\ \A e \in Ids : owners[e] = 0
  BY <1>2 DEF FillInv, Lifecycle, OwnInv
<1>4. \A p : ExecsOf(p)' = ExecsOf(p)
  BY <1>2 DEF ExecsOf
<1>5. Shape'
  BY <1>1, <1>2 DEF FillInv, Shape
<1>6. Lifecycle'
  BY <1>1, <1>2, <1>3, <1>4 DEF FillInv, Lifecycle
<1>7. OwnInv'
  BY <1>2, <1>3 DEF OwnInv
<1>. QED  BY <1>2, <1>5, <1>6, <1>7, WalkStutter DEF FillInv

\* A step that changes nothing.
LEMMA StutterStep == FillInv /\ UNCHANGED vars => FillInv'
<1>. SUFFICES ASSUME FillInv, UNCHANGED vars PROVE FillInv'
  OBVIOUS
<1>1. UNCHANGED <<now, execs, indexed, rowState, up, baselined, adopt, acks, queue,
                  parked, seen, owners>>
  BY DEF vars, venueVars, rowVars, loopVars, adoptVars, procVars
<1>2. Shape'
  BY <1>1 DEF FillInv, Shape
<1>. QED  BY <1>1, <1>2, OwnStutter, LifeStutter, WalkStutter DEF FillInv

LEMMA FillInvariant == Spec => []FillInv
<1>1. FillInv /\ [Next]_vars => FillInv'
  BY VenueStep, EngineStep, LoopStep, AdoptionStep, CrashStep, RestartStep, StutterStep
  DEF Next
<1>. QED  BY <1>1, InitInv, PTL DEF Spec

-----------------------------------------------------------------------------
(***************************************************************************)
(* The theorem                                                             *)
(***************************************************************************)
\* Whatever the stream drops and repeats, however late the execution list is and
\* however often the process dies: an execution of a confirmed order moves the
\* engine's position at most once (_apply_adoption_baseline, the seen-id gate of
\* _translate_executions and _backfill_one_execution).
THEOREM FillsOwnedOnce == Spec => []RowFillsOwnedOnce
<1>1. FillInv => RowFillsOwnedOnce
  <2>. SUFFICES ASSUME FillInv, NEW e \in Ids, RowExec(e) PROVE owners[e] <= 1
    BY DEF RowFillsOwnedOnce
  <2>1. execs[e].order \in Rows /\ Clean(execs[e].order) /\ e \in ExecsOf(execs[e].order)
    BY DEF RowExec, Clean, ExecsOf
  <2>. QED  BY <2>1 DEF FillInv, OwnInv
<1>. QED  BY <1>1, FillInvariant, PTL

-----------------------------------------------------------------------------
(***************************************************************************)
(* The cursors                                                             *)
(***************************************************************************)
Owned(o) == {e \in ExecsOf(o) : owners[e] > 0}

\* Every order that was placed was confirmed, or this process awaits its reply.
NonePending == \A o \in Rows : rowState[o] = "none" \/ Clean(o)

CursorShape ==
    /\ filled \in [Rows -> Nat] /\ crashes \in Nat
    /\ \A o \in Rows : CumExec(o) <= Size
    /\ \A o \in Rows : rowState[o] = "none" => filled[o] = 0

\* Behind the baseline a clean row's cursor counts what the engine owns; without
\* one, and for every row a restart may still confirm, it has not passed the venue.
AgreeInv ==
    /\ CursorShape
    /\ baselined => \A o \in Rows : Clean(o) => filled[o] = Cardinality(Owned(o))
    /\ ~baselined => \A o \in Rows : rowState[o] = "confirmed" => filled[o] <= CumExec(o)
    /\ ~up => \A o \in Rows : filled[o] <= CumExec(o)
    /\ NonePending \/ crashes >= MaxCrashes

\* No process dies while the reply of a dispatch is still to come.
NonePendingDown == ~up => \A o \in Rows : rowState[o] # "pending"

\* An execution is of an order of the run.
LEMMA ExecsTyped ==
  ASSUME NEW x \in Seq([order : Rows, time : Nat])
  PROVE  Len(x) \in Nat /\ \A e \in 1 .. Len(x) : x[e].order \in Rows
<1>. DEFINE Execution == [order : Rows, time : Nat]
<1>1. \A y \in Execution : y.order \in Rows
  OBVIOUS
<1>2. x \in Seq(Execution)
  OBVIOUS
<1>. HIDE DEF Execution
<1>3. Len(x) \in Nat /\ \A e \in 1 .. Len(x) : x[e] \in Execution
  BY <1>2
<1>. QED  BY <1>1, <1>3

\* The ids are enough: an execution is told by its order and its rank in it.
LEMMA IdsSuffice ==
  ASSUME NEW x \in Seq([order : Rows, time : Nat]),
         \A o \in Rows : Cardinality({e \in 1 .. Len(x) : x[e].order = o}) <= Size
  PROVE  1 .. Len(x) \subseteq Ids
<1>. DEFINE n == Len(x)
            of(o) == {e \in 1 .. Len(x) : x[e].order = o}
            upTo(e) == {d \in of(x[e].order) : d <= e}
            rank(e) == Cardinality(upTo(e))
            f == [e \in 1 .. n |-> <<x[e].order, rank(e)>>]
<1>. HIDE DEF f
<1>1. n \in Nat /\ \A e \in 1 .. n : x[e].order \in Rows
  BY ExecsTyped
<1>2. ASSUME NEW e \in 1 .. n
      PROVE  /\ IsFiniteSet(upTo(e)) /\ rank(e) \in 1 .. Size /\ e \in upTo(e)
  <2>1. x[e].order \in Rows /\ IsFiniteSet(of(x[e].order))
        /\ Cardinality(of(x[e].order)) \in Nat /\ Cardinality(of(x[e].order)) <= Size
    <3>1. of(x[e].order) \in SUBSET (1 .. n) /\ IsFiniteSet(1 .. n)
      BY <1>1, FS_Interval
    <3>2. IsFiniteSet(of(x[e].order)) /\ Cardinality(of(x[e].order)) \in Nat
      <4>. HIDE DEF of
      <4>. QED  BY <3>1, FS_Subset, FS_CardinalityType
    <3>. QED  BY <1>1, <3>2
  <2>2. upTo(e) \in SUBSET of(x[e].order) /\ e \in upTo(e)
    BY <1>1
  <2>. HIDE DEF of, upTo
  <2>3. IsFiniteSet(upTo(e)) /\ rank(e) <= Cardinality(of(x[e].order)) /\ rank(e) \in Nat
    BY <2>1, <2>2, FS_Subset, FS_CardinalityType
  <2>4. rank(e) # 0
    BY <2>2, <2>3, FS_EmptySet
  <2>. QED  BY <2>1, <2>2, <2>3, <2>4, FillDeliveryAssumption
<1>3. ASSUME NEW d \in 1 .. n, NEW e \in 1 .. n, f[d] = f[e], d < e
      PROVE  FALSE
  <2>1. x[d].order = x[e].order /\ rank(d) = rank(e)
    <3>. HIDE DEF rank
    <3>. QED  BY <1>3 DEF f
  <2>2. upTo(d) \in SUBSET upTo(e) /\ e \in upTo(e) /\ e \notin upTo(d)
    <3>1. \A c : c \in upTo(d) => c \in upTo(e)
      <4>1. \A c \in of(x[d].order) : c \in Int
        OBVIOUS
      <4>. QED  BY <1>3, <2>1, <4>1
    <3>2. e \notin upTo(d) /\ e \in upTo(e)
      <4>1. d \in Int /\ e \in Int /\ d < e
        BY <1>3
      <4>2. e \in upTo(e)
        <5>. HIDE DEF upTo
        <5>. QED  BY <1>2
      <4>3. e \notin upTo(d)
        BY <4>1
      <4>. QED  BY <4>2, <4>3
    <3>. QED  BY <3>1, <3>2
  <2>3. IsFiniteSet(upTo(e))
    BY <1>2
  <2>. HIDE DEF upTo
  <2>. QED  BY <2>1, <2>2, <2>3, FS_Subset
<1>4. f \in Injection(1 .. n, Rows \X (1 .. Size))
  <2>1. \A e \in 1 .. n : rank(e) \in 1 .. Size
    BY <1>2
  <2>2. \A e \in 1 .. n : <<x[e].order, rank(e)>> \in Rows \X (1 .. Size)
    <3>. HIDE DEF rank
    <3>. QED  BY <1>1, <2>1
  <2>3. f \in [1 .. n -> Rows \X (1 .. Size)]
    <3>. HIDE DEF rank
    <3>. QED  BY <2>2 DEF f
  <2>4. \A d, e \in 1 .. n : f[d] = f[e] => d = e
    <3>1. \A d, e \in 1 .. n : f[d] = f[e] => ~(d < e) /\ ~(e < d)
      BY <1>3
    <3>. QED  BY <1>1, <3>1
  <2>. QED  BY <2>3, <2>4, Fun_IsInj
<1>5. IsFiniteSet(Rows \X (1 .. Size))
      /\ Cardinality(Rows \X (1 .. Size)) = Cardinality(Rows) * Size
      /\ Cardinality(Rows) * Size \in Nat
  <2>1. IsFiniteSet(1 .. Size) /\ Cardinality(1 .. Size) = Size
    BY FS_Interval, FillDeliveryAssumption
  <2>2. Cardinality(Rows) \in Nat /\ IsFiniteSet(Rows)
    BY FS_CardinalityType, FillDeliveryAssumption
  <2>3. IsFiniteSet(Rows \X (1 .. Size))
        /\ Cardinality(Rows \X (1 .. Size)) = Cardinality(Rows) * Cardinality(1 .. Size)
    BY <2>1, <2>2, FS_Product
  <2>4. Cardinality(Rows \X (1 .. Size)) \in Nat
    BY <2>3, FS_CardinalityType, Zenon
  <2>. QED  BY <2>1, <2>3, <2>4
<1>6. n <= Cardinality(Rows) * Size
  <2>. HIDE DEF n
  <2>1. Cardinality(1 .. n) = n
    BY <1>1, FS_Interval
  <2>. QED  BY <1>4, <1>5, <2>1, FS_Injection
<1>. QED  BY <1>1, <1>5, <1>6 DEF Ids

\* The executions so far are among the ids.
LEMMA ExecsAreIds ==
  ASSUME Shape, CursorShape
  PROVE  Len(execs) \in Nat /\ 1 .. Len(execs) \subseteq Ids
<1>1. execs \in Seq([order : Rows, time : Nat])
      /\ \A o \in Rows : Cardinality({e \in 1 .. Len(execs) : execs[e].order = o}) <= Size
  BY DEF Shape, CursorShape, CumExec, ExecsOf
<1>. QED  BY <1>1, ExecsTyped, IdsSuffice

LEMMA DisjointSum ==
  ASSUME NEW S, NEW T, IsFiniteSet(S), IsFiniteSet(T), S \cap T = {}
  PROVE  Cardinality(S \cup T) = Cardinality(S) + Cardinality(T)
<1>1. Cardinality(S) \in Nat /\ Cardinality(T) \in Nat /\ Cardinality({}) = 0
  BY FS_CardinalityType, FS_EmptySet
<1>2. Cardinality(S \cup T) = Cardinality(S) + Cardinality(T) - Cardinality(S \cap T)
  BY FS_Union
<1>3. Cardinality(S \cap T) = 0
  BY <1>1, Zenon
<1>. QED  BY <1>1, <1>2, <1>3

LEMMA AgreeStarts == Init => AgreeInv
<1>. SUFFICES ASSUME Init PROVE AgreeInv
  OBVIOUS
<1>1. \A o : ExecsOf(o) = {} /\ CumExec(o) = 0
  BY FS_EmptySet DEF Init, ExecsOf, CumExec
<1>. QED  BY <1>1, FillDeliveryAssumption DEF Init, AgreeInv, CursorShape, NonePending, Clean

\* A step that leaves alone what the agreement talks about.
LEMMA AgreeStutter ==
  ASSUME AgreeInv, UNCHANGED <<execs, rowState, acks, filled, owners, baselined, up, crashes>>
  PROVE  AgreeInv'
<1>1. \A o : ExecsOf(o)' = ExecsOf(o) /\ CumExec(o)' = CumExec(o) /\ Owned(o)' = Owned(o)
             /\ Clean(o)' = Clean(o)
  BY DEF ExecsOf, CumExec, Owned, Clean
<1>2. CursorShape' /\ (NonePending' <=> NonePending)
  BY <1>1 DEF AgreeInv, CursorShape, NonePending
<1>. QED  BY <1>1, <1>2 DEF AgreeInv

\* What is owned of an order is at most what it executed.
LEMMA OwnedWithin ==
  ASSUME Shape, NEW o
  PROVE  /\ IsFiniteSet(Owned(o)) /\ Cardinality(Owned(o)) \in Nat
         /\ CumExec(o) \in Nat /\ Cardinality(Owned(o)) <= CumExec(o)
<1>1. Owned(o) \in SUBSET ExecsOf(o)
  BY DEF Owned
<1>. QED  BY <1>1, ExecsFinite, FS_Subset, FS_CardinalityType DEF CumExec

\* An execution is new to the engine: the cursors do not move with the venue.
LEMMA AgreeExecute ==
  ASSUME FillInv, AgreeInv, NEW o \in Rows, Execute(o), Shape'
  PROVE  AgreeInv'
<1>. DEFINE new == Len(execs) + 1
<1>0. Shape /\ CursorShape /\ Len(execs) \in Nat
  BY ExecsAreIds DEF FillInv, AgreeInv
<1>1. /\ execs' = Append(execs, [order |-> o, time |-> now]) /\ Len(execs') = new
      /\ \A e \in 1 .. Len(execs) : execs'[e] = execs[e]
      /\ execs'[new] = [order |-> o, time |-> now]
      /\ 1 .. Len(execs') = (1 .. Len(execs)) \cup {new}
      /\ UNCHANGED <<rowState, acks, filled, owners, baselined, up, crashes>>
      /\ rowState[o] # "none" /\ CumExec(o) < Size
  BY <1>0 DEF Execute, Shape, rowVars, adoptVars, procVars
<1>2. ExecsOf(o)' = ExecsOf(o) \cup {new} /\ new \notin ExecsOf(o)
      /\ \A p \in Rows \ {o} : ExecsOf(p)' = ExecsOf(p)
  BY <1>0, <1>1 DEF ExecsOf
<1>. HIDE DEF new
<1>3. CumExec(o)' = CumExec(o) + 1 /\ \A p \in Rows \ {o} : CumExec(p)' = CumExec(p)
  BY <1>0, <1>2, ExecsFinite, FS_AddElement DEF CumExec
<1>4. \A p \in Rows : CumExec(p) \in Nat /\ CumExec(p)' \in Nat /\ CumExec(p)' <= Size
                      /\ CumExec(p) <= CumExec(p)'
  BY <1>0, <1>1, <1>3, OwnedWithin, FillDeliveryAssumption DEF CursorShape
<1>5. CursorShape'
  BY <1>0, <1>1, <1>4 DEF CursorShape
<1>6. new \in Ids /\ owners[new] = 0
  <2>1. 1 .. Len(execs') \subseteq Ids
    <3>1. execs' \in Seq([order : Rows, time : Nat])
      BY DEF Shape
    <3>2. \A p \in Rows : Cardinality({e \in 1 .. Len(execs') : execs'[e].order = p}) <= Size
      BY <1>4 DEF CumExec, ExecsOf
    <3>. QED  BY <3>1, <3>2, IdsSuffice
  <2>2. new \in Ids
    BY <1>1, <2>1 DEF Ids
  <2>3. new \notin 1 .. Len(execs)
    BY <1>0 DEF new
  <2>. QED  BY <2>2, <2>3 DEF FillInv, OwnInv
<1>7. \A p \in Rows : Owned(p)' = Owned(p) /\ (Clean(p)' <=> Clean(p))
  BY <1>1, <1>2, <1>6 DEF Owned, Clean
<1>8. NonePending' <=> NonePending
  BY <1>1, <1>7 DEF NonePending
<1>9. \A p \in Rows : filled[p] \in Nat
  BY <1>0 DEF CursorShape
<1>. QED  BY <1>1, <1>4, <1>5, <1>7, <1>8, <1>9 DEF AgreeInv

LEMMA AgreeEngine ==
  ASSUME FillInv, AgreeInv, NEW o \in Rows, Place(o) \/ Ack(o)
  PROVE  AgreeInv'
<1>0. Shape /\ Lifecycle /\ CursorShape
  BY DEF FillInv, AgreeInv
<1>1. UNCHANGED <<execs, filled, owners, baselined, up, crashes>> /\ up /\ baselined
  BY <1>0 DEF Place, Ack, venueVars, adoptVars, Lifecycle
<1>2. \A p : ExecsOf(p)' = ExecsOf(p) /\ CumExec(p)' = CumExec(p) /\ Owned(p)' = Owned(p)
  BY <1>1 DEF ExecsOf, CumExec, Owned
<1>3. \A p \in Rows : /\ rowState'[p] = "none" => rowState[p] = "none"
                      /\ Clean(p) => Clean(p)'
                      /\ Clean(p)' => Clean(p) \/ (p = o /\ rowState[o] = "none")
                      /\ rowState'[p] = "none" \/ Clean(p)' \/ (rowState[p] # "none" /\ ~Clean(p))
  BY <1>0 DEF Place, Ack, Clean, Shape
<1>4. CursorShape'
  BY <1>0, <1>1, <1>2, <1>3 DEF CursorShape
<1>5. rowState[o] = "none" => filled[o] = 0 /\ Cardinality(Owned(o)) = 0
  BY <1>0, FS_EmptySet DEF CursorShape, Lifecycle, Owned
<1>6. \A p \in Rows : Clean(p)' => filled'[p] = Cardinality(Owned(p)')
  BY <1>1, <1>2, <1>3, <1>5 DEF AgreeInv
<1>7. NonePending => NonePending'
  BY <1>3 DEF NonePending
<1>. QED  BY <1>1, <1>4, <1>6, <1>7 DEF AgreeInv

\* Booking fresh executions moves a clean row's cursor by those the engine takes.
LEMMA AgreeBooking ==
  ASSUME FillInv, AgreeInv, baselined, up,
         NEW fresh \in SUBSET ((1 .. Len(execs)) \ seen), Book(fresh),
         UNCHANGED <<execs, rowState, acks, baselined, up, crashes>>
  PROVE  AgreeInv'
<1>0. Shape /\ Lifecycle /\ CursorShape /\ 1 .. Len(execs) \subseteq Ids
  BY ExecsAreIds DEF FillInv, AgreeInv
<1>1. \A p : ExecsOf(p)' = ExecsOf(p) /\ CumExec(p)' = CumExec(p)
             /\ (Clean(p)' <=> Clean(p))
  BY DEF ExecsOf, CumExec, Clean
<1>2. owners' = [e \in Ids |-> IF e \in fresh THEN owners[e] + 1 ELSE owners[e]]
  BY DEF Book
<1>3. ASSUME NEW p \in Rows
      PROVE  /\ IsFiniteSet(fresh \cap ExecsOf(p)) /\ Cardinality(fresh \cap ExecsOf(p)) \in Nat
             /\ LET sum == filled[p] + Cardinality(fresh \cap ExecsOf(p))
                IN  filled'[p] = IF sum > Size THEN Size ELSE sum
  <2>1. fresh \cap ExecsOf(p) \in SUBSET ExecsOf(p)
    OBVIOUS
  <2>2. filled'[p] = LET sum == filled[p] + Cardinality(fresh \cap ExecsOf(p))
                     IN  IF sum > Size THEN Size ELSE sum
    BY DEF Book
  <2>. QED  BY <1>0, <2>1, <2>2, ExecsFinite, FS_Subset, FS_CardinalityType
<1>4. filled' \in [Rows -> Nat]
  <2>1. filled' = [o \in Rows |-> filled'[o]]
    BY DEF Book
  <2>2. ASSUME NEW p \in Rows
        PROVE  filled'[p] \in Nat
    <3>1. filled[p] \in Nat
      BY <1>0 DEF CursorShape
    <3>2. Cardinality(fresh \cap ExecsOf(p)) \in Nat /\ Size \in Nat
      BY <1>3, FillDeliveryAssumption
    <3>3. filled'[p] = Size \/ filled'[p] = filled[p] + Cardinality(fresh \cap ExecsOf(p))
      BY <1>3
    <3>. QED  BY <3>1, <3>2, <3>3
  <2>. QED  BY <2>1, <2>2
<1>5. CursorShape'
  <2>1. ASSUME NEW p \in Rows, rowState[p] = "none"
        PROVE  filled'[p] = 0
    <3>1. fresh \cap ExecsOf(p) = {} /\ filled[p] = 0
      BY <1>0, <2>1 DEF Lifecycle, CursorShape
    <3>2. Cardinality(fresh \cap ExecsOf(p)) = 0
      BY <3>1, FS_EmptySet
    <3>. QED  BY <1>3, <3>1, <3>2, FillDeliveryAssumption
  <2>. QED  BY <1>0, <1>1, <1>4, <2>1 DEF CursorShape
<1>6. ASSUME NEW p \in Rows, Clean(p)
      PROVE  filled'[p] = Cardinality(Owned(p)')
  <2>. DEFINE add == fresh \cap ExecsOf(p)
  <2>1. \A e \in ExecsOf(p) : e \in Ids /\ owners[e] \in Nat /\ (owners[e] > 0 => e \in seen)
    BY <1>0, <1>6, ExecsFinite DEF FillInv, OwnInv, Shape
  <2>2. Owned(p)' = Owned(p) \cup add /\ Owned(p) \cap add = {}
    <3>1. \A e \in ExecsOf(p) : owners'[e] > 0 <=> (owners[e] > 0 \/ e \in fresh)
      BY <1>2, <2>1
    <3>. QED  BY <1>1, <2>1, <3>1 DEF Owned
  <2>3. IsFiniteSet(Owned(p)) /\ Cardinality(Owned(p)) \in Nat
        /\ IsFiniteSet(add) /\ Cardinality(add) \in Nat
    BY <1>0, <1>3, OwnedWithin
  <2>4. Cardinality(Owned(p)') = Cardinality(Owned(p)) + Cardinality(add)
    <3>. HIDE DEF add
    <3>. QED  BY <2>2, <2>3, DisjointSum
  <2>5. Cardinality(Owned(p)') <= Size
    <3>1. Owned(p)' \in SUBSET ExecsOf(p)
      BY <2>2 DEF Owned
    <3>2. Cardinality(Owned(p)') <= CumExec(p) /\ CumExec(p) \in Nat /\ CumExec(p) <= Size
      BY <1>0, <3>1, ExecsFinite, FS_Subset DEF CumExec, CursorShape
    <3>. QED  BY <2>3, <2>4, <3>2, FillDeliveryAssumption
  <2>6. filled[p] = Cardinality(Owned(p))
    BY <1>6 DEF AgreeInv
  <2>. QED  BY <1>3, <2>3, <2>4, <2>5, <2>6, FillDeliveryAssumption
<1>7. NonePending' <=> NonePending
  BY <1>1 DEF NonePending
<1>. QED  BY <1>1, <1>5, <1>6, <1>7 DEF AgreeInv

LEMMA AgreeLoop == FillInv /\ AgreeInv /\ Loop => AgreeInv'
<1>. SUFFICES ASSUME FillInv, AgreeInv, Loop PROVE AgreeInv'
  OBVIOUS
<1>0. Shape /\ ToSet(parked) \subseteq 1 .. Len(execs)
  BY ListedExecs DEF FillInv, Shape
<1>1. UNCHANGED <<execs, rowState, acks, baselined, up, crashes>> /\ up
  BY DEF Loop, HandleFrame, ReplayParked, Reconnect, NoteUnbooked, Backfill, BackfillBreaks,
         RecoverUnbooked, RecoverFails, venueVars, rowVars, adoptVars, procVars
<1>2. \/ UNCHANGED <<filled, owners>>
      \/ baselined /\ \E fresh \in SUBSET ((1 .. Len(execs)) \ seen) : Book(fresh)
  <2>1. CASE HandleFrame
    <3>1. Head(queue) \in 1 .. Len(execs)
      BY <1>0, <2>1 DEF HandleFrame, Shape
    <3>2. CASE baselined
      BY <1>0, <2>1, <3>1, <3>2 DEF HandleFrame, Translate
    <3>3. CASE ~baselined
      BY <2>1, <3>3 DEF HandleFrame, bookVars
    <3>. QED  BY <3>2, <3>3
  <2>2. CASE ReplayParked
    BY <1>0, <2>2 DEF ReplayParked, Translate
  <2>3. CASE Reconnect \/ NoteUnbooked
    BY <2>3 DEF Reconnect, NoteUnbooked, rowVars
  <2>4. ASSUME baselined, NEW entries \in SUBSET (1 .. Len(execs)), BackfillEntries(entries)
        PROVE  \E fresh \in SUBSET ((1 .. Len(execs)) \ seen) : Book(fresh)
    <3>. DEFINE fresh == {e \in entries \ seen : CursorLeaves(entries \ seen, e)}
    <3>1. Book(fresh) /\ fresh \in SUBSET ((1 .. Len(execs)) \ seen)
      BY <2>4 DEF BackfillEntries
    <3>. HIDE DEF fresh
    <3>. QED  BY <3>1
  <2>5. CASE Backfill
    BY <1>0, <2>4, <2>5, ReadsAreExecs DEF Backfill, bookVars
  <2>6. CASE BackfillBreaks
    <3>1. PICK from : BackfillEntries({e \in Window : e >= from})
      BY <2>6 DEF BackfillBreaks
    <3>2. {e \in Window : e >= from} \in SUBSET (1 .. Len(execs)) /\ baselined
      BY <1>0, <2>6, ReadsAreExecs DEF BackfillBreaks
    <3>. QED  BY <2>4, <3>1, <3>2
  <2>7. CASE RecoverUnbooked
    BY <1>0, <2>4, <2>7, ReadsAreExecs DEF RecoverUnbooked, RecoverReads, bookVars
  <2>8. CASE RecoverFails
    BY <1>0, <2>4, <2>8, ReadsAreExecs DEF RecoverFails, RecoverReads
  <2>. QED  BY <2>1, <2>2, <2>3, <2>5, <2>6, <2>7, <2>8 DEF Loop
<1>. QED  BY <1>1, <1>2, AgreeBooking, AgreeStutter

\* The commit: what the engine adopts of a confirmed row is what its walk counted.
LEMMA AgreeCommit ==
  ASSUME FillInv, AgreeInv, AdoptCommit
  PROVE  AgreeInv'
<1>0. Shape /\ Lifecycle /\ WalkInv /\ CursorShape /\ 1 .. Len(execs) \subseteq Ids
      /\ Len(execs) \in Nat
  BY ExecsAreIds DEF FillInv, AgreeInv
<1>1. /\ up /\ baselined' = TRUE
      /\ owners' = [e \in Ids |-> IF e <= adopt.snap THEN 1 ELSE 0]
      /\ UNCHANGED <<execs, rowState, up, acks, crashes>>
      /\ filled' = [o \in Rows |->
                      LET walked == Cardinality(adopt.ids \cap ExecsOf(o))
                      IN  IF o \in adopt.walked /\ walked > filled[o]
                          THEN walked ELSE filled[o]]
  BY DEF AdoptCommit, venueVars, procVars
<1>2. ~baselined /\ acks = {}
  BY <1>0 DEF AdoptCommit, Walked, Lifecycle
<1>3. Len(execs) = adopt.snap /\ ~adopt.lag
      /\ \A o \in Rows : rowState[o] = "confirmed" => o \in adopt.walked
  BY DEF AdoptCommit, Walked, Stable, Walkable
<1>4. \A p : ExecsOf(p)' = ExecsOf(p) /\ CumExec(p)' = CumExec(p)
             /\ (Clean(p)' <=> Clean(p))
  BY <1>1 DEF ExecsOf, CumExec, Clean
<1>5. ASSUME NEW p \in Rows
      PROVE  /\ Cardinality(adopt.ids \cap ExecsOf(p)) \in Nat
             /\ filled'[p] = LET walked == Cardinality(adopt.ids \cap ExecsOf(p))
                             IN  IF p \in adopt.walked /\ walked > filled[p]
                                 THEN walked ELSE filled[p]
             /\ filled[p] \in Nat
  <2>1. adopt.ids \cap ExecsOf(p) \in SUBSET ExecsOf(p)
    OBVIOUS
  <2>. QED  BY <1>0, <1>1, <2>1, ExecsFinite, FS_Subset, FS_CardinalityType DEF CursorShape
<1>6. CursorShape'
  <2>1. filled' \in [Rows -> Nat]
    BY <1>1, <1>5
  <2>2. ASSUME NEW p \in Rows, rowState[p] = "none"
        PROVE  filled'[p] = 0
    <3>1. adopt.ids \cap ExecsOf(p) = {} /\ filled[p] = 0
      BY <1>0, <2>2 DEF Lifecycle, CursorShape
    <3>2. Cardinality(adopt.ids \cap ExecsOf(p)) = 0
      BY <3>1, FS_EmptySet
    <3>. QED  BY <1>5, <3>1, <3>2
  <2>. QED  BY <1>0, <1>1, <1>4, <2>1, <2>2 DEF CursorShape
<1>7. ASSUME NEW p \in Rows, Clean(p)
      PROVE  filled'[p] = Cardinality(Owned(p)')
  <2>1. rowState[p] = "confirmed" /\ p \in adopt.walked
    BY <1>2, <1>3, <1>7 DEF Clean
  <2>2. \A e \in ExecsOf(p) : e \in Ids /\ e <= adopt.snap /\ e \in adopt.ids
    <3>1. ExecsOf(p) \subseteq 1 .. Len(execs)
      BY DEF ExecsOf
    <3>. QED  BY <1>0, <1>3, <2>1, <3>1 DEF WalkInv
  <2>3. Owned(p)' = ExecsOf(p) /\ adopt.ids \cap ExecsOf(p) = ExecsOf(p)
    BY <1>1, <1>4, <2>2 DEF Owned
  <2>4. filled[p] <= Cardinality(ExecsOf(p))
    BY <1>2, <2>1 DEF AgreeInv, CumExec
  <2>. QED  BY <1>5, <2>1, <2>3, <2>4
<1>8. NonePending' <=> NonePending
  BY <1>1, <1>4 DEF NonePending
<1>. QED  BY <1>1, <1>4, <1>6, <1>7, <1>8 DEF AgreeInv

\* The process dies: no row that a restart may confirm has a cursor ahead of the venue.
LEMMA AgreeCrash ==
  ASSUME FillInv, AgreeInv, Crash, MaxCrashes <= 1 \/ NonePendingDown'
  PROVE  AgreeInv'
<1>0. Shape /\ Lifecycle /\ CursorShape
  BY DEF FillInv, AgreeInv
<1>1. /\ up /\ crashes < MaxCrashes /\ crashes' = crashes + 1
      /\ up' = FALSE /\ baselined' = FALSE /\ acks' = {}
      /\ UNCHANGED <<execs, rowState, filled>>
  BY DEF Crash, venueVars, rowVars
<1>2. \A p : ExecsOf(p)' = ExecsOf(p) /\ CumExec(p)' = CumExec(p)
  BY <1>1 DEF ExecsOf, CumExec
<1>3. NonePending
  BY <1>0, <1>1, FillDeliveryAssumption DEF AgreeInv, CursorShape
<1>4. ASSUME NEW p \in Rows
      PROVE  filled[p] <= CumExec(p)
  <2>1. CumExec(p) \in Nat /\ Cardinality(Owned(p)) <= CumExec(p)
    BY <1>0, OwnedWithin
  <2>2. CASE rowState[p] = "none"
    BY <1>0, <2>1, <2>2 DEF CursorShape
  <2>3. CASE Clean(p) /\ baselined
    BY <2>1, <2>3 DEF AgreeInv
  <2>4. CASE Clean(p) /\ ~baselined
    <3>1. rowState[p] = "confirmed"
      BY <1>0, <2>4 DEF Lifecycle, Clean
    <3>. QED  BY <2>4, <3>1 DEF AgreeInv
  <2>. QED  BY <1>3, <2>2, <2>3, <2>4 DEF NonePending
<1>5. CursorShape'
  BY <1>0, <1>1, <1>2 DEF CursorShape
<1>6. NonePending' \/ crashes' >= MaxCrashes
  <2>1. CASE MaxCrashes <= 1
    BY <1>0, <1>1, <2>1, FillDeliveryAssumption DEF CursorShape
  <2>2. CASE NonePendingDown'
    BY <1>0, <1>1, <2>2 DEF NonePendingDown, NonePending, Clean, Shape
  <2>. QED  BY <2>1, <2>2
<1>. QED  BY <1>1, <1>2, <1>4, <1>5, <1>6 DEF AgreeInv

LEMMA AgreeRestart ==
  ASSUME FillInv, AgreeInv, Restart
  PROVE  AgreeInv'
<1>0. Shape /\ Lifecycle /\ CursorShape
  BY DEF FillInv, AgreeInv
<1>1. PICK found \in SUBSET {o \in Rows : Recoverable(o)} :
        /\ rowState' = [o \in Rows |-> IF o \in found THEN "confirmed" ELSE rowState[o]]
        /\ filled' = [o \in Rows |-> IF o \in found /\ CumExec(o) > filled[o]
                                     THEN CumExec(o) ELSE filled[o]]
  BY DEF Restart
<1>2. /\ ~up /\ up' = TRUE /\ ~baselined
      /\ UNCHANGED <<execs, baselined, acks, owners, crashes>>
  BY <1>0 DEF Restart, venueVars, adoptVars, Lifecycle
<1>3. \A p : ExecsOf(p)' = ExecsOf(p) /\ CumExec(p)' = CumExec(p)
  BY <1>2 DEF ExecsOf, CumExec
<1>4. \A p \in Rows : CumExec(p) \in Nat /\ filled[p] \in Nat /\ filled[p] <= CumExec(p)
  BY <1>0, <1>2, OwnedWithin DEF AgreeInv, CursorShape
<1>5. \A p \in Rows : filled'[p] \in Nat /\ filled'[p] <= CumExec(p)
                      /\ (rowState'[p] = "none" => rowState[p] = "none" /\ filled'[p] = 0)
  BY <1>0, <1>1, <1>4 DEF Recoverable, CursorShape, Shape
<1>6. CursorShape'
  <2>1. filled' \in [Rows -> Nat]
    BY <1>1, <1>5
  <2>. QED  BY <1>0, <1>2, <1>3, <1>5, <2>1 DEF CursorShape
<1>7. NonePending => NonePending'
  BY <1>0, <1>1, <1>2 DEF NonePending, Clean, Shape
<1>. QED  BY <1>2, <1>3, <1>5, <1>6, <1>7 DEF AgreeInv

LEMMA AgreeSteps ==
  ASSUME FillInv, AgreeInv, [Next]_vars, MaxCrashes <= 1 \/ NonePendingDown', FillInv'
  PROVE  AgreeInv'
<1>1. CASE Tick \/ (\E e \in Ids : Index(e)) \/ Drop
  BY <1>1, AgreeStutter DEF Tick, Index, Drop, venueVars, rowVars, loopVars, adoptVars, procVars
<1>2. CASE \E o \in Rows : Execute(o)
  BY <1>2, AgreeExecute DEF FillInv
<1>3. CASE Engine
  BY <1>3, AgreeEngine DEF Engine
<1>4. CASE Adoption /\ ~AdoptCommit
  BY <1>4, AgreeStutter
  DEF Adoption, AdoptSnapshot, AdoptClock, AdoptWalk, AdoptRetry, AdoptFails,
      venueVars, rowVars, procVars
<1>5. CASE UNCHANGED vars
  BY <1>5, AgreeStutter DEF vars, venueVars, rowVars, adoptVars, procVars
<1>. QED  BY <1>1, <1>2, <1>3, <1>4, <1>5, AgreeLoop, AgreeCommit, AgreeCrash, AgreeRestart
          DEF Next, Venue

LEMMA AgreementHolds == FillInv /\ AgreeInv => CursorMatchesOwners
<1>. SUFFICES ASSUME AgreeInv, up, baselined, NEW o \in Rows, rowState[o] = "confirmed"
              PROVE  filled[o] = Cardinality({e \in ExecsOf(o) : owners[e] > 0})
  BY DEF CursorMatchesOwners
<1>. QED  BY DEF AgreeInv, Clean, Owned

\* Whatever the stream, the execution list and the reads do, the cursor of a confirmed row
\* counts just the executions the engine's position includes, while the process has died at
\* most once (_fill_event, _apply_adoption_baseline, _confirm_recovered_row).
THEOREM CursorAgrees ==
  ASSUME MaxCrashes <= 1
  PROVE  Spec => []CursorMatchesOwners
<1>1. FillInv /\ AgreeInv /\ [Next]_vars /\ FillInv' => AgreeInv'
  BY AgreeSteps
<1>. QED  BY <1>1, AgreeStarts, AgreementHolds, FillInvariant, PTL DEF Spec

\* The same for any number of crashes, as long as none leaves a dispatch unanswered: it is
\* the row that stays pending over a restart whose executions are adopted and booked again
\* (_apply_adoption_baseline passes over pending rows).
THEOREM CursorAgreesUnlessPending == Spec /\ []NonePendingDown => []CursorMatchesOwners
<1>1. FillInv /\ AgreeInv /\ [Next]_vars /\ FillInv' /\ NonePendingDown' => AgreeInv'
  BY AgreeSteps
<1>. QED  BY <1>1, AgreeStarts, AgreementHolds, FillInvariant, PTL DEF Spec
=================================================================================
