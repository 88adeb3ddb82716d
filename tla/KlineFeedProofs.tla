--------------------------- MODULE KlineFeedProofs ---------------------------
(***************************************************************************)
(* Theorems about the kline stream, for every value of the constants:      *)
(* the types, the invariant DeliveryInv behind the order of the closed     *)
(* bars, and what follows from it.                                         *)
(***************************************************************************)
EXTENDS KlineFeed, SequenceTheorems, FiniteSetTheorems, TLAPS

(***************************************************************************)
(* What sorting a set of bars returns                                      *)
(***************************************************************************)

\* Every set of bars is finite.
LEMMA BarsFinite ==
  ASSUME NEW S \in SUBSET Bars
  PROVE  IsFiniteSet(S) /\ Cardinality(S) \in Nat
<1>1. IsFiniteSet(Bars)
  BY FS_Interval, FeedAssumption DEF Bars
<1>2. IsFiniteSet(S)
  BY <1>1, FS_Subset
<1>. QED  BY <1>2, FS_CardinalityType

\* A sorted run of a set of bars lists exactly its members, oldest first,
\* and ends in the newest (sorted(...) in _release_pending_closed and
\* backfill_closed_bars).
LEMMA RunFacts ==
  ASSUME NEW S \in SUBSET Bars, NEW run \in Ascending(S)
  PROVE  /\ run \in Seq(Bars) /\ Len(run) = Cardinality(S)
         /\ \A i \in 1 .. Len(run) : run[i] \in S
         /\ \A b \in S : \E i \in 1 .. Len(run) : run[i] = b
         /\ \A i, j \in 1 .. Len(run) : i < j => run[i] < run[j]
         /\ S = {} => run = <<>>
         /\ S # {} => /\ run[Cardinality(S)] \in S
                      /\ \A b \in S : b <= run[Cardinality(S)]
<1>. DEFINE n == Cardinality(S)
<1>1. n \in Nat /\ (n = 0 <=> S = {})
  BY BarsFinite, FS_EmptySet
<1>2. run \in [1 .. n -> S]
  BY DEF Ascending
<1>3. run \in Seq(S) /\ Len(run) = n
  BY <1>1, <1>2, IsASeq, LenProperties
<1>4. run \in Seq(Bars)
  BY <1>3, SeqMonotonic
<1>5. /\ \A i \in 1 .. n : run[i] \in S
      /\ \A b \in S : \E i \in 1 .. n : run[i] = b
      /\ \A i, j \in 1 .. n : i < j => run[i] < run[j]
  BY <1>2 DEF Ascending
<1>6. S = {} => run = <<>>
  BY <1>1, <1>3, EmptySeq
<1>7. ASSUME S # {}
      PROVE  run[n] \in S /\ \A b \in S : b <= run[n]
  <2>1. n \in 1 .. n
    BY <1>1, <1>7
  <2>2. ASSUME NEW b \in S
        PROVE  b <= run[n]
    <3>1. PICK i \in 1 .. n : run[i] = b
      BY <1>5
    <3>2. i = n \/ run[i] < run[n]
      BY <1>1, <1>5, <2>1
    <3>3. b \in Int /\ run[n] \in Int
      <4>1. b \in Bars /\ run[n] \in Bars
        BY <1>5, <2>1
      <4>. QED  BY <4>1 DEF Bars
    <3>. QED  BY <3>1, <3>2, <3>3
  <2>. QED  BY <1>5, <2>1, <2>2
<1>. QED  BY <1>1, <1>3, <1>4, <1>5, <1>6, <1>7

(***************************************************************************)
(* Types                                                                   *)
(***************************************************************************)

\* _enqueue_closed keeps the types of what it assigns.
LEMMA EnqueueTypes ==
  ASSUME TypeOK, NEW S \in SUBSET Bars, EnqueueClosed(S)
  PROVE  /\ queue' \in Seq(MaybeBar)
         /\ lastClosed' \in MaybeBar
         /\ snapshot' \in MaybeBar
<1>1. PICK run \in Ascending(S) :
         /\ queue' = queue \o run
         /\ lastClosed' = IF S = {} THEN lastClosed ELSE run[Cardinality(S)]
         /\ snapshot' = IF S # {} /\ snapshot <= run[Cardinality(S)]
                        THEN None ELSE snapshot
  BY DEF EnqueueClosed
<1>2. run \in Seq(MaybeBar)
  BY RunFacts, SeqMonotonic DEF MaybeBar
<1>3. queue' \in Seq(MaybeBar)
  BY <1>1, <1>2, ConcatProperties DEF TypeOK
<1>4. S # {} => run[Cardinality(S)] \in Bars
  BY RunFacts
<1>. QED  BY <1>1, <1>3, <1>4 DEF TypeOK, MaybeBar

\* The bars of one request are bars.
LEMMA PageInBars ==
  ASSUME TypeOK, NEW after \in MaybeBar
  PROVE  Page(after) \in SUBSET Bars
<1>1. SUFFICES ASSUME NEW b \in gap.cursor .. ChunkEnd,
                      b > after, b < gap.until
               PROVE  b \in Bars
  BY DEF Page
<1>2. gap.cursor \in 0 .. MaxBar /\ gap.until \in 0 .. MaxBar
  BY DEF TypeOK
<1>3. b \in Int /\ b <= MaxBar /\ after \in Nat
  BY <1>1, <1>2, FeedAssumption DEF MaybeBar, Bars, None, ChunkEnd
<1>. QED  BY <1>1, <1>3, FeedAssumption DEF Bars

LEMMA TypeInit == Init => TypeOK
<1>1. SUFFICES ASSUME Init PROVE TypeOK
  OBVIOUS
<1>2. Warm \in Bars /\ now \in Bars
  BY <1>1, FeedAssumption DEF Init, Bars
<1>3. <<>> \in Seq(Frames) /\ <<>> \in Seq(MaybeBar) /\ <<>> \in Seq(Bars)
  BY EmptySeq
<1>4. NoGap \in [cursor : 0 .. MaxBar, until : 0 .. MaxBar, resume : MaybeBar]
  BY FeedAssumption DEF NoGap, MaybeBar
<1>5. phase \in Phases /\ faults \in 0 .. MaxFaults
  BY <1>1, FeedAssumption DEF Init, Phases
<1>. QED  BY <1>1, <1>2, <1>3, <1>4, <1>5 DEF Init, TypeOK, MaybeBar

LEMMA TypeStep == TypeOK /\ [Next]_vars => TypeOK'
<1>. SUFFICES ASSUME TypeOK, [Next]_vars PROVE TypeOK'
  OBVIOUS
<1>. USE FeedAssumption
<1>1. CASE Tick
  <2>1. now' \in Bars
    BY <1>1 DEF Tick, TypeOK, Bars
  <2>2. [bar |-> now, confirm |-> TRUE] \in Frames
    BY DEF TypeOK, Frames
  <2>3. wire' \in Seq(Frames)
    BY <1>1, <2>2, AppendProperties DEF Tick, TypeOK
  <2>. QED  BY <1>1, <2>1, <2>3 DEF Tick, TypeOK
<1>2. CASE Push
  <2>1. wire' \in Seq(Frames)
    BY <1>2, AppendProperties DEF Push, TypeOK
  <2>. QED  BY <1>2, <2>1 DEF Push, TypeOK
<1>3. CASE Die \/ WatchdogClose
  <2>1. queue' \in Seq(MaybeBar)
    <3>1. queue' = Append(queue, None)
      BY <1>3 DEF Die, WatchdogClose
    <3>. QED  BY <3>1, AppendProperties DEF TypeOK, MaybeBar
  <2>2. wire' \in Seq(Frames)
    BY <1>3, EmptySeq DEF Die, WatchdogClose
  <2>3. faults' \in 0 .. MaxFaults
    BY <1>3 DEF Die, WatchdogClose, MayDrop, TypeOK
  <2>4. sock' \in {"none", "open", "dead", "closing"}
    BY <1>3 DEF Die, WatchdogClose
  <2>5. UNCHANGED <<now, lastClosed, streamBar, holding, held, snapshot, phase,
                    gap, splice, confirmed>>
    BY <1>3 DEF Die, WatchdogClose
  <2>. QED  BY <2>1, <2>2, <2>3, <2>4, <2>5 DEF TypeOK
<1>4. CASE OnWsMessage
  <2>. DEFINE f == Head(wire)
  <2>1. f \in Frames /\ wire' \in Seq(Frames)
    BY <1>4, HeadTailProperties DEF OnWsMessage, TypeOK
  <2>2. f.bar \in Bars
    BY <2>1 DEF Frames
  <2>3. CASE DropSettledForming(f)
    BY <1>4, <2>1, <2>3 DEF OnWsMessage, DropSettledForming, feed, TypeOK
  <2>4. CASE TakeForming(f)
    BY <1>4, <2>1, <2>2, <2>4 DEF OnWsMessage, TakeForming, TypeOK, MaybeBar
  <2>5. CASE TakeClosed(f)
    <3>1. streamBar' \in MaybeBar
      BY <2>2, <2>5 DEF TakeClosed, TypeOK, MaybeBar
    <3>2. CASE holding
      BY <1>4, <2>1, <2>2, <2>5, <3>1, <3>2
         DEF OnWsMessage, TakeClosed, feed, TypeOK
    <3>3. CASE ~holding
      <4>1. /\ EnqueueClosed(IF f.bar > lastClosed THEN {f.bar} ELSE {})
            /\ UNCHANGED held
        BY <2>5, <3>3 DEF TakeClosed
      <4>2. /\ queue' \in Seq(MaybeBar) /\ lastClosed' \in MaybeBar
            /\ snapshot' \in MaybeBar
        BY <2>2, <4>1, EnqueueTypes
      <4>. QED  BY <1>4, <2>1, <3>1, <4>1, <4>2 DEF OnWsMessage, TypeOK
    <3>. QED  BY <3>2, <3>3 DEF TypeOK
  <2>. QED  BY <1>4, <2>3, <2>4, <2>5 DEF OnWsMessage
<1>5. CASE StartupGap
  <2>1. lastClosed' \in MaybeBar
    BY <1>5 DEF StartupGap, Advanced, TypeOK, MaybeBar, Bars
  <2>2. gap' \in [cursor : 0 .. MaxBar, until : 0 .. MaxBar, resume : MaybeBar]
    BY <1>5 DEF StartupGap, NoGap, TypeOK, MaybeBar, Bars
  <2>. QED  BY <1>5, <2>1, <2>2 DEF StartupGap, TypeOK, Phases
<1>6. CASE StartupPage
  <2>. DEFINE page == Page(Warm)
              next == NextCursor(page)
  <2>1. page \in SUBSET Bars
    <3>1. Warm \in MaybeBar
      BY DEF MaybeBar, Bars
    <3>. QED  BY <3>1, PageInBars
  <2>2. splice' \in Seq(Bars)
    <3>1. PICK run \in Ascending(page) : splice' = splice \o run
      BY <1>6 DEF StartupPage
    <3>. QED  BY <2>1, <3>1, RunFacts, ConcatProperties DEF TypeOK
  <2>3. gap.until \in 0 .. MaxBar /\ gap.cursor \in 0 .. MaxBar
    BY DEF TypeOK
  <2>4. CASE next < gap.until
    <3>1. next \in 0 .. MaxBar
      BY <2>3, <2>4 DEF NextCursor, ChunkEnd
    <3>2. gap' = [gap EXCEPT !.cursor = next] /\ UNCHANGED <<phase, lastClosed>>
      BY <1>6, <2>4 DEF StartupPage
    <3>. QED  BY <1>6, <2>2, <3>1, <3>2 DEF StartupPage, TypeOK
  <2>5. CASE ~(next < gap.until)
    <3>1. /\ gap' = NoGap /\ phase' = "live"
          /\ lastClosed' = Advanced(gap.until - 1)
      BY <1>6, <2>5 DEF StartupPage
    <3>2. lastClosed' \in MaybeBar
      BY <2>3, <3>1 DEF Advanced, TypeOK, MaybeBar, Bars, None
    <3>3. gap' \in [cursor : 0 .. MaxBar, until : 0 .. MaxBar, resume : MaybeBar]
      BY <3>1 DEF NoGap, MaybeBar
    <3>. QED  BY <1>6, <2>2, <3>1, <3>2, <3>3 DEF StartupPage, TypeOK, Phases
  <2>. QED  BY <2>4, <2>5
<1>7. CASE Disconnect
  <2>1. <<>> \in Seq(Frames) /\ <<>> \in Seq(MaybeBar)
    BY EmptySeq
  <2>. QED  BY <1>7, <2>1 DEF Disconnect, TypeOK, Phases, MaybeBar
<1>8. CASE Connect \/ ConnectFails
  <2>1. holding' \in BOOLEAN
    BY <1>8 DEF Connect, ConnectFails
  <2>2. CASE Connect
    BY <2>1, <2>2 DEF Connect, TypeOK, Phases
  <2>3. CASE ConnectFails
    <3>1. faults' \in 0 .. MaxFaults
      BY <2>3 DEF ConnectFails, TypeOK
    <3>. QED  BY <2>1, <2>3, <3>1 DEF ConnectFails, TypeOK, Phases
  <2>. QED  BY <1>8, <2>2, <2>3
<1>9. CASE OnReconnect
  <2>1. CASE ResumeCursor # None /\ ResumeCursor < now
    <3>1. ResumeCursor \in 0 .. MaxBar
      BY <2>1 DEF ResumeCursor, TypeOK, MaybeBar, Bars, None
    <3>2. gap' \in [cursor : 0 .. MaxBar, until : 0 .. MaxBar, resume : MaybeBar]
      BY <1>9, <2>1, <3>1 DEF OnReconnect, TypeOK, Bars
    <3>. QED  BY <1>9, <2>1, <3>2 DEF OnReconnect, feed, TypeOK, Phases
  <2>2. CASE ~(ResumeCursor # None /\ ResumeCursor < now)
    <3>1. EnqueueClosed({b \in held : b > lastClosed})
      BY <1>9, <2>2 DEF OnReconnect
    <3>2. {b \in held : b > lastClosed} \in SUBSET Bars
      BY DEF TypeOK
    <3>3. /\ queue' \in Seq(MaybeBar) /\ lastClosed' \in MaybeBar
          /\ snapshot' \in MaybeBar
      BY <3>1, <3>2, EnqueueTypes
    <3>. QED  BY <1>9, <2>2, <3>3 DEF OnReconnect, TypeOK, Phases
  <2>. QED  BY <2>1, <2>2
<1>10. CASE BackfillPage
  <2>. DEFINE page == Page(lastClosed)
              next == NextCursor(page)
              newest == IF page = {} THEN lastClosed ELSE next - 1
  <2>1. page \in SUBSET Bars
    BY PageInBars DEF TypeOK
  <2>2. CASE next < gap.until
    <3>1. EnqueueClosed(page) /\ gap' = [gap EXCEPT !.cursor = next]
      BY <1>10, <2>2 DEF BackfillPage
    <3>2. next \in 0 .. MaxBar
      <4>1. gap.until \in 0 .. MaxBar /\ gap.cursor \in 0 .. MaxBar
        BY DEF TypeOK
      <4>. QED  BY <2>2, <4>1 DEF NextCursor, ChunkEnd
    <3>3. /\ queue' \in Seq(MaybeBar) /\ lastClosed' \in MaybeBar
          /\ snapshot' \in MaybeBar
      BY <2>1, <3>1, EnqueueTypes
    <3>. QED  BY <1>10, <2>2, <3>1, <3>2, <3>3 DEF BackfillPage, TypeOK
  <2>3. CASE ~(next < gap.until)
    <3>1. EnqueueClosed(page \union {b \in held : b > newest}) /\ gap' = NoGap
      BY <1>10, <2>3 DEF BackfillPage
    <3>2. page \union {b \in held : b > newest} \in SUBSET Bars
      BY <2>1 DEF TypeOK
    <3>3. /\ queue' \in Seq(MaybeBar) /\ lastClosed' \in MaybeBar
          /\ snapshot' \in MaybeBar
      BY <3>1, <3>2, EnqueueTypes
    <3>4. gap' \in [cursor : 0 .. MaxBar, until : 0 .. MaxBar, resume : MaybeBar]
      BY <3>1 DEF NoGap, MaybeBar
    <3>. QED  BY <1>10, <2>3, <3>3, <3>4 DEF BackfillPage, TypeOK, Phases
  <2>. QED  BY <2>2, <2>3
<1>11. CASE BackfillFails
  <2>1. <<>> \in Seq(Frames)
    BY EmptySeq
  <2>2. gap' \in [cursor : 0 .. MaxBar, until : 0 .. MaxBar, resume : MaybeBar]
    BY <1>11 DEF BackfillFails, NoGap, MaybeBar
  <2>3. gap.resume \in MaybeBar /\ faults' \in 0 .. MaxFaults
    BY <1>11 DEF BackfillFails, TypeOK
  <2>. QED  BY <1>11, <2>1, <2>2, <2>3 DEF BackfillFails, TypeOK, Phases
<1>12. CASE FailClosed
  <2>1. queue' \in Seq(MaybeBar) /\ wire' \in Seq(Frames)
    BY <1>12, AppendProperties, EmptySeq DEF FailClosed, TypeOK, MaybeBar
  <2>. QED  BY <1>12, <2>1 DEF FailClosed, TypeOK, Phases
<1>13. CASE TakeSpliced
  <2>1. Head(splice) \in Bars /\ splice' \in Seq(Bars)
    BY <1>13, HeadTailProperties DEF TakeSpliced, TypeOK
  <2>. QED  BY <1>13, <2>1 DEF TakeSpliced, CoreTakes, TypeOK
<1>14. CASE WatchQueue
  <2>1. Head(queue) \in MaybeBar /\ queue' \in Seq(MaybeBar)
    BY <1>14, HeadTailProperties DEF WatchQueue, TypeOK
  <2>. QED  BY <1>14, <2>1 DEF WatchQueue, CoreTakes, TypeOK, MaybeBar, Phases
<1>15. CASE WatchSnapshot
  BY <1>15 DEF WatchSnapshot, TypeOK, MaybeBar
<1>16. CASE UNCHANGED vars
  BY <1>16 DEF vars, TypeOK
<1>. QED
  BY <1>1, <1>2, <1>3, <1>4, <1>5, <1>6, <1>7, <1>8, <1>9, <1>10, <1>11, <1>12,
     <1>13, <1>14, <1>15, <1>16 DEF Next, Startup, Reconnect, Watch

\* The state of the stream keeps its types, whenever sockets die and pages
\* fail (the attributes of _BybitBase that live_provider.py assigns).
THEOREM TypeCorrect == Spec => []TypeOK
<1>1. Init => TypeOK
  BY TypeInit
<1>2. TypeOK /\ [Next]_vars => TypeOK'
  BY TypeStep
<1>. QED  BY <1>1, <1>2, PTL DEF Spec

(***************************************************************************)
(* The forming bar and the cursor                                          *)
(***************************************************************************)

\* Enqueueing closes newer than the cursor moves the cursor forward and leaves
\* no older snapshot behind (_enqueue_closed).
LEMMA EnqueueFresh ==
  ASSUME TypeOK, NEW S \in SUBSET Bars, EnqueueClosed(S),
         \A b \in S : lastClosed < b
  PROVE  lastClosed <= lastClosed' /\ (Fresh => Fresh')
<1>1. PICK run \in Ascending(S) :
         /\ lastClosed' = IF S = {} THEN lastClosed ELSE run[Cardinality(S)]
         /\ snapshot' = IF S # {} /\ snapshot <= run[Cardinality(S)]
                        THEN None ELSE snapshot
  BY DEF EnqueueClosed
<1>2. lastClosed \in Int /\ snapshot \in Int
  BY DEF TypeOK, MaybeBar, Bars, None
<1>3. CASE S = {}
  BY <1>1, <1>2, <1>3 DEF Fresh
<1>4. CASE S # {}
  <2>1. run[Cardinality(S)] \in S
    BY <1>4, RunFacts
  <2>2. run[Cardinality(S)] \in Int /\ lastClosed < run[Cardinality(S)]
    <3>1. run[Cardinality(S)] \in Bars
      BY <2>1
    <3>. QED  BY <2>1, <3>1 DEF Bars
  <2>. QED  BY <1>1, <1>2, <1>4, <2>2 DEF Fresh
<1>. QED  BY <1>3, <1>4

\* Every enqueue of the plugin is of bars newer than the cursor.
LEMMA NewerThanCursor ==
  ASSUME TypeOK
  PROVE  LET page == Page(lastClosed)
             next == NextCursor(page)
             newest == IF page = {} THEN lastClosed ELSE next - 1
             last == page \union {b \in held : b > newest}
         IN  /\ page \in SUBSET Bars /\ \A b \in page : lastClosed < b
             /\ last \in SUBSET Bars /\ \A b \in last : lastClosed < b
<1>. DEFINE page == Page(lastClosed)
            next == NextCursor(page)
            newest == IF page = {} THEN lastClosed ELSE next - 1
<1>1. page \in SUBSET Bars /\ \A b \in page : lastClosed < b /\ b \in Int
  <2>1. page \in SUBSET Bars
    BY PageInBars DEF TypeOK
  <2>. QED  BY <2>1 DEF Page, Bars
<1>2. lastClosed \in Int /\ gap.until \in Int /\ gap.cursor \in Int
  BY FeedAssumption DEF TypeOK, MaybeBar, Bars, None
<1>3. ASSUME page # {}
      PROVE  lastClosed < next /\ next \in Int
  <2>1. PICK b \in page : lastClosed < b /\ b \in Int
    BY <1>1, <1>3
  <2>2. b <= ChunkEnd /\ b < gap.until /\ ChunkEnd \in Int
    BY <1>2, <2>1, FeedAssumption DEF Page, ChunkEnd
  <2>3. next \in Int /\ b <= next
    BY <1>2, <2>1, <2>2 DEF NextCursor
  <2>. QED  BY <1>2, <2>1, <2>3
<1>. HIDE DEF page, next
<1>4. \A b \in held : b > newest => lastClosed < b
  <2>1. ASSUME NEW b \in held, b > newest
        PROVE  lastClosed < b
    <3>1. b \in Int
      BY DEF TypeOK, Bars
    <3>2. CASE page = {}
      BY <1>2, <2>1, <3>1, <3>2
    <3>3. CASE page # {}
      BY <1>2, <1>3, <2>1, <3>1, <3>3
    <3>. QED  BY <3>2, <3>3
  <2>. QED  BY <2>1
<1>5. held \in SUBSET Bars
  BY DEF TypeOK
<1>. QED  BY <1>1, <1>4, <1>5 DEF page, next

\* A failing backfill can only rewind the cursor.
ResumeInv == phase = "backfill" => gap.resume <= lastClosed

LEMMA FreshStep ==
  ASSUME TypeOK, ResumeInv, [Next]_vars
  PROVE  /\ ResumeInv'
         /\ phase \notin {"startup", "startupGap"} /\ Fresh => Fresh'
<1>0. lastClosed \in Int /\ snapshot \in Int /\ gap.resume \in Int
  BY DEF TypeOK, MaybeBar, Bars, None
<1>1. CASE Tick \/ Push \/ Die \/ WatchdogClose
  BY <1>1 DEF Tick, Push, Die, WatchdogClose, ResumeInv, Fresh
<1>2. CASE OnWsMessage
  <2>. DEFINE f == Head(wire)
  <2>0. UNCHANGED <<phase, gap>>
    BY <1>2 DEF OnWsMessage
  <2>1. f.bar \in Bars /\ f.bar \in Int
    <3>1. f \in Frames
      BY <1>2, HeadTailProperties DEF OnWsMessage, TypeOK
    <3>. QED  BY <3>1 DEF Frames, Bars
  <2>2. CASE DropSettledForming(f)
    BY <2>0, <2>2 DEF DropSettledForming, feed, ResumeInv, Fresh
  <2>3. CASE TakeForming(f)
    BY <2>0, <2>1, <2>3 DEF TakeForming, ResumeInv, Fresh
  <2>4. CASE TakeClosed(f) /\ holding
    BY <2>0, <2>4 DEF TakeClosed, feed, ResumeInv, Fresh
  <2>5. CASE TakeClosed(f) /\ ~holding
    <3>. DEFINE S == IF f.bar > lastClosed THEN {f.bar} ELSE {}
    <3>1. /\ EnqueueClosed(S) /\ S \in SUBSET Bars
          /\ \A b \in S : lastClosed < b
      BY <1>0, <2>1, <2>5 DEF TakeClosed
    <3>2. lastClosed <= lastClosed' /\ (Fresh => Fresh')
      BY <3>1, EnqueueFresh
    <3>3. lastClosed' \in Int
      BY TypeStep DEF TypeOK, MaybeBar, Bars, None
    <3>. QED  BY <1>0, <2>0, <3>2, <3>3 DEF ResumeInv
  <2>. QED  BY <1>2, <2>2, <2>3, <2>4, <2>5 DEF OnWsMessage
<1>3. CASE Startup
  BY <1>3 DEF Startup, StartupGap, StartupPage, ResumeInv
<1>4. CASE Disconnect \/ Connect \/ ConnectFails
  BY <1>4 DEF Disconnect, Connect, ConnectFails, ResumeInv, Fresh
<1>5. CASE OnReconnect
  <2>1. CASE phase' = "backfill"
    BY <1>0, <1>5, <2>1 DEF OnReconnect, feed, ResumeInv, Fresh
  <2>2. CASE phase' # "backfill"
    <3>. DEFINE S == {b \in held : b > lastClosed}
    <3>1. EnqueueClosed(S)
      BY <1>5, <2>2 DEF OnReconnect
    <3>2. S \in SUBSET Bars /\ \A b \in S : lastClosed < b
      BY <1>0 DEF TypeOK, Bars
    <3>. QED  BY <2>2, <3>1, <3>2, EnqueueFresh DEF ResumeInv
  <2>. QED  BY <2>1, <2>2
<1>6. CASE BackfillPage
  <2>. DEFINE page == Page(lastClosed)
              next == NextCursor(page)
              newest == IF page = {} THEN lastClosed ELSE next - 1
              last == page \union {b \in held : b > newest}
  <2>1. /\ page \in SUBSET Bars /\ \A b \in page : lastClosed < b
        /\ last \in SUBSET Bars /\ \A b \in last : lastClosed < b
    BY NewerThanCursor
  <2>2. EnqueueClosed(page) \/ EnqueueClosed(last)
    BY <1>6 DEF BackfillPage
  <2>3. lastClosed <= lastClosed' /\ (Fresh => Fresh')
    BY <2>1, <2>2, EnqueueFresh
  <2>4. lastClosed' \in Int
    BY TypeStep DEF TypeOK, MaybeBar, Bars, None
  <2>5. phase' = "backfill" => phase = "backfill" /\ gap'.resume = gap.resume
    BY <1>6 DEF BackfillPage, TypeOK
  <2>. QED  BY <1>0, <2>3, <2>4, <2>5 DEF ResumeInv
<1>7. CASE BackfillFails
  BY <1>0, <1>7 DEF BackfillFails, ResumeInv, Fresh
<1>8. CASE FailClosed
  BY <1>8 DEF FailClosed, ResumeInv, Fresh
<1>9. CASE Watch
  BY <1>9 DEF Watch, TakeSpliced, WatchQueue, WatchSnapshot, ResumeInv, Fresh,
              None
<1>10. CASE UNCHANGED vars
  BY <1>10 DEF vars, ResumeInv, Fresh
<1>. QED
  BY <1>1, <1>2, <1>3, <1>4, <1>5, <1>6, <1>7, <1>8, <1>9, <1>10
     DEF Next, Reconnect

\* After startup no close, however it arrives, leaves a snapshot of its own or
\* of an older bar behind it, under any timing of drops and failures
\* (_enqueue_closed, _release_pending_closed, _on_ws_message).
THEOREM FormingStaysFresh == Spec => StaysFresh
<1>1. Init => ResumeInv
  BY DEF Init, ResumeInv
<1>2. TypeOK /\ ResumeInv /\ [Next]_vars => ResumeInv'
  BY FreshStep
<1>3. TypeOK /\ ResumeInv /\ [Next]_vars =>
         [phase \notin {"startup", "startupGap"} /\ Fresh => Fresh']_vars
  BY FreshStep
<1>. QED  BY <1>1, <1>2, <1>3, TypeCorrect, PTL DEF Spec, StaysFresh

-----------------------------------------------------------------------------
(***************************************************************************)
(* The order of the closed bars: DeliveryInv is inductive for a socket     *)
(* that lives until on_reconnect returns and is silent while it closes,    *)
(* and the cursor, sequence and stream properties follow from it.          *)
(***************************************************************************)
Quiet == ~DropInReconnect /\ ~PushInClose

(***************************************************************************)
(* Sorted runs and the pages of a backfill                                 *)
(***************************************************************************)

\* An ascending run over an interval of bars is the interval itself: by the
\* pigeonhole principle the run is neither ahead nor behind.
LEMMA IntervalRun ==
  ASSUME NEW a \in Bars, NEW z \in Bars, a <= z, NEW run \in Ascending(a .. z)
  PROVE  /\ Len(run) = z - a + 1
         /\ \A i \in 1 .. Len(run) : run[i] = a + i - 1
<1>. DEFINE n == z - a + 1
<1>0. /\ a \in Int /\ z \in Int /\ n \in Nat
      /\ (a .. z) \in SUBSET Bars
  BY FeedAssumption DEF Bars
<1>1. Cardinality(a .. z) = n
  BY <1>0, FS_Interval
<1>2. /\ Len(run) = n
      /\ \A i \in 1 .. n : run[i] \in a .. z
      /\ \A i, j \in 1 .. n : i < j => run[i] < run[j]
  BY <1>0, <1>1, RunFacts
<1>3. ASSUME NEW i \in 1 .. n
      PROVE  run[i] = a + i - 1
  <2>0. i \in Int /\ run[i] \in Int /\ a <= run[i] /\ run[i] <= z
    BY <1>0, <1>2
  <2>1. i <= run[i] - a + 1
    <3>. DEFINE f == [j \in 1 .. i |-> run[j]]
    <3>1. ASSUME NEW j \in 1 .. i
          PROVE  f[j] \in a .. run[i]
      <4>1. j \in 1 .. n /\ (j = i \/ j < i)
        BY <1>0
      <4>2. run[j] \in a .. z /\ run[j] <= run[i]
        BY <1>2, <2>0, <4>1
      <4>. QED  BY <1>0, <2>0, <4>2
    <3>2. ASSUME NEW j \in 1 .. i, NEW k \in 1 .. i, f[j] = f[k]
          PROVE  j = k
      <4>1. j \in 1 .. n /\ k \in 1 .. n
        BY <1>0
      <4>2. run[j] \in Int /\ run[k] \in Int
        BY <1>0, <1>2, <4>1
      <4>3. ~(j < k) /\ ~(k < j)
        BY <1>2, <3>2, <4>1, <4>2
      <4>. QED  BY <4>1, <4>3, <1>0
    <3>3. f \in Injection(1 .. i, a .. run[i])
      BY <3>1, <3>2 DEF Injection, IsInjective
    <3>4. Cardinality(1 .. i) <= Cardinality(a .. run[i])
      BY <1>0, <2>0, <3>3, FS_Injection, FS_Interval
    <3>. QED  BY <1>0, <2>0, <3>4, FS_Interval
  <2>2. n - i + 1 <= z - run[i] + 1
    <3>. DEFINE f == [j \in i .. n |-> run[j]]
    <3>1. ASSUME NEW j \in i .. n
          PROVE  f[j] \in run[i] .. z
      <4>1. j \in 1 .. n /\ (j = i \/ i < j)
        BY <1>0
      <4>2. run[j] \in a .. z /\ run[i] <= run[j]
        BY <1>2, <2>0, <4>1
      <4>. QED  BY <1>0, <2>0, <4>2
    <3>2. ASSUME NEW j \in i .. n, NEW k \in i .. n, f[j] = f[k]
          PROVE  j = k
      <4>1. j \in 1 .. n /\ k \in 1 .. n
        BY <1>0
      <4>2. run[j] \in Int /\ run[k] \in Int
        BY <1>0, <1>2, <4>1
      <4>3. ~(j < k) /\ ~(k < j)
        BY <1>2, <3>2, <4>1, <4>2
      <4>. QED  BY <4>1, <4>3, <1>0
    <3>3. f \in Injection(i .. n, run[i] .. z)
      BY <3>1, <3>2 DEF Injection, IsInjective
    <3>4. Cardinality(i .. n) <= Cardinality(run[i] .. z)
      BY <1>0, <2>0, <3>3, FS_Injection, FS_Interval
    <3>. QED  BY <1>0, <2>0, <3>4, FS_Interval
  <2>. QED  BY <1>0, <2>0, <2>1, <2>2
<1>. QED  BY <1>2, <1>3

\* A request whose cursor is short of the end returns at least one bar, the
\* bars from its cursor to the next one (backfill_closed_bars, _backfill_gap).
LEMMA PageFacts ==
  ASSUME TypeOK, NEW after \in MaybeBar,
         after < gap.cursor, gap.cursor < gap.until
  PROVE  LET next == NextCursor(Page(after))
         IN  /\ next \in Bars /\ gap.cursor < next /\ next <= gap.until
             /\ Page(after) = gap.cursor .. next - 1
<1>1. /\ gap.cursor \in Int /\ gap.until \in Int /\ after \in Int
      /\ 0 <= gap.cursor /\ 0 <= after /\ gap.until <= MaxBar
      /\ ChunkEnd \in Int
      /\ gap.cursor <= ChunkEnd /\ ChunkEnd <= gap.until
  BY FeedAssumption DEF TypeOK, MaybeBar, Bars, None, ChunkEnd
<1>2. CASE ChunkEnd = gap.until
  <2>1. Page(after) = gap.cursor .. gap.until - 1
    BY <1>1, <1>2 DEF Page
  <2>2. Page(after) # {}
    BY <1>1, <2>1
  <2>3. NextCursor(Page(after)) = gap.until
    BY <1>2, <2>2 DEF NextCursor
  <2>. QED  BY <1>1, <2>1, <2>3, FeedAssumption DEF Bars
<1>3. CASE ChunkEnd # gap.until
  <2>1. Page(after) = gap.cursor .. ChunkEnd
    BY <1>1, <1>3 DEF Page
  <2>2. NextCursor(Page(after)) = ChunkEnd + 1
    BY <1>3 DEF NextCursor
  <2>. QED  BY <1>1, <1>3, <2>1, <2>2, FeedAssumption DEF Bars
<1>. QED  BY <1>2, <1>3

(***************************************************************************)
(* The queue                                                               *)
(***************************************************************************)

\* Enqueueing closed bars newer than the cursor, without a hole behind it,
\* keeps the queue without a hole and the cursor backed by it
\* (_enqueue_closed).
LEMMA EnqueueQueue ==
  ASSUME TypeOK, NEW S \in SUBSET Bars, EnqueueClosed(S), NEW base \in Nat,
         \A b \in S : lastClosed < b,
         \A b \in S, c \in Bars : base < c /\ lastClosed < c /\ c < b => c \in S,
         NoHole(queue, base), HoldsUpTo(queue, base, lastClosed)
  PROVE  NoHole(queue', base) /\ HoldsUpTo(queue', base, lastClosed')
<1>1. PICK run \in Ascending(S) :
         /\ queue' = queue \o run
         /\ lastClosed' = IF S = {} THEN lastClosed ELSE run[Cardinality(S)]
  BY DEF EnqueueClosed
<1>. DEFINE m == Len(queue)
<1>2. /\ run \in Seq(Bars)
      /\ \A k \in 1 .. Len(run) : run[k] \in S
      /\ \A b \in S : \E k \in 1 .. Len(run) : run[k] = b
      /\ \A j, k \in 1 .. Len(run) : j < k => run[j] < run[k]
      /\ S # {} => /\ run[Cardinality(S)] \in S
                   /\ \A b \in S : b <= run[Cardinality(S)]
  BY RunFacts
<1>3. /\ queue \in Seq(MaybeBar) /\ run \in Seq(MaybeBar)
      /\ lastClosed \in Nat
      /\ \A i \in DOMAIN queue : queue[i] \in Nat
  <2>1. run \in Seq(MaybeBar)
    BY <1>2, SeqMonotonic DEF MaybeBar
  <2>2. \A x \in MaybeBar : x \in Nat
    BY DEF MaybeBar, Bars, None
  <2>3. \A i \in DOMAIN queue : queue[i] \in MaybeBar
    BY ElementOfSeq, LenProperties DEF TypeOK
  <2>. QED  BY <2>1, <2>2, <2>3 DEF TypeOK
<1>4. /\ m \in Nat /\ Len(run) \in Nat
      /\ DOMAIN queue = 1 .. m
      /\ DOMAIN queue' = 1 .. m + Len(run)
      /\ \A i \in 1 .. m : queue'[i] = queue[i]
      /\ \A k \in 1 .. Len(run) : queue'[m + k] = run[k]
  <2>1. queue' \in Seq(MaybeBar) /\ Len(queue') = m + Len(run)
    BY <1>1, <1>3, ConcatProperties
  <2>2. m \in Nat /\ Len(run) \in Nat /\ DOMAIN queue = 1 .. m
        /\ DOMAIN queue' = 1 .. m + Len(run)
    BY <1>3, <2>1, LenProperties
  <2>3. \A i \in 1 .. m + Len(run) :
           queue'[i] = IF i <= m THEN queue[i] ELSE run[i - m]
    BY <1>1, <1>3, ConcatProperties
  <2>4. \A k \in 1 .. Len(run) : queue'[m + k] = run[k]
    BY <2>2, <2>3
  <2>. QED  BY <2>2, <2>3, <2>4
<1>5. \A b \in S : b \in Nat /\ b \in Bars
  BY DEF Bars
<1>6. ASSUME NEW i \in DOMAIN queue'
      PROVE  \/ queue'[i] <= base + 1
             \/ \E j \in 1 .. i - 1 : queue'[j] >= queue'[i] - 1
  <2>1. CASE i <= m
    <3>1. i \in 1 .. m /\ queue'[i] = queue[i]
      BY <1>4, <2>1
    <3>2. CASE queue[i] <= base + 1
      BY <3>1, <3>2
    <3>3. CASE \E j \in 1 .. i - 1 : queue[j] >= queue[i] - 1
      <4>1. PICK j \in 1 .. i - 1 : queue[j] >= queue[i] - 1
        BY <3>3
      <4>2. j \in 1 .. m
        BY <1>4, <3>1
      <4>. QED  BY <1>4, <3>1, <4>1, <4>2
    <3>. QED  BY <1>4, <3>1, <3>2, <3>3 DEF NoHole
  <2>2. CASE m < i
    <3>. DEFINE k == i - m
    <3>1. k \in 1 .. Len(run) /\ i = m + k /\ i \in Int
      BY <1>4, <2>2
    <3>2. queue'[i] = run[k] /\ run[k] \in S
      BY <1>2, <1>4, <3>1
    <3>. DEFINE b == run[k]
    <3>3. SUFFICES ASSUME base + 1 < b
                   PROVE  \E j \in 1 .. i - 1 : queue'[j] >= b - 1
      BY <1>5, <3>2
    <3>4. b - 1 \in Bars /\ base < b - 1
      <4>1. b \in Bars
        BY <1>5, <3>2
      <4>. QED  BY <3>3, <4>1, FeedAssumption DEF Bars
    <3>5. CASE b - 1 <= lastClosed
      <4>1. PICK j \in 1 .. m : queue[j] = b - 1
        BY <1>4, <3>4, <3>5 DEF HoldsUpTo
      <4>2. j \in 1 .. i - 1 /\ queue'[j] = b - 1
        BY <1>4, <2>2, <4>1
      <4>. QED  BY <1>5, <3>2, <4>2
    <3>6. CASE lastClosed < b - 1
      <4>1. b - 1 \in S
        BY <1>5, <3>2, <3>4, <3>6
      <4>2. PICK j \in 1 .. Len(run) : run[j] = b - 1
        BY <1>2, <4>1
      <4>3. ~(k < j) /\ k # j
        BY <1>2, <1>5, <3>1, <3>2, <4>2
      <4>4. m + j \in 1 .. i - 1 /\ queue'[m + j] = b - 1
        BY <1>4, <3>1, <4>2, <4>3
      <4>. QED  BY <1>5, <3>2, <4>4
    <3>. QED  BY <1>3, <1>5, <3>2, <3>5, <3>6
  <2>. QED  BY <1>4, <2>1, <2>2
<1>7. ASSUME NEW b \in Bars, base < b, b <= lastClosed'
      PROVE  \E i \in DOMAIN queue' : queue'[i] = b
  <2>1. CASE b <= lastClosed
    <3>1. PICK i \in 1 .. m : queue[i] = b
      BY <1>4, <1>7, <2>1 DEF HoldsUpTo
    <3>. QED  BY <1>4, <3>1
  <2>2. CASE lastClosed < b
    <3>1. S # {} /\ lastClosed' \in S
      BY <1>1, <1>2, <1>3, <1>7, <2>2 DEF Bars
    <3>2. b \in S
      <4>1. b = lastClosed' \/ b < lastClosed'
        BY <1>5, <1>7, <3>1 DEF Bars
      <4>. QED  BY <1>7, <2>2, <3>1, <4>1
    <3>3. PICK k \in 1 .. Len(run) : run[k] = b
      BY <1>2, <3>2
    <3>. QED  BY <1>4, <3>3
  <2>. QED  BY <1>3, <2>1, <2>2 DEF Bars
<1>. QED  BY <1>6, <1>7 DEF NoHole, HoldsUpTo

\* What else an enqueue leaves: no sentinel and no bar still forming, if
\* there was none, and the cursor at the newest bar.
LEMMA EnqueueBounds ==
  ASSUME TypeOK, NEW S \in SUBSET Bars, EnqueueClosed(S),
         \A b \in S : lastClosed < b /\ b < now, lastClosed < now,
         \A i \in DOMAIN queue : queue[i] < now /\ queue[i] # None
  PROVE  /\ \A i \in DOMAIN queue' : queue'[i] < now /\ queue'[i] # None
         /\ lastClosed <= lastClosed' /\ lastClosed' < now
         /\ \A b \in S : b <= lastClosed'
         /\ S # {} => lastClosed' \in S
         /\ S = {} => queue' = queue /\ lastClosed' = lastClosed
<1>1. PICK run \in Ascending(S) :
         /\ queue' = queue \o run
         /\ lastClosed' = IF S = {} THEN lastClosed ELSE run[Cardinality(S)]
  BY DEF EnqueueClosed
<1>2. /\ run \in Seq(Bars)
      /\ \A k \in 1 .. Len(run) : run[k] \in S
      /\ S = {} => run = <<>>
      /\ S # {} => /\ run[Cardinality(S)] \in S
                   /\ \A b \in S : b <= run[Cardinality(S)]
  BY RunFacts
<1>3. queue \in Seq(MaybeBar) /\ run \in Seq(MaybeBar)
  BY <1>2, SeqMonotonic DEF TypeOK, MaybeBar
<1>4. /\ Len(queue) \in Nat /\ Len(run) \in Nat
      /\ DOMAIN queue = 1 .. Len(queue)
      /\ DOMAIN queue' = 1 .. Len(queue) + Len(run)
  BY <1>1, <1>3, LenProperties, ConcatProperties
<1>5. ASSUME NEW i \in DOMAIN queue'
      PROVE  queue'[i] < now /\ queue'[i] # None
  <2>1. queue'[i] = IF i <= Len(queue) THEN queue[i] ELSE run[i - Len(queue)]
    BY <1>1, <1>3, <1>4, ConcatProperties
  <2>2. CASE i <= Len(queue)
    BY <1>4, <2>1, <2>2
  <2>3. CASE Len(queue) < i
    <3>1. i - Len(queue) \in 1 .. Len(run)
      BY <1>4, <2>3
    <3>2. queue'[i] \in S
      BY <1>2, <1>4, <2>1, <2>3, <3>1
    <3>3. queue'[i] \in Bars /\ queue'[i] < now
      BY <3>2
    <3>. QED  BY <3>3 DEF None, Bars
  <2>. QED  BY <1>4, <2>2, <2>3
<1>6. \A b \in S : b \in Int
  BY DEF Bars
<1>7. lastClosed \in Int /\ now \in Int
  BY DEF TypeOK, MaybeBar, Bars, None
<1>8. S = {} => queue' = queue
  BY <1>1, <1>2, <1>3, ConcatEmptySeq
<1>9. lastClosed <= lastClosed' /\ lastClosed' < now
  BY <1>1, <1>2, <1>6, <1>7
<1>. QED  BY <1>1, <1>2, <1>5, <1>8, <1>9

(***************************************************************************)
(* The frames on their way                                                 *)
(***************************************************************************)

\* The variables as the arithmetic of the proofs needs them.
TypedFacts ==
  /\ now \in Int /\ lastClosed \in Nat /\ confirmed \in Nat
  /\ gap.cursor \in Nat /\ gap.until \in Nat /\ gap.resume \in Nat
  /\ gap.until <= MaxBar
  /\ Len(queue) \in Nat /\ DOMAIN queue = 1 .. Len(queue)
  /\ \A i \in DOMAIN queue : queue[i] \in Nat
  /\ Len(wire) \in Nat /\ DOMAIN wire = 1 .. Len(wire)
  /\ \A i \in DOMAIN wire : wire[i].bar \in Bars /\ wire[i].bar \in Int
  /\ Len(splice) \in Nat /\ DOMAIN splice = 1 .. Len(splice)
  /\ \A h \in held : h \in Bars /\ h \in Int

LEMMA Typed == TypeOK => TypedFacts
<1>. SUFFICES ASSUME TypeOK PROVE TypedFacts
  OBVIOUS
<1>1. (\A b \in Bars : b \in Int) /\ (\A b \in MaybeBar : b \in Nat)
  BY DEF MaybeBar, Bars, None
<1>2. /\ \A i \in 1 .. Len(queue) : queue[i] \in MaybeBar
      /\ \A i \in 1 .. Len(wire) : wire[i] \in Frames
  BY ElementOfSeq DEF TypeOK
<1>3. /\ Len(queue) \in Nat /\ DOMAIN queue = 1 .. Len(queue)
      /\ Len(wire) \in Nat /\ DOMAIN wire = 1 .. Len(wire)
      /\ Len(splice) \in Nat /\ DOMAIN splice = 1 .. Len(splice)
  BY LenProperties DEF TypeOK
<1>4. /\ now \in Bars /\ lastClosed \in MaybeBar /\ confirmed \in Bars
      /\ gap.resume \in MaybeBar /\ held \in SUBSET Bars
  BY DEF TypeOK
<1>5. gap.cursor \in Nat /\ gap.until \in Nat /\ gap.until <= MaxBar
  BY FeedAssumption DEF TypeOK
<1>6. confirmed \in Nat
  BY <1>4 DEF Bars
<1>7. \A i \in DOMAIN wire : wire[i].bar \in Bars
  BY <1>2, <1>3 DEF Frames
<1>. QED  BY <1>1, <1>2, <1>3, <1>4, <1>5, <1>6, <1>7 DEF TypedFacts

LEMMA TypedNext == TypeOK' => TypedFacts'
BY Typed, PTL

\* Frames that stay where they are need what they needed before.
LEMMA WireStays ==
  ASSUME TypeOK, WireInv, wire' = wire, now' = now,
         Listening' /\ sock' = "open" =>
            Listening /\ sock = "open" /\ \A b \in Int : Covered(b) => Covered(b)'
  PROVE  WireInv'
<1>1. SUFFICES ASSUME Listening', sock' = "open"
               PROVE  WireInv'
  BY DEF WireInv
<1>2. Listening /\ sock = "open" /\ \A b \in Int : Covered(b) => Covered(b)'
  BY <1>1
<1>3. /\ \A i \in DOMAIN wire : wire[i].bar - 1 \in Int
      /\ now - 1 \in Int
  BY Typed DEF TypedFacts
<1>. QED  BY <1>2, <1>3 DEF WireInv, Covered

\* Nothing on the wire matters when every closed bar is covered otherwise.
LEMMA WireCovered ==
  ASSUME TypeOK', ClosedInv', \A b \in Int : b < now' => Covered(b)'
  PROVE  WireInv'
<1>1. /\ \A i \in DOMAIN wire' : wire'[i].bar \in Int /\ wire'[i].bar - 1 \in Int
      /\ now' \in Int /\ now' - 1 \in Int
  BY TypedNext DEF TypedFacts
<1>2. ASSUME NEW i \in DOMAIN wire', wire'[i].confirm
      PROVE  Covered(wire[i].bar - 1)'
  <2>1. wire'[i].bar - 1 < now'
    BY <1>1, <1>2 DEF ClosedInv
  <2>. QED  BY <1>1, <2>1 DEF Covered
<1>3. Covered(now - 1)'
  BY <1>1 DEF Covered
<1>. QED  BY <1>2, <1>3 DEF WireInv

(***************************************************************************)
(* Venue and transport                                                     *)
(***************************************************************************)

LEMMA TickStep ==
  ASSUME Quiet, DeliveryInv, TypeOK', Tick
  PROVE  DeliveryInv'
<1>. USE DEF DeliveryInv
<1>0. TypedFacts
  BY Typed
<1>1. /\ now' = now + 1
      /\ UNCHANGED <<sock, lastClosed, streamBar, holding, held, queue, snapshot,
                     phase, gap, splice, confirmed, faults>>
      /\ sock # "open" => wire' = wire
      /\ sock = "open" =>
            /\ DOMAIN wire' = 1 .. Len(wire) + 1
            /\ \A i \in 1 .. Len(wire) : wire'[i] = wire[i]
            /\ wire'[Len(wire) + 1] = [bar |-> now, confirm |-> TRUE]
  <2>1. sock = "open" => wire' = Append(wire, [bar |-> now, confirm |-> TRUE])
    BY DEF Tick, Subscribed
  <2>2. [bar |-> now, confirm |-> TRUE] \in Frames /\ wire \in Seq(Frames)
    BY DEF TypeOK, Frames
  <2>3. sock = "open" =>
            /\ DOMAIN wire' = 1 .. Len(wire) + 1
            /\ \A i \in 1 .. Len(wire) : wire'[i] = wire[i]
            /\ wire'[Len(wire) + 1] = [bar |-> now, confirm |-> TRUE]
    BY <2>1, <2>2, AppendProperties, LenProperties
  <2>. QED  BY <2>3 DEF Tick, Subscribed, Quiet
<1>2. PhaseInv'
  BY <1>1 DEF PhaseInv
<1>3. ClosedInv'
  <2>1. ASSUME NEW i \in DOMAIN wire', wire'[i].confirm
        PROVE  wire'[i].bar < now'
    <3>1. CASE sock # "open"
      <4>1. i \in DOMAIN wire /\ wire'[i] = wire[i] /\ wire[i].confirm
        BY <1>1, <2>1, <3>1
      <4>2. wire[i].bar < now /\ wire[i].bar \in Int
        BY <1>0, <4>1 DEF ClosedInv, TypedFacts
      <4>. QED  BY <1>0, <1>1, <4>1, <4>2 DEF TypedFacts
    <3>2. CASE sock = "open" /\ i \in 1 .. Len(wire)
      BY <1>0, <1>1, <2>1, <3>2 DEF ClosedInv, TypedFacts
    <3>3. CASE sock = "open" /\ i = Len(wire) + 1
      BY <1>0, <1>1, <3>3 DEF TypedFacts
    <3>. QED  BY <1>0, <1>1, <2>1, <3>1, <3>2, <3>3 DEF TypedFacts
  <2>2. /\ \A h \in held : h < now + 1
        /\ \A i \in DOMAIN queue : queue[i] < now + 1
        /\ lastClosed < now + 1 /\ confirmed + Len(splice) < now + 1
        /\ gap.until <= now + 1
    BY <1>0 DEF ClosedInv, TypedFacts
  <2>. QED  BY <1>1, <2>1, <2>2 DEF ClosedInv
<1>4. GapInv'
  BY <1>1 DEF GapInv
<1>5. QueueInv'
  BY <1>1 DEF QueueInv, Listening, Base
<1>6. WireInv'
  <2>1. SUFFICES ASSUME Listening, sock = "open"
                 PROVE  WireInv'
    BY <1>1 DEF WireInv, Listening
  <2>2. \A b : Covered(b)' <=> Covered(b)
    BY <1>1 DEF Covered
  <2>3. ASSUME NEW i \in DOMAIN wire', wire'[i].confirm
        PROVE  \/ Covered(wire[i].bar - 1)'
               \/ \E j \in 1 .. i - 1 :
                     wire'[j].confirm /\ wire'[j].bar >= wire'[i].bar - 1
    <3>1. CASE i = Len(wire) + 1
      <4>1. wire'[i].bar = now
        BY <1>1, <2>1, <3>1
      <4>2. CASE Covered(now - 1)
        BY <1>1, <2>1, <4>1, <4>2 DEF Covered
      <4>3. CASE \E j \in DOMAIN wire : wire[j].confirm /\ wire[j].bar >= now - 1
        BY <1>0, <1>1, <2>1, <3>1, <4>1, <4>3 DEF TypedFacts
      <4>. QED  BY <2>1, <4>2, <4>3 DEF WireInv
    <3>2. CASE i \in 1 .. Len(wire)
      <4>1. wire'[i] = wire[i]
        BY <1>1, <2>1, <3>2
      <4>2. CASE Covered(wire[i].bar - 1)
        BY <1>1, <4>1, <4>2 DEF Covered
      <4>3. CASE \E j \in 1 .. i - 1 :
                    wire[j].confirm /\ wire[j].bar >= wire[i].bar - 1
        BY <1>0, <1>1, <2>1, <3>2, <4>1, <4>3 DEF TypedFacts
      <4>. QED  BY <1>0, <2>1, <2>3, <3>2, <4>1, <4>2, <4>3 DEF WireInv, TypedFacts
    <3>. QED  BY <1>0, <1>1, <2>1, <3>1, <3>2 DEF TypedFacts
  <2>4. \E j \in DOMAIN wire' : wire'[j].confirm /\ wire'[j].bar >= now' - 1
    BY <1>0, <1>1, <2>1 DEF TypedFacts
  <2>. QED  BY <2>3, <2>4 DEF WireInv
<1>. QED  BY <1>2, <1>3, <1>4, <1>5, <1>6

LEMMA PushStep ==
  ASSUME DeliveryInv, TypeOK', Push
  PROVE  DeliveryInv'
<1>. USE DEF DeliveryInv
<1>0. TypedFacts
  BY Typed
<1>1. PICK f \in Frames :
         f.bar <= now /\ (f.confirm => f.bar < now) /\ wire' = Append(wire, f)
  BY DEF Push
<1>2. /\ sock = "open"
      /\ UNCHANGED <<now, sock, lastClosed, streamBar, holding, held, queue,
                     snapshot, phase, gap, splice, confirmed, faults>>
      /\ f.bar \in Int
      /\ DOMAIN wire' = 1 .. Len(wire) + 1
      /\ \A i \in 1 .. Len(wire) : wire'[i] = wire[i]
      /\ wire'[Len(wire) + 1] = f
  <2>1. wire \in Seq(Frames)
    BY DEF TypeOK
  <2>2. /\ DOMAIN wire' = 1 .. Len(wire) + 1
        /\ \A i \in 1 .. Len(wire) : wire'[i] = wire[i]
        /\ wire'[Len(wire) + 1] = f
    BY <1>1, <2>1, AppendProperties, LenProperties
  <2>3. f.bar \in Int
    BY DEF Frames, Bars
  <2>. QED  BY <2>2, <2>3 DEF Push
<1>3. PhaseInv'
  BY <1>2 DEF PhaseInv
<1>4. ClosedInv'
  <2>1. ASSUME NEW i \in DOMAIN wire', wire'[i].confirm
        PROVE  wire'[i].bar < now
    <3>1. CASE i \in 1 .. Len(wire)
      BY <1>0, <1>2, <2>1, <3>1 DEF ClosedInv, TypedFacts
    <3>2. CASE i = Len(wire) + 1
      BY <1>1, <1>2, <2>1, <3>2
    <3>. QED  BY <1>0, <1>2, <3>1, <3>2 DEF TypedFacts
  <2>. QED  BY <1>2, <2>1 DEF ClosedInv
<1>5. GapInv'
  BY <1>2 DEF GapInv
<1>6. QueueInv'
  BY <1>2 DEF QueueInv, Listening, Base
<1>7. WireInv'
  <2>1. SUFFICES ASSUME Listening
                 PROVE  WireInv'
    BY <1>2 DEF WireInv, Listening
  <2>2. ASSUME NEW i \in DOMAIN wire', wire'[i].confirm
        PROVE  \/ Covered(wire[i].bar - 1)'
               \/ \E j \in 1 .. i - 1 :
                     wire'[j].confirm /\ wire'[j].bar >= wire'[i].bar - 1
    <3>1. CASE i = Len(wire) + 1
      <4>1. wire'[i] = f /\ f.confirm /\ f.bar < now
        BY <1>1, <1>2, <2>2, <3>1
      <4>2. CASE Covered(now - 1)
        BY <1>0, <1>2, <4>1, <4>2 DEF Covered, TypedFacts
      <4>3. CASE \E j \in DOMAIN wire : wire[j].confirm /\ wire[j].bar >= now - 1
        BY <1>0, <1>2, <3>1, <4>1, <4>3 DEF TypedFacts
      <4>. QED  BY <1>2, <2>1, <4>2, <4>3 DEF WireInv
    <3>2. CASE i \in 1 .. Len(wire)
      <4>1. wire'[i] = wire[i]
        BY <1>2, <3>2
      <4>2. CASE Covered(wire[i].bar - 1)
        BY <1>2, <4>1, <4>2 DEF Covered
      <4>3. CASE \E j \in 1 .. i - 1 :
                    wire[j].confirm /\ wire[j].bar >= wire[i].bar - 1
        BY <1>0, <1>2, <3>2, <4>1, <4>3 DEF TypedFacts
      <4>. QED
        BY <1>0, <1>2, <2>1, <2>2, <3>2, <4>1, <4>2, <4>3 DEF WireInv, TypedFacts
    <3>. QED  BY <1>0, <1>2, <3>1, <3>2 DEF TypedFacts
  <2>3. \/ Covered(now - 1)'
        \/ \E j \in DOMAIN wire' : wire'[j].confirm /\ wire'[j].bar >= now - 1
    <3>1. CASE Covered(now - 1)
      BY <1>2, <3>1 DEF Covered
    <3>2. CASE \E j \in DOMAIN wire : wire[j].confirm /\ wire[j].bar >= now - 1
      BY <1>0, <1>2, <3>2 DEF TypedFacts
    <3>. QED  BY <1>2, <2>1, <3>1, <3>2 DEF WireInv
  <2>. QED  BY <1>2, <2>2, <2>3 DEF WireInv
<1>. QED  BY <1>3, <1>4, <1>5, <1>6, <1>7

\* Appending the sentinel ends the queue of the connection.
LEMMA SentinelStep ==
  ASSUME TypeOK, TypeOK', ClosedInv, QueueInv, PhaseInv, GapInv,
         queue' = Append(queue, None), sock' \in {"none", "dead"},
         sock \in {"open", "closing"},
         UNCHANGED <<lastClosed, splice, confirmed, now, gap>>,
         Listening' => Listening /\ phase' = phase
  PROVE  QueueInv' /\ \A i \in DOMAIN queue' : queue'[i] < now'
<1>0. TypedFacts
  BY Typed
<1>1. /\ DOMAIN queue' = 1 .. Len(queue) + 1 /\ Len(queue') = Len(queue) + 1
      /\ \A i \in 1 .. Len(queue) : queue'[i] = queue[i]
      /\ queue'[Len(queue) + 1] = None
  <2>1. queue \in Seq(MaybeBar) /\ None \in MaybeBar
    BY DEF TypeOK, MaybeBar
  <2>. QED  BY <2>1, AppendProperties, LenProperties
<1>2. \A i \in DOMAIN queue' : queue'[i] < now'
  BY <1>0, <1>1 DEF ClosedInv, TypedFacts, None
<1>3. \A i \in DOMAIN queue' : queue'[i] = None => i = Len(queue')
  BY <1>0, <1>1 DEF QueueInv, TypedFacts
<1>4. ASSUME Listening'
      PROVE  NoHole(queue', Base') /\ HoldsUpTo(queue', Base', lastClosed')
  <2>1. Base' = Base /\ Base \in Nat
    BY <1>0, <1>4 DEF Base, Listening, GapInv, TypedFacts
  <2>2. NoHole(queue, Base) /\ HoldsUpTo(queue, Base, lastClosed)
    BY <1>4 DEF QueueInv
  <2>3. NoHole(queue', Base)
    BY <1>0, <1>1, <2>1, <2>2 DEF NoHole, TypedFacts, None
  <2>4. HoldsUpTo(queue', Base, lastClosed)
    BY <1>0, <1>1, <2>2 DEF HoldsUpTo, TypedFacts
  <2>. QED  BY <2>1, <2>3, <2>4
<1>. QED  BY <1>2, <1>3, <1>4 DEF QueueInv

LEMMA DieStep ==
  ASSUME Quiet, DeliveryInv, TypeOK', Die \/ WatchdogClose
  PROVE  DeliveryInv'
<1>. USE DEF DeliveryInv
<1>1. /\ sock = "open" /\ phase \notin {"connected", "backfill"}
      /\ sock' \in {"none", "dead"} /\ wire' = <<>>
      /\ queue' = Append(queue, None)
      /\ UNCHANGED <<now, lastClosed, streamBar, holding, held, snapshot, phase,
                     gap, splice, confirmed>>
  BY DEF Die, WatchdogClose, MayDrop, Quiet
<1>2. QueueInv' /\ \A i \in DOMAIN queue' : queue'[i] < now'
  <2>1. Listening' => Listening /\ phase' = phase
    BY <1>1 DEF Listening
  <2>. QED  BY <1>1, <2>1, SentinelStep
<1>3. PhaseInv'
  BY <1>1 DEF PhaseInv
<1>4. ClosedInv'
  <2>1. DOMAIN wire' = {}
    BY <1>1
  <2>. QED  BY <1>1, <1>2, <2>1 DEF ClosedInv
<1>5. GapInv'
  BY <1>1 DEF GapInv
<1>6. WireInv'
  BY <1>1 DEF WireInv
<1>. QED  BY <1>2, <1>3, <1>4, <1>5, <1>6

(***************************************************************************)
(* Inbound dispatch                                                        *)
(***************************************************************************)

LEMMA WireHead ==
  ASSUME TypeOK, wire # <<>>, wire' = Tail(wire)
  PROVE  /\ Head(wire) = wire[1] /\ 1 \in DOMAIN wire
         /\ DOMAIN wire' = 1 .. Len(wire) - 1
         /\ \A i \in 1 .. Len(wire) - 1 : wire'[i] = wire[i + 1]
<1>1. wire \in Seq(Frames)
  BY DEF TypeOK
<1>2. /\ Len(Tail(wire)) = Len(wire) - 1 /\ Tail(wire) \in Seq(Frames)
      /\ \A i \in 1 .. Len(Tail(wire)) : Tail(wire)[i] = wire[i + 1]
  BY <1>1, HeadTailProperties
<1>3. Len(wire) \in Nat /\ Len(wire) # 0 /\ DOMAIN wire = 1 .. Len(wire)
  BY <1>1, EmptySeq, LenProperties
<1>4. Head(wire) = wire[1]
  BY <1>1
<1>. QED  BY <1>2, <1>3, <1>4, LenProperties

LEMMA TailClosed ==
  ASSUME TypeOK, ClosedInv, wire # <<>>, wire' = Tail(wire),
         NEW i \in DOMAIN wire', wire'[i].confirm
  PROVE  wire'[i].bar < now
<1>1. i + 1 \in DOMAIN wire /\ wire'[i] = wire[i + 1]
  BY Typed, WireHead DEF TypedFacts
<1>. QED  BY <1>1 DEF ClosedInv

\* Taking the first frame is safe when its own close is covered by the result.
LEMMA WireShifts ==
  ASSUME TypeOK, WireInv, wire # <<>>, wire' = Tail(wire),
         UNCHANGED <<now, sock>>, Listening' => Listening,
         \A b \in Int : Covered(b) => Covered(b)',
         wire[1].confirm /\ Listening =>
            \A b \in Int : b <= wire[1].bar => Covered(b)'
  PROVE  WireInv'
<1>0. TypedFacts
  BY Typed
<1>1. /\ 1 \in DOMAIN wire
      /\ DOMAIN wire' = 1 .. Len(wire) - 1
      /\ \A i \in 1 .. Len(wire) - 1 : wire'[i] = wire[i + 1]
  BY WireHead
<1>2. SUFFICES ASSUME Listening, sock = "open"
               PROVE  WireInv'
  BY DEF WireInv
<1>3. ASSUME NEW b \in Int, NEW k \in DOMAIN wire,
             wire[k].confirm, b <= wire[k].bar
      PROVE  \/ Covered(b)'
             \/ \E j \in DOMAIN wire' :
                   j = k - 1 /\ wire'[j].confirm /\ b <= wire'[j].bar
  <2>1. CASE k = 1
    BY <1>2, <1>3, <2>1
  <2>2. CASE k # 1
    BY <1>0, <1>1, <1>3, <2>2 DEF TypedFacts
  <2>. QED  BY <2>1, <2>2
<1>4. ASSUME NEW i \in DOMAIN wire', wire'[i].confirm
      PROVE  \/ Covered(wire[i].bar - 1)'
             \/ \E j \in 1 .. i - 1 :
                   wire'[j].confirm /\ wire'[j].bar >= wire'[i].bar - 1
  <2>0. /\ i \in Int /\ i + 1 \in DOMAIN wire /\ wire'[i] = wire[i + 1]
        /\ wire[i + 1].bar - 1 \in Int
    BY <1>0, <1>1 DEF TypedFacts
  <2>. PICK b \in Int : b = wire[i + 1].bar - 1
    BY <2>0
  <2>1. i \in Int /\ i + 1 \in DOMAIN wire /\ wire'[i] = wire[i + 1]
    BY <2>0
  <2>2. CASE Covered(b)
    BY <2>1, <2>2 DEF Covered
  <2>3. CASE \E k \in 1 .. i : wire[k].confirm /\ wire[k].bar >= b
    <3>1. PICK k \in 1 .. i : wire[k].confirm /\ wire[k].bar >= b
      BY <2>3
    <3>2. k \in DOMAIN wire /\ b <= wire[k].bar /\ k \in Int
      BY <1>0, <2>1, <3>1 DEF TypedFacts
    <3>3. CASE Covered(b)'
      BY <2>1, <3>3 DEF Covered
    <3>4. CASE \E j \in DOMAIN wire' :
                  j = k - 1 /\ wire'[j].confirm /\ b <= wire'[j].bar
      <4>1. PICK j \in DOMAIN wire' :
                  j = k - 1 /\ wire'[j].confirm /\ b <= wire'[j].bar
        BY <3>4
      <4>2. j \in 1 .. i - 1 /\ wire'[j].bar \in Int
        BY <1>0, <1>1, <3>1, <4>1 DEF TypedFacts
      <4>. QED  BY <2>1, <4>1, <4>2
    <3>. QED  BY <1>3, <2>1, <3>1, <3>2, <3>3, <3>4
  <2>4. wire[i + 1].confirm
    BY <1>4, <2>1
  <2>. QED  BY <1>2, <2>1, <2>2, <2>3, <2>4 DEF WireInv
<1>5. \/ Covered(now - 1)'
      \/ \E j \in DOMAIN wire' : wire'[j].confirm /\ wire'[j].bar >= now' - 1
  <2>1. now - 1 \in Int
    BY <1>0 DEF TypedFacts
  <2>2. CASE Covered(now - 1)
    BY <2>1, <2>2 DEF Covered
  <2>3. CASE \E k \in DOMAIN wire : wire[k].confirm /\ wire[k].bar >= now - 1
    <3>1. PICK k \in DOMAIN wire : wire[k].confirm /\ wire[k].bar >= now - 1
      BY <2>3
    <3>2. now - 1 <= wire[k].bar
      BY <1>0, <3>1 DEF TypedFacts
    <3>3. CASE Covered(now - 1)'
      BY <3>3
    <3>4. CASE \E j \in DOMAIN wire' :
                  j = k - 1 /\ wire'[j].confirm /\ now - 1 <= wire'[j].bar
      <4>1. PICK j \in DOMAIN wire' : wire'[j].confirm /\ now - 1 <= wire'[j].bar
        BY <3>4
      <4>2. wire'[j].bar \in Int
        BY <1>0, <1>1, <4>1 DEF TypedFacts
      <4>. QED  BY <2>1, <4>1, <4>2
    <3>5. \/ \E b \in Int : b = now - 1 /\ Covered(b)'
          \/ \E j \in DOMAIN wire' :
                j = k - 1 /\ wire'[j].confirm /\ now - 1 <= wire'[j].bar
      BY <1>3, <2>1, <3>1, <3>2
    <3>. QED  BY <3>3, <3>4, <3>5 DEF Covered
  <2>. QED  BY <1>2, <2>2, <2>3 DEF WireInv
<1>. QED  BY <1>2, <1>4, <1>5 DEF WireInv

\* A frame that neither closes a bar nor holds one back.
LEMMA FormingStep ==
  ASSUME DeliveryInv, TypeOK', OnWsMessage, ~Head(wire).confirm,
         UNCHANGED <<lastClosed, queue, held>>
  PROVE  DeliveryInv'
<1>. USE DEF DeliveryInv
<1>1. /\ wire # <<>> /\ wire' = Tail(wire)
      /\ UNCHANGED <<now, sock, holding, phase, gap, splice, confirmed>>
  BY DEF OnWsMessage
<1>2. /\ Head(wire) = wire[1] /\ DOMAIN wire' = 1 .. Len(wire) - 1
      /\ \A i \in 1 .. Len(wire) - 1 : wire'[i] = wire[i + 1]
  BY <1>1, WireHead
<1>3. PhaseInv'
  BY <1>1 DEF PhaseInv, OnWsMessage
<1>4. ClosedInv'
  <2>1. ASSUME NEW i \in DOMAIN wire', wire'[i].confirm
        PROVE  wire'[i].bar < now
    BY <1>1, <2>1, TailClosed
  <2>. QED  BY <1>1, <2>1 DEF ClosedInv
<1>5. GapInv'
  BY <1>1 DEF GapInv
<1>6. QueueInv'
  BY <1>1 DEF QueueInv, Listening, Base
<1>7. WireInv'
  <2>1. \A b \in Int : Covered(b) => Covered(b)'
    BY <1>1 DEF Covered
  <2>2. Listening' => Listening
    BY <1>1 DEF Listening
  <2>. QED  BY <1>1, <1>2, <2>1, <2>2, WireShifts
<1>. QED  BY <1>3, <1>4, <1>5, <1>6, <1>7

\* A close held back while the reconnect backfill is pending.
LEMMA HeldStep ==
  ASSUME DeliveryInv, TypeOK', OnWsMessage, TakeClosed(Head(wire)), holding
  PROVE  DeliveryInv'
<1>. USE DEF DeliveryInv
<1>. DEFINE f == Head(wire)
<1>0. TypedFacts
  BY Typed
<1>1. /\ wire # <<>> /\ wire' = Tail(wire) /\ f.confirm
      /\ held' = held \union {f.bar}
      /\ UNCHANGED <<lastClosed, queue, now, sock, holding, phase, gap, splice,
                     confirmed>>
  BY DEF OnWsMessage, TakeClosed, feed
<1>2. /\ f = wire[1] /\ 1 \in DOMAIN wire
      /\ DOMAIN wire' = 1 .. Len(wire) - 1
      /\ \A i \in 1 .. Len(wire) - 1 : wire'[i] = wire[i + 1]
      /\ f.bar \in Int /\ f.bar < now
  <2>1. f = wire[1] /\ 1 \in DOMAIN wire
    BY <1>1, WireHead
  <2>. QED  BY <1>0, <1>1, <2>1, WireHead DEF ClosedInv, TypedFacts
<1>3. PhaseInv'
  BY <1>1 DEF PhaseInv, OnWsMessage
<1>4. ClosedInv'
  <2>1. ASSUME NEW i \in DOMAIN wire', wire'[i].confirm
        PROVE  wire'[i].bar < now
    BY <1>1, <2>1, TailClosed
  <2>2. \A h \in held' : h < now
    BY <1>1, <1>2 DEF ClosedInv
  <2>. QED  BY <1>1, <2>1, <2>2 DEF ClosedInv
<1>5. GapInv'
  <2>1. SUFFICES ASSUME phase = "backfill", NEW h \in held', NEW b \in Bars,
                        gap.until <= b, b <= h
                 PROVE  b \in held'
    BY <1>1 DEF GapInv
  <2>2. CASE h \in held
    BY <1>1, <2>1, <2>2 DEF GapInv
  <2>3. CASE h = f.bar
    <3>1. b \in Int
      BY DEF Bars
    <3>2. sock = "open" /\ Listening
      BY <2>1 DEF PhaseInv, Listening
    <3>3. Covered(f.bar - 1)
      BY <1>0, <1>1, <1>2, <3>2 DEF WireInv, TypedFacts
    <3>4. CASE f.bar - 1 < gap.until
      BY <1>0, <1>1, <1>2, <2>1, <2>3, <3>1, <3>4 DEF TypedFacts
    <3>5. CASE \E g \in held : f.bar - 1 <= g
      <4>1. PICK g \in held : f.bar - 1 <= g
        BY <3>5
      <4>2. b = f.bar \/ b <= g
        BY <1>0, <1>2, <2>1, <2>3, <3>1, <4>1 DEF TypedFacts
      <4>. QED  BY <1>1, <2>1, <4>1, <4>2 DEF GapInv
    <3>6. f.bar - 1 <= lastClosed => f.bar - 1 < gap.until
      BY <1>0, <1>2, <2>1 DEF GapInv, TypedFacts
    <3>. QED  BY <3>3, <3>4, <3>5, <3>6 DEF Covered
  <2>. QED  BY <1>1, <2>2, <2>3
<1>6. QueueInv'
  BY <1>1 DEF QueueInv, Listening, Base
<1>7. WireInv'
  <2>1. \A b \in Int : Covered(b) => Covered(b)'
    BY <1>1 DEF Covered
  <2>2. \A b \in Int : b <= wire[1].bar => Covered(b)'
    BY <1>1, <1>2 DEF Covered
  <2>3. Listening' => Listening
    BY <1>1 DEF Listening
  <2>. QED  BY <1>1, <2>1, <2>2, <2>3, WireShifts
<1>. QED  BY <1>3, <1>4, <1>5, <1>6, <1>7

\* A close delivered.
LEMMA ClosedStep ==
  ASSUME DeliveryInv, TypeOK', OnWsMessage, TakeClosed(Head(wire)), ~holding
  PROVE  DeliveryInv'
<1>. USE DEF DeliveryInv
<1>. DEFINE f == Head(wire)
            S == IF f.bar > lastClosed THEN {f.bar} ELSE {}
<1>0. TypedFacts
  BY Typed
<1>1. /\ wire # <<>> /\ wire' = Tail(wire) /\ f.confirm
      /\ EnqueueClosed(S)
      /\ UNCHANGED <<held, now, sock, holding, phase, gap, splice, confirmed>>
  BY DEF OnWsMessage, TakeClosed
<1>2. /\ f = wire[1] /\ 1 \in DOMAIN wire
      /\ DOMAIN wire' = 1 .. Len(wire) - 1
      /\ \A i \in 1 .. Len(wire) - 1 : wire'[i] = wire[i + 1]
      /\ f.bar \in Int /\ f.bar \in Bars /\ f.bar < now
  <2>1. f = wire[1] /\ 1 \in DOMAIN wire
    BY <1>1, WireHead
  <2>. QED  BY <1>0, <1>1, <2>1, WireHead DEF ClosedInv, TypedFacts
<1>3. sock = "open" /\ held = {} /\ phase \in {"startup", "startupGap", "live"}
  BY <1>1 DEF PhaseInv, OnWsMessage, TypeOK, Phases
<1>4. S \in SUBSET Bars /\ \A b \in S : lastClosed < b /\ b < now
  BY <1>0, <1>2 DEF TypedFacts
<1>5. /\ \A i \in DOMAIN queue' : queue'[i] < now /\ queue'[i] # None
      /\ lastClosed <= lastClosed' /\ lastClosed' < now
      /\ lastClosed' \in Int /\ f.bar <= lastClosed'
  <2>1. \A i \in DOMAIN queue : queue[i] < now /\ queue[i] # None
    BY <1>3 DEF ClosedInv, QueueInv
  <2>2. lastClosed < now
    BY DEF ClosedInv
  <2>3. /\ \A i \in DOMAIN queue' : queue'[i] < now /\ queue'[i] # None
        /\ lastClosed <= lastClosed' /\ lastClosed' < now
        /\ \A b \in S : b <= lastClosed'
    BY <1>1, <1>4, <2>1, <2>2, EnqueueBounds
  <2>4. lastClosed' \in Int
    BY TypedNext DEF TypedFacts
  <2>. QED  BY <1>0, <1>2, <2>3, <2>4 DEF TypedFacts
<1>6. PhaseInv'
  <2>1. phase # "startup" => Warm <= lastClosed'
    BY <1>0, <1>5, FeedAssumption DEF PhaseInv, TypedFacts
  <2>. QED  BY <1>1, <1>3, <2>1 DEF PhaseInv
<1>7. ClosedInv'
  <2>1. ASSUME NEW i \in DOMAIN wire', wire'[i].confirm
        PROVE  wire'[i].bar < now
    BY <1>1, <2>1, TailClosed
  <2>. QED  BY <1>1, <1>5, <2>1 DEF ClosedInv
<1>8. GapInv'
  BY <1>1, <1>3 DEF GapInv
<1>9. QueueInv'
  <2>1. SUFFICES ASSUME Listening
                 PROVE  /\ NoHole(queue', Base)
                        /\ HoldsUpTo(queue', Base, lastClosed')
    BY <1>1, <1>5 DEF QueueInv, Listening, Base
  <2>2. Base \in Nat /\ (phase = "startupGap" => Base = gap.until - 1)
    BY <1>0, <1>3 DEF Base, GapInv, TypedFacts
  <2>3. Covered(f.bar - 1)
    BY <1>0, <1>1, <1>2, <1>3, <2>1 DEF WireInv, TypedFacts
  <2>4. \A b \in S, c \in Bars : Base < c /\ lastClosed < c /\ c < b => c \in S
    <3>1. SUFFICES ASSUME NEW c \in Bars, Base < c, lastClosed < c, c < f.bar
                   PROVE  FALSE
      OBVIOUS
    <3>2. c \in Int
      BY DEF Bars
    <3>3. f.bar - 1 <= lastClosed \/ (phase = "startupGap" /\ f.bar - 1 < gap.until)
      BY <1>3, <2>3 DEF Covered
    <3>. QED  BY <1>0, <1>2, <2>2, <3>1, <3>2, <3>3 DEF TypedFacts
  <2>5. NoHole(queue, Base) /\ HoldsUpTo(queue, Base, lastClosed)
    BY <2>1 DEF QueueInv
  <2>. QED  BY <1>1, <1>4, <2>2, <2>4, <2>5, EnqueueQueue
<1>10. WireInv'
  <2>1. \A b \in Int : Covered(b) => Covered(b)'
    BY <1>0, <1>1, <1>5 DEF Covered, TypedFacts
  <2>2. \A b \in Int : b <= wire[1].bar => Covered(b)'
    BY <1>2, <1>5 DEF Covered
  <2>3. Listening' => Listening
    BY <1>1 DEF Listening
  <2>. QED  BY <1>1, <2>1, <2>2, <2>3, WireShifts
<1>. QED  BY <1>6, <1>7, <1>8, <1>9, <1>10

LEMMA OnWsMessageStep ==
  ASSUME DeliveryInv, TypeOK', OnWsMessage
  PROVE  DeliveryInv'
<1>. DEFINE f == Head(wire)
<1>1. CASE DropSettledForming(f) \/ TakeForming(f)
  BY <1>1, FormingStep DEF DropSettledForming, TakeForming, feed
<1>2. CASE TakeClosed(f)
  BY <1>2, HeldStep, ClosedStep
<1>. QED  BY <1>1, <1>2 DEF OnWsMessage

(***************************************************************************)
(* Startup                                                                 *)
(***************************************************************************)

LEMMA StartupGapStep ==
  ASSUME DeliveryInv, TypeOK', StartupGap
  PROVE  DeliveryInv'
<1>. USE DEF DeliveryInv
<1>0. TypedFacts /\ TypedFacts'
  BY Typed, TypedNext
<1>1. /\ phase = "startup" /\ lastClosed' = Advanced(Warm)
      /\ UNCHANGED <<now, sock, wire, streamBar, holding, held, queue, snapshot,
                     splice, confirmed, faults>>
      /\ confirmed = Warm /\ splice = <<>> /\ Len(splice) = 0 /\ ~holding
      /\ Warm \in Int
  BY FeedAssumption DEF StartupGap, PhaseInv
<1>2. Warm <= lastClosed' /\ lastClosed <= lastClosed' /\ lastClosed' < now
  BY <1>0, <1>1 DEF Advanced, ClosedInv, TypedFacts
<1>3. \/ phase' = "live" /\ gap' = NoGap /\ now <= Warm + 1
      \/ /\ phase' = "startupGap" /\ Warm + 1 < now
         /\ gap' = [cursor |-> Warm + 1, until |-> now, resume |-> None]
  BY <1>0, <1>1 DEF StartupGap, TypedFacts
<1>4. PhaseInv'
  BY <1>1, <1>2, <1>3 DEF PhaseInv
<1>5. ClosedInv'
  <2>1. gap'.until <= now
    BY <1>0, <1>1, <1>3 DEF NoGap, ClosedInv, TypedFacts
  <2>. QED  BY <1>1, <1>2, <2>1 DEF ClosedInv
<1>6. GapInv'
  BY <1>0, <1>1, <1>3 DEF GapInv, TypedFacts
<1>7. QueueInv'
  <2>1. Base' \in Int /\ now - 1 <= Base'
    BY <1>0, <1>1, <1>3 DEF Base, TypedFacts
  <2>2. NoHole(queue, Base')
    BY <1>0, <2>1 DEF NoHole, ClosedInv, TypedFacts
  <2>3. HoldsUpTo(queue, Base', lastClosed')
    BY <1>0, <1>2, <2>1 DEF HoldsUpTo, TypedFacts, Bars
  <2>. QED  BY <1>1, <2>2, <2>3 DEF QueueInv
<1>8. WireInv'
  <2>1. \A b \in Int : b < now' => Covered(b)'
    BY <1>0, <1>1, <1>2, <1>3 DEF Covered, TypedFacts
  <2>. QED  BY <1>5, <2>1, WireCovered
<1>. QED  BY <1>4, <1>5, <1>6, <1>7, <1>8

LEMMA StartupPageStep ==
  ASSUME DeliveryInv, TypeOK', StartupPage
  PROVE  DeliveryInv'
<1>. USE DEF DeliveryInv
<1>. DEFINE page == Page(Warm)
            next == NextCursor(page)
<1>0. TypedFacts /\ TypedFacts' /\ Warm \in Int
  BY Typed, TypedNext, FeedAssumption
<1>1. /\ phase = "startupGap" /\ ~holding /\ held = {} /\ confirmed = Warm
      /\ UNCHANGED <<now, sock, wire, streamBar, holding, held, queue, snapshot,
                     confirmed, faults>>
      /\ Warm < gap.cursor /\ gap.cursor < gap.until
      /\ Len(splice) = gap.cursor - Warm - 1
      /\ \A i \in DOMAIN splice : splice[i] = confirmed + i
  BY DEF StartupPage, PhaseInv, GapInv
<1>2. /\ next \in Bars /\ next \in Int /\ gap.cursor < next /\ next <= gap.until
      /\ page = gap.cursor .. next - 1
  <2>1. Warm \in MaybeBar
    BY FeedAssumption DEF MaybeBar, Bars
  <2>2. /\ next \in Bars /\ gap.cursor < next /\ next <= gap.until
        /\ page = gap.cursor .. next - 1
    BY <1>1, <2>1, PageFacts
  <2>. QED  BY <2>2 DEF Bars
<1>. HIDE DEF page, next
<1>3. /\ splice' \in Seq(Bars)
      /\ Len(splice') = next - Warm - 1
      /\ \A i \in DOMAIN splice' : splice'[i] = confirmed + i
  <2>1. PICK run \in Ascending(page) : splice' = splice \o run
    BY DEF StartupPage, page
  <2>2. gap.cursor \in Bars /\ next - 1 \in Bars /\ gap.cursor <= next - 1
    BY <1>0, <1>1, <1>2, FeedAssumption DEF Bars, TypedFacts
  <2>3. /\ Len(run) = next - 1 - gap.cursor + 1
        /\ \A i \in 1 .. Len(run) : run[i] = gap.cursor + i - 1
    BY <1>2, <2>1, <2>2, IntervalRun
  <2>4. splice \in Seq(Bars) /\ run \in Seq(Bars)
    <3>1. page \in SUBSET Bars
      BY <1>0, <1>1, <1>2, FeedAssumption DEF Bars, TypedFacts
    <3>. QED  BY <2>1, <3>1, RunFacts DEF TypeOK
  <2>5. /\ splice' \in Seq(Bars) /\ Len(splice') = Len(splice) + Len(run)
        /\ \A i \in 1 .. Len(splice) + Len(run) :
              splice'[i] = IF i <= Len(splice) THEN splice[i]
                           ELSE run[i - Len(splice)]
    BY <2>1, <2>4, ConcatProperties
  <2>6. ASSUME NEW i \in DOMAIN splice'
        PROVE  splice'[i] = confirmed + i
    <3>1. /\ i \in 1 .. Len(splice) + Len(run) /\ i \in Int
          /\ Len(run) \in Nat /\ Len(splice) \in Nat
      BY <2>4, <2>5, LenProperties
    <3>2. CASE i <= Len(splice)
      BY <1>0, <1>1, <2>5, <3>1, <3>2 DEF TypedFacts
    <3>3. CASE Len(splice) < i
      <4>1. i - Len(splice) \in 1 .. Len(run)
        BY <3>1, <3>3
      <4>2. splice'[i] = gap.cursor + (i - Len(splice)) - 1
        BY <2>3, <2>5, <3>1, <3>3, <4>1
      <4>3. Len(splice) = gap.cursor - confirmed - 1 /\ gap.cursor \in Int
            /\ confirmed \in Int
        BY <1>0, <1>1 DEF TypedFacts
      <4>. QED  BY <3>1, <4>2, <4>3
    <3>. QED  BY <1>0, <3>1, <3>2, <3>3 DEF TypedFacts
  <2>7. Len(splice') = next - Warm - 1
    <3>1. gap.cursor \in Int /\ Warm \in Int /\ next \in Int
      BY <1>0, <1>2 DEF TypedFacts
    <3>2. Len(splice') = (gap.cursor - Warm - 1) + (next - 1 - gap.cursor + 1)
      BY <1>1, <2>3, <2>5
    <3>. QED  BY <3>1, <3>2
  <2>. QED  BY <2>5, <2>6, <2>7
<1>4. Len(splice') < now - confirmed /\ gap.until <= now
  BY <1>0, <1>1, <1>2, <1>3 DEF ClosedInv, TypedFacts
<1>5. CASE next < gap.until
  <2>1. gap' = [gap EXCEPT !.cursor = next] /\ UNCHANGED <<phase, lastClosed>>
    BY <1>5 DEF StartupPage, page, next
  <2>2. /\ gap'.cursor = next /\ gap'.until = gap.until
        /\ gap'.resume = gap.resume
    BY <2>1 DEF TypeOK
  <2>3. PhaseInv'
    BY <1>1, <2>1 DEF PhaseInv
  <2>4. ClosedInv'
    BY <1>0, <1>1, <1>4, <2>1, <2>2 DEF ClosedInv, TypedFacts
  <2>5. GapInv'
    BY <1>0, <1>1, <1>2, <1>3, <1>5, <2>1, <2>2 DEF GapInv, TypedFacts
  <2>6. QueueInv'
    BY <1>1, <2>1, <2>2 DEF QueueInv, Listening, Base
  <2>7. WireInv'
    <3>1. Listening /\ \A b \in Int : Covered(b) => Covered(b)'
      BY <1>1, <2>1, <2>2 DEF Covered, Listening
    <3>. QED  BY <1>1, <3>1, WireStays
  <2>. QED  BY <2>3, <2>4, <2>5, <2>6, <2>7
<1>6. CASE ~(next < gap.until)
  <2>1. /\ gap' = NoGap /\ phase' = "live" /\ next = gap.until
        /\ lastClosed' = Advanced(gap.until - 1)
    BY <1>0, <1>2, <1>6 DEF StartupPage, TypedFacts, page, next
  <2>2. /\ lastClosed <= lastClosed' /\ gap.until - 1 <= lastClosed'
        /\ lastClosed' < now
        /\ lastClosed' = lastClosed \/ lastClosed' = gap.until - 1
    <3>1. /\ gap.until \in Int /\ gap.until <= now /\ now \in Int
          /\ lastClosed \in Int /\ lastClosed < now
      BY <1>0 DEF ClosedInv, TypedFacts
    <3>. QED  BY <2>1, <3>1 DEF Advanced
  <2>3. PhaseInv'
    BY <1>0, <1>1, <2>1, <2>2 DEF PhaseInv, TypedFacts
  <2>4. ClosedInv'
    <3>1. confirmed + Len(splice') < now /\ gap'.until <= now
      BY <1>0, <1>4, <2>1 DEF NoGap, TypedFacts
    <3>. QED  BY <1>1, <2>2, <3>1 DEF ClosedInv
  <2>5. GapInv'
    BY <1>1, <1>3, <2>1 DEF GapInv
  <2>6. QueueInv'
    <3>1. Base = gap.until - 1 /\ Base' = Base /\ Listening
      BY <1>0, <1>1, <1>3, <2>1 DEF Base, Listening, TypedFacts
    <3>2. NoHole(queue, Base) /\ HoldsUpTo(queue, Base, lastClosed)
      BY <3>1 DEF QueueInv
    <3>3. HoldsUpTo(queue, Base, lastClosed')
      <4>1. \A b \in Bars : b \in Int
        BY DEF Bars
      <4>. QED  BY <1>0, <2>2, <3>1, <3>2, <4>1 DEF HoldsUpTo, TypedFacts
    <3>. QED  BY <1>1, <3>1, <3>2, <3>3 DEF QueueInv
  <2>7. WireInv'
    <3>1. Listening /\ \A b \in Int : Covered(b) => Covered(b)'
      BY <1>0, <1>1, <2>1, <2>2 DEF Covered, Listening, TypedFacts
    <3>. QED  BY <1>1, <3>1, WireStays
  <2>. QED  BY <2>3, <2>4, <2>5, <2>6, <2>7
<1>. QED  BY <1>5, <1>6

(***************************************************************************)
(* Reconnect                                                               *)
(***************************************************************************)

LEMMA DisconnectStep ==
  ASSUME DeliveryInv, TypeOK', Disconnect
  PROVE  DeliveryInv'
<1>. USE DEF DeliveryInv
<1>1. /\ phase = "down" /\ phase' = "disconnected" /\ sock' = "none"
      /\ wire' = <<>> /\ queue' = <<>> /\ holding' = FALSE /\ held' = {}
      /\ UNCHANGED <<now, lastClosed, streamBar, gap, splice, confirmed>>
      /\ DOMAIN wire' = {} /\ DOMAIN queue' = {}
  BY DEF Disconnect
<1>2. PhaseInv'
  BY <1>1 DEF PhaseInv
<1>3. ClosedInv'
  BY <1>1 DEF ClosedInv
<1>4. GapInv'
  BY <1>1 DEF GapInv
<1>5. QueueInv' /\ WireInv'
  BY <1>1 DEF QueueInv, WireInv, Listening
<1>. QED  BY <1>2, <1>3, <1>4, <1>5

LEMMA ConnectStep ==
  ASSUME DeliveryInv, TypeOK', Connect \/ ConnectFails
  PROVE  DeliveryInv'
<1>. USE DEF DeliveryInv
<1>1. /\ phase = "disconnected" /\ wire = <<>> /\ queue = <<>>
      /\ DOMAIN queue = {} /\ sock # "open" /\ holding'
      /\ \/ phase' = "connected" /\ sock' = "open"
         \/ phase' = "down" /\ sock' = sock
      /\ UNCHANGED <<now, wire, lastClosed, streamBar, held, queue, gap, splice,
                     confirmed>>
  <2>1. phase = "disconnected"
    BY DEF Connect, ConnectFails
  <2>2. lastClosed # None
    BY <2>1, Typed, FeedAssumption DEF PhaseInv, TypedFacts, None
  <2>3. holding'
    BY <2>2 DEF Connect, ConnectFails
  <2>4. /\ \/ phase' = "connected" /\ sock' = "open"
           \/ phase' = "down" /\ sock' = sock
        /\ UNCHANGED <<now, wire, lastClosed, streamBar, held, queue, gap, splice,
                       confirmed>>
    BY DEF Connect, ConnectFails
  <2>5. sock # "open" /\ wire = <<>> /\ queue = <<>> /\ DOMAIN queue = {}
    BY <2>1 DEF PhaseInv
  <2>. QED  BY <2>1, <2>3, <2>4, <2>5
<1>2. PhaseInv'
  BY <1>1 DEF PhaseInv
<1>3. ClosedInv'
  BY <1>1 DEF ClosedInv
<1>4. GapInv'
  BY <1>1 DEF GapInv
<1>5. QueueInv' /\ WireInv'
  BY <1>1 DEF QueueInv, WireInv, Listening
<1>. QED  BY <1>2, <1>3, <1>4, <1>5

LEMMA OnReconnectStep ==
  ASSUME DeliveryInv, TypeOK', OnReconnect
  PROVE  DeliveryInv'
<1>. USE DEF DeliveryInv
<1>0. TypedFacts
  BY Typed
<1>1. /\ phase = "connected" /\ sock = "open" /\ holding
      /\ queue = <<>> /\ splice = <<>> /\ DOMAIN queue = {} /\ Len(splice) = 0
      /\ Warm <= lastClosed /\ lastClosed <= confirmed
      /\ UNCHANGED <<now, sock, wire, streamBar, splice, confirmed, faults>>
      /\ lastClosed # None /\ Warm \in Int
  BY <1>0, FeedAssumption DEF OnReconnect, PhaseInv, TypedFacts, None
<1>2. lastClosed < now /\ (\A h \in held : h < now) /\ confirmed < now
  BY <1>0, <1>1 DEF ClosedInv, TypedFacts
<1>3. CASE lastClosed + 1 < now
  <2>1. /\ phase' = "backfill"
        /\ gap' = [cursor |-> lastClosed + 1, until |-> now, resume |-> lastClosed]
        /\ UNCHANGED <<lastClosed, queue, snapshot, holding, held>>
    <3>1. ResumeCursor = lastClosed + 1
      BY <1>1 DEF ResumeCursor
    <3>2. ResumeCursor # None /\ ResumeCursor < now
      BY <1>0, <1>3, <3>1 DEF TypedFacts, None
    <3>. QED  BY <3>1, <3>2 DEF OnReconnect, feed
  <2>2. PhaseInv'
    BY <1>1, <2>1 DEF PhaseInv
  <2>3. ClosedInv'
    BY <1>0, <1>1, <2>1 DEF ClosedInv, TypedFacts
  <2>4. GapInv'
    <3>1. \A h \in held, b \in Bars : ~(now <= b /\ b <= h)
      BY <1>0, <1>2 DEF Bars, TypedFacts
    <3>. QED  BY <1>0, <1>1, <1>3, <2>1, <3>1 DEF GapInv, TypedFacts
  <2>5. QueueInv'
    <3>1. Base' = confirmed
      BY <1>0, <1>1, <2>1 DEF Base, TypedFacts
    <3>2. NoHole(queue, confirmed)
      BY <1>1 DEF NoHole
    <3>3. HoldsUpTo(queue, confirmed, lastClosed)
      BY <1>0, <1>1 DEF HoldsUpTo, Bars, TypedFacts
    <3>. QED  BY <1>1, <2>1, <3>1, <3>2, <3>3 DEF QueueInv
  <2>6. WireInv'
    <3>1. \A b \in Int : b < now' => Covered(b)'
      BY <1>1, <2>1 DEF Covered
    <3>. QED  BY <2>3, <3>1, WireCovered
  <2>. QED  BY <2>2, <2>3, <2>4, <2>5, <2>6
<1>4. CASE ~(lastClosed + 1 < now)
  <2>1. /\ phase' = "live" /\ ~holding' /\ held' = {} /\ gap' = gap
        /\ EnqueueClosed({b \in held : b > lastClosed})
    <3>1. ResumeCursor = lastClosed + 1
      BY <1>1 DEF ResumeCursor
    <3>. QED  BY <1>4, <3>1 DEF OnReconnect
  <2>2. {b \in held : b > lastClosed} = {}
    BY <1>0, <1>2, <1>4 DEF TypedFacts
  <2>3. queue' = queue /\ lastClosed' = lastClosed
    <3>1. EnqueueClosed({}) /\ {} \in SUBSET Bars
      BY <2>1, <2>2
    <3>. QED  BY <1>1, <1>2, <3>1, EnqueueBounds
  <2>4. PhaseInv'
    BY <1>1, <2>1, <2>3 DEF PhaseInv
  <2>5. ClosedInv'
    BY <1>1, <2>1, <2>3 DEF ClosedInv
  <2>6. GapInv'
    BY <1>1, <2>1 DEF GapInv
  <2>7. QueueInv'
    <3>1. Base' = confirmed
      BY <1>0, <1>1, <2>1 DEF Base, TypedFacts
    <3>2. NoHole(queue, confirmed)
      BY <1>1 DEF NoHole
    <3>3. HoldsUpTo(queue, confirmed, lastClosed)
      BY <1>0, <1>1 DEF HoldsUpTo, Bars, TypedFacts
    <3>. QED  BY <1>1, <2>3, <3>1, <3>2, <3>3 DEF QueueInv
  <2>8. WireInv'
    <3>1. \A b \in Int : b < now' => Covered(b)'
      BY <1>0, <1>1, <1>4, <2>3 DEF Covered, TypedFacts
    <3>. QED  BY <2>5, <3>1, WireCovered
  <2>. QED  BY <2>4, <2>5, <2>6, <2>7, <2>8
<1>. QED  BY <1>3, <1>4

LEMMA BackfillPageStep ==
  ASSUME DeliveryInv, TypeOK', BackfillPage
  PROVE  DeliveryInv'
<1>. USE DEF DeliveryInv
<1>. DEFINE page == Page(lastClosed)
            next == NextCursor(page)
            newest == IF page = {} THEN lastClosed ELSE next - 1
<1>0. TypedFacts
  BY Typed
<1>1. /\ phase = "backfill" /\ sock = "open" /\ Warm <= lastClosed
      /\ gap.cursor = lastClosed + 1 /\ gap.cursor < gap.until
      /\ Warm <= gap.resume /\ gap.resume <= confirmed
      /\ splice = <<>> /\ Listening
      /\ UNCHANGED <<now, sock, wire, streamBar, splice, confirmed, faults>>
      /\ Base = confirmed /\ Warm \in Int
  BY <1>0, FeedAssumption
     DEF BackfillPage, PhaseInv, GapInv, Listening, Base, TypedFacts
<1>2. /\ next \in Bars /\ next \in Int /\ lastClosed + 1 < next
      /\ next <= gap.until /\ page = lastClosed + 1 .. next - 1
      /\ newest = next - 1
  <2>1. lastClosed \in MaybeBar /\ lastClosed < gap.cursor
    BY <1>0, <1>1 DEF TypeOK, TypedFacts
  <2>2. /\ next \in Bars /\ gap.cursor < next /\ next <= gap.until
        /\ page = gap.cursor .. next - 1
    BY <1>1, <2>1, PageFacts
  <2>3. next \in Int
    BY <2>2 DEF Bars
  <2>4. page # {}
    <3>1. gap.cursor \in gap.cursor .. next - 1
      BY <1>0, <2>2, <2>3 DEF TypedFacts
    <3>. QED  BY <2>2, <3>1
  <2>. QED  BY <1>1, <2>2, <2>3, <2>4
<1>. HIDE DEF page, next, newest
<1>3. /\ \A i \in DOMAIN queue : queue[i] < now /\ queue[i] # None
      /\ lastClosed < now /\ gap.until <= now
      /\ NoHole(queue, Base) /\ HoldsUpTo(queue, Base, lastClosed)
      /\ \A h \in held : h < now
      /\ \A b \in Bars : b \in Int
  BY <1>1 DEF ClosedInv, QueueInv, Bars
<1>4. page \in SUBSET Bars /\ \A b \in page : lastClosed < b /\ b < gap.until
  BY <1>0, <1>1, <1>2, FeedAssumption DEF Bars, TypedFacts
<1>5. CASE next < gap.until
  <2>1. /\ EnqueueClosed(page) /\ gap' = [gap EXCEPT !.cursor = next]
        /\ UNCHANGED <<phase, holding, held>>
    BY <1>5 DEF BackfillPage, page, next
  <2>2. /\ gap'.cursor = next /\ gap'.until = gap.until
        /\ gap'.resume = gap.resume
    BY <2>1 DEF TypeOK
  <2>3. \A b \in page : lastClosed < b /\ b < now
    BY <1>0, <1>3, <1>4 DEF Bars, TypedFacts
  <2>4. /\ \A i \in DOMAIN queue' : queue'[i] < now /\ queue'[i] # None
        /\ lastClosed <= lastClosed' /\ lastClosed' < now
        /\ lastClosed' = next - 1
    <3>1. /\ \A i \in DOMAIN queue' : queue'[i] < now /\ queue'[i] # None
          /\ lastClosed <= lastClosed' /\ lastClosed' < now
          /\ \A b \in page : b <= lastClosed'
          /\ page # {} => lastClosed' \in page
      BY <1>3, <1>4, <2>1, <2>3, EnqueueBounds
    <3>2. next - 1 \in page
      BY <1>0, <1>2 DEF TypedFacts
    <3>3. lastClosed' \in page /\ next - 1 <= lastClosed'
      BY <3>1, <3>2
    <3>4. lastClosed' = next - 1
      BY <1>0, <1>2, <3>3 DEF TypedFacts
    <3>. QED  BY <3>1, <3>4
  <2>5. \A b \in page, c \in Bars :
           Base < c /\ lastClosed < c /\ c < b => c \in page
    <3>1. SUFFICES ASSUME NEW b \in page, NEW c \in Bars, lastClosed < c, c < b
                   PROVE  c \in page
      OBVIOUS
    <3>2. c \in Int /\ b \in Int /\ lastClosed \in Int
      BY <1>0, <1>3, <1>4 DEF TypedFacts
    <3>. QED  BY <1>2, <3>1, <3>2
  <2>6. NoHole(queue', Base) /\ HoldsUpTo(queue', Base, lastClosed')
    <3>1. Base \in Nat /\ \A b \in page : lastClosed < b
      BY <1>0, <1>1, <1>4 DEF TypedFacts
    <3>. QED  BY <1>3, <1>4, <2>1, <2>5, <3>1, EnqueueQueue
  <2>7. PhaseInv'
    BY <1>0, <1>1, <1>2, <2>1, <2>4 DEF PhaseInv, TypedFacts
  <2>8. ClosedInv'
    BY <1>1, <2>1, <2>2, <2>4 DEF ClosedInv
  <2>9. GapInv'
    BY <1>1, <1>2, <1>5, <2>1, <2>2, <2>4 DEF GapInv
  <2>10. QueueInv'
    BY <1>1, <2>1, <2>4, <2>6 DEF QueueInv, Base
  <2>11. WireInv'
    <3>1. \A b \in Int : Covered(b) => Covered(b)'
      BY <1>0, <1>2, <2>1, <2>2, <2>4 DEF Covered, TypedFacts
    <3>. QED  BY <1>1, <3>1, WireStays
  <2>. QED  BY <2>7, <2>8, <2>9, <2>10, <2>11
<1>6. CASE ~(next < gap.until)
  <2>. DEFINE S == page \union {b \in held : b > newest}
  <2>1. /\ EnqueueClosed(S) /\ gap' = NoGap /\ phase' = "live"
        /\ ~holding' /\ held' = {}
    BY <1>6 DEF BackfillPage, page, next, newest
  <2>2. next = gap.until
    BY <1>0, <1>2, <1>6 DEF TypedFacts
  <2>3. S \in SUBSET Bars /\ \A b \in S : lastClosed < b /\ b < now
    <3>1. \A b \in held : b > newest => lastClosed < b /\ b < now
      BY <1>0, <1>2, <1>3 DEF TypedFacts
    <3>2. \A b \in page : lastClosed < b /\ b < now
      BY <1>0, <1>3, <1>4 DEF TypedFacts
    <3>. QED  BY <1>0, <1>4, <3>1, <3>2 DEF TypedFacts
  <2>4. /\ \A i \in DOMAIN queue' : queue'[i] < now /\ queue'[i] # None
        /\ lastClosed <= lastClosed' /\ lastClosed' < now
        /\ \A b \in S : b <= lastClosed'
    BY <1>3, <2>1, <2>3, EnqueueBounds
  <2>5. gap.until - 1 <= lastClosed' /\ lastClosed' \in Int
    <3>1. next - 1 \in S
      BY <1>0, <1>2 DEF TypedFacts
    <3>2. lastClosed' \in Int
      BY TypedNext DEF TypedFacts
    <3>. QED  BY <2>2, <2>4, <3>1, <3>2
  <2>6. \A b \in S, c \in Bars : Base < c /\ lastClosed < c /\ c < b => c \in S
    <3>1. SUFFICES ASSUME NEW b \in S, NEW c \in Bars, lastClosed < c, c < b
                   PROVE  c \in S
      OBVIOUS
    <3>2. c \in Int /\ b \in Int
      BY <1>3, <2>3
    <3>3. CASE c < next
      BY <1>0, <1>2, <3>1, <3>2, <3>3 DEF TypedFacts
    <3>4. CASE next <= c
      <4>1. b \in held
        BY <1>0, <1>2, <3>1, <3>2, <3>4 DEF TypedFacts
      <4>2. c \in held
        BY <1>1, <2>2, <3>1, <3>2, <3>4, <4>1 DEF GapInv
      <4>. QED  BY <1>2, <3>2, <3>4, <4>2
    <3>. QED  BY <1>2, <3>2, <3>3, <3>4
  <2>7. NoHole(queue', Base) /\ HoldsUpTo(queue', Base, lastClosed')
    <3>1. Base \in Nat /\ \A b \in S : lastClosed < b
      BY <1>0, <1>1, <2>3 DEF TypedFacts
    <3>. QED  BY <1>3, <2>1, <2>3, <2>6, <3>1, EnqueueQueue
  <2>8. PhaseInv'
    BY <1>0, <1>1, <2>1, <2>4, <2>5 DEF PhaseInv, TypedFacts
  <2>9. ClosedInv'
    <3>1. gap'.until <= now
      BY <1>0, <2>1 DEF NoGap, ClosedInv, TypedFacts
    <3>. QED  BY <1>1, <2>1, <2>4, <3>1 DEF ClosedInv
  <2>10. GapInv'
    BY <1>1, <2>1 DEF GapInv
  <2>11. QueueInv'
    BY <1>1, <2>1, <2>4, <2>7 DEF QueueInv, Base
  <2>12. WireInv'
    <3>1. \A h \in held : h <= lastClosed'
      <4>1. ASSUME NEW h \in held
            PROVE  h <= lastClosed'
        <5>1. CASE h > newest
          BY <2>4, <5>1
        <5>2. CASE ~(h > newest)
          BY <1>0, <1>2, <2>2, <2>5, <5>2 DEF TypedFacts
        <5>. QED  BY <5>1, <5>2
      <4>. QED  BY <4>1
    <3>2. \A b \in Int : Covered(b) => Covered(b)'
      BY <1>0, <2>1, <2>4, <2>5, <3>1 DEF Covered, TypedFacts
    <3>. QED  BY <1>1, <3>2, WireStays
  <2>. QED  BY <2>8, <2>9, <2>10, <2>11, <2>12
<1>. QED  BY <1>5, <1>6

LEMMA BackfillFailsStep ==
  ASSUME Quiet, DeliveryInv, TypeOK', BackfillFails
  PROVE  DeliveryInv'
<1>. USE DEF DeliveryInv
<1>0. TypedFacts
  BY Typed
<1>1. /\ phase = "backfill" /\ phase' = "failClose"
      /\ sock = "open" /\ sock' = "closing" /\ wire' = <<>>
      /\ lastClosed' = gap.resume /\ holding' = FALSE /\ held' = {}
      /\ gap' = NoGap
      /\ UNCHANGED <<now, streamBar, queue, snapshot, splice, confirmed>>
      /\ Warm <= gap.resume /\ gap.resume <= confirmed
      /\ splice = <<>> /\ DOMAIN wire' = {}
  BY DEF BackfillFails, PhaseInv, GapInv, Quiet
<1>2. PhaseInv'
  BY <1>1 DEF PhaseInv
<1>3. ClosedInv'
  <2>1. gap.resume < now /\ gap'.until <= now
    BY <1>0, <1>1 DEF NoGap, ClosedInv, TypedFacts
  <2>. QED  BY <1>1, <2>1 DEF ClosedInv
<1>4. GapInv'
  BY <1>1 DEF GapInv
<1>5. QueueInv' /\ WireInv'
  BY <1>1 DEF QueueInv, WireInv, Listening
<1>. QED  BY <1>2, <1>3, <1>4, <1>5

LEMMA FailClosedStep ==
  ASSUME DeliveryInv, TypeOK', FailClosed
  PROVE  DeliveryInv'
<1>. USE DEF DeliveryInv
<1>1. /\ phase = "failClose" /\ phase' = "down"
      /\ sock = "closing" /\ sock' = "none" /\ wire' = <<>>
      /\ queue' = Append(queue, None)
      /\ UNCHANGED <<now, lastClosed, streamBar, holding, held, snapshot, gap,
                     splice, confirmed, faults>>
  BY DEF FailClosed, PhaseInv
<1>2. QueueInv' /\ \A i \in DOMAIN queue' : queue'[i] < now'
  BY <1>1, SentinelStep DEF Listening
<1>3. PhaseInv'
  BY <1>1 DEF PhaseInv
<1>4. ClosedInv'
  <2>1. DOMAIN wire' = {}
    BY <1>1
  <2>. QED  BY <1>1, <1>2, <2>1 DEF ClosedInv
<1>5. GapInv' /\ WireInv'
  BY <1>1 DEF GapInv, WireInv, Listening
<1>. QED  BY <1>2, <1>3, <1>4, <1>5

(***************************************************************************)
(* The consumer                                                            *)
(***************************************************************************)

LEMMA TakeSplicedStep ==
  ASSUME DeliveryInv, TypeOK', TakeSpliced
  PROVE  /\ DeliveryInv'
         /\ confirmed' = confirmed + 1 /\ confirmed + 1 < now
<1>. USE DEF DeliveryInv
<1>0. TypedFacts
  BY Typed
<1>1. /\ phase = "live" /\ splice # <<>> /\ splice' = Tail(splice)
      /\ CoreTakes(Head(splice))
      /\ UNCHANGED <<now, sock, wire, lastClosed, streamBar, holding, held, queue,
                     snapshot, phase, gap, faults>>
  BY DEF TakeSpliced
<1>2. /\ Len(splice) \in Nat /\ Len(splice) # 0
      /\ Len(splice') = Len(splice) - 1
      /\ DOMAIN splice' = 1 .. Len(splice) - 1
      /\ \A i \in 1 .. Len(splice) - 1 : splice'[i] = splice[i + 1]
      /\ Head(splice) = splice[1]
  <2>1. splice \in Seq(Bars)
    BY DEF TypeOK
  <2>2. /\ Len(Tail(splice)) = Len(splice) - 1 /\ Tail(splice) \in Seq(Bars)
        /\ \A i \in 1 .. Len(Tail(splice)) : Tail(splice)[i] = splice[i + 1]
    BY <1>1, <2>1, HeadTailProperties
  <2>3. Len(splice) \in Nat /\ Len(splice) # 0
    BY <1>1, <2>1, EmptySeq, LenProperties
  <2>4. Head(splice) = splice[1]
    BY <2>1
  <2>. QED  BY <1>1, <2>2, <2>3, <2>4, LenProperties
<1>3. \A i \in 1 .. Len(splice) : splice[i] = confirmed + i
  BY <1>0 DEF GapInv, TypedFacts
<1>4. confirmed' = confirmed + 1
  BY <1>0, <1>1, <1>2, <1>3 DEF CoreTakes, TypedFacts
<1>5. confirmed + 1 < now /\ confirmed' + Len(splice') < now
  BY <1>0, <1>2, <1>4 DEF ClosedInv, TypedFacts
<1>6. PhaseInv'
  BY <1>1 DEF PhaseInv
<1>7. ClosedInv'
  BY <1>1, <1>5 DEF ClosedInv
<1>8. GapInv'
  BY <1>0, <1>1, <1>2, <1>3, <1>4 DEF GapInv, TypedFacts
<1>9. QueueInv'
  <2>1. Base' = Base
    BY <1>0, <1>1, <1>2, <1>4 DEF Base, TypedFacts
  <2>. QED  BY <1>1, <2>1 DEF QueueInv, Listening
<1>10. WireInv'
  <2>1. Listening' => Listening /\ \A b \in Int : Covered(b) => Covered(b)'
    BY <1>1 DEF Covered, Listening
  <2>. QED  BY <1>1, <2>1, WireStays
<1>. QED  BY <1>4, <1>5, <1>6, <1>7, <1>8, <1>9, <1>10

LEMMA WatchQueueStep ==
  ASSUME DeliveryInv, TypeOK', WatchQueue
  PROVE  /\ DeliveryInv'
         /\ \/ confirmed' = confirmed
            \/ confirmed' = confirmed + 1 /\ confirmed + 1 < now
<1>. USE DEF DeliveryInv
<1>0. TypedFacts
  BY Typed
<1>1. /\ phase = "live" /\ splice = <<>> /\ Len(splice) = 0
      /\ queue # <<>> /\ queue' = Tail(queue)
      /\ UNCHANGED <<now, sock, wire, lastClosed, streamBar, holding, held,
                     snapshot, gap, splice, faults>>
      /\ Base = confirmed /\ Listening
  BY <1>0 DEF WatchQueue, Base, Listening, TypedFacts
<1>2. /\ Len(queue) \in Nat /\ Len(queue) # 0 /\ 1 \in DOMAIN queue
      /\ Len(queue') = Len(queue) - 1
      /\ DOMAIN queue' = 1 .. Len(queue) - 1
      /\ \A i \in 1 .. Len(queue) - 1 :
            queue'[i] = queue[i + 1] /\ i + 1 \in DOMAIN queue /\ i \in Int
      /\ Head(queue) = queue[1]
  <2>1. queue \in Seq(MaybeBar)
    BY DEF TypeOK
  <2>2. /\ Len(Tail(queue)) = Len(queue) - 1 /\ Tail(queue) \in Seq(MaybeBar)
        /\ \A i \in 1 .. Len(Tail(queue)) : Tail(queue)[i] = queue[i + 1]
    BY <1>1, <2>1, HeadTailProperties
  <2>3. Len(queue) \in Nat /\ Len(queue) # 0 /\ DOMAIN queue = 1 .. Len(queue)
    BY <1>1, <2>1, EmptySeq, LenProperties
  <2>4. Head(queue) = queue[1]
    BY <2>1
  <2>. QED  BY <1>1, <2>2, <2>3, <2>4, LenProperties
<1>3. /\ \A i \in DOMAIN queue :
            queue[i] = None => i = Len(queue) /\ sock \in {"none", "dead"}
      /\ NoHole(queue, confirmed) /\ HoldsUpTo(queue, confirmed, lastClosed)
  BY <1>1 DEF QueueInv
<1>4. CASE queue[1] = None
  <2>1. phase' = "down" /\ confirmed' = confirmed
    BY <1>1, <1>2, <1>4 DEF WatchQueue
  <2>2. Len(queue) = 1 /\ sock # "open" /\ DOMAIN queue' = {}
    BY <1>2, <1>3, <1>4
  <2>3. lastClosed <= confirmed
    <3>1. SUFFICES ASSUME confirmed < lastClosed PROVE FALSE
      BY <1>0 DEF TypedFacts
    <3>2. lastClosed \in Bars /\ lastClosed # None
      <4>1. lastClosed \in Bars \/ lastClosed = None
        BY DEF TypeOK, MaybeBar
      <4>. QED  BY <1>0, <3>1, <4>1 DEF None, TypedFacts
    <3>3. PICK i \in DOMAIN queue : queue[i] = lastClosed
      BY <1>0, <1>3, <3>1, <3>2 DEF HoldsUpTo, TypedFacts
    <3>. QED  BY <1>0, <1>4, <2>2, <3>2, <3>3 DEF TypedFacts
  <2>4. PhaseInv'
    BY <1>1, <2>1, <2>2, <2>3 DEF PhaseInv
  <2>5. ClosedInv'
    BY <1>1, <2>1, <2>2 DEF ClosedInv
  <2>6. GapInv'
    BY <1>1, <2>1 DEF GapInv
  <2>7. QueueInv' /\ WireInv'
    BY <2>1, <2>2 DEF QueueInv, WireInv, Listening
  <2>. QED  BY <2>1, <2>4, <2>5, <2>6, <2>7
<1>5. CASE queue[1] # None
  <2>1. phase' = phase /\ CoreTakes(queue[1])
    BY <1>1, <1>2, <1>5 DEF WatchQueue
  <2>2. queue[1] \in Nat /\ queue[1] < now /\ queue[1] <= confirmed + 1
    <3>1. 1 .. 1 - 1 = {}
      OBVIOUS
    <3>. QED  BY <1>0, <1>2, <1>3, <3>1 DEF NoHole, ClosedInv, TypedFacts
  <2>3. /\ confirmed' \in Nat /\ confirmed <= confirmed' /\ queue[1] <= confirmed'
        /\ \/ confirmed' = confirmed
           \/ confirmed' = confirmed + 1 /\ confirmed + 1 < now
    BY <1>0, <2>1, <2>2 DEF CoreTakes, TypedFacts
  <2>4. PhaseInv'
    BY <1>1, <2>1 DEF PhaseInv
  <2>5. ClosedInv'
    <3>1. \A i \in DOMAIN queue' : queue'[i] < now
      BY <1>2 DEF ClosedInv
    <3>2. confirmed' + Len(splice) < now
      <4>1. Len(splice) = 0 /\ confirmed + Len(splice) < now
        BY <1>1 DEF ClosedInv
      <4>2. confirmed \in Int /\ now \in Int
        BY <1>0 DEF TypedFacts
      <4>3. confirmed < now
        BY <4>1, <4>2
      <4>4. confirmed' < now
        BY <2>3, <4>2, <4>3
      <4>. QED  BY <2>3, <4>1, <4>4
    <3>. QED  BY <1>1, <3>1, <3>2 DEF ClosedInv
  <2>6. GapInv'
    BY <1>1, <2>1 DEF GapInv
  <2>7. QueueInv'
    <3>1. Base' = confirmed'
      <4>1. Len(splice') = 0 /\ phase' = "live"
        BY <1>1, <2>1
      <4>2. Base' = confirmed' + Len(splice')
        BY <4>1 DEF Base
      <4>3. confirmed' + 0 = confirmed'
        <5>1. confirmed' \in Nat
          BY <2>3
        <5>2. \A x \in Nat : x + 0 = x
          OBVIOUS
        <5>. QED  BY <5>1, <5>2, Zenon
      <4>. QED  BY <4>1, <4>2, <4>3, Zenon
    <3>2. ASSUME NEW i \in DOMAIN queue'
          PROVE  \/ queue'[i] <= confirmed' + 1
                 \/ \E j \in 1 .. i - 1 : queue'[j] >= queue'[i] - 1
      <4>1. /\ queue'[i] = queue[i + 1] /\ i + 1 \in DOMAIN queue /\ i \in Int
            /\ queue[i + 1] \in Nat
        BY <1>0, <1>2 DEF TypedFacts
      <4>2. CASE queue[i + 1] <= confirmed + 1
        BY <1>0, <2>3, <4>1, <4>2 DEF TypedFacts
      <4>3. CASE \E k \in 1 .. i : queue[k] >= queue[i + 1] - 1
        <5>1. PICK k \in 1 .. i : queue[k] >= queue[i + 1] - 1
          BY <4>3
        <5>2. CASE k = 1
          BY <2>2, <2>3, <4>1, <5>1, <5>2
        <5>3. CASE k # 1
          <6>1. k - 1 \in 1 .. i - 1 /\ k - 1 \in 1 .. Len(queue) - 1
            BY <1>2, <4>1, <5>3
          <6>2. queue'[k - 1] = queue[k]
            BY <1>2, <6>1
          <6>. QED  BY <4>1, <5>1, <6>1, <6>2
        <5>. QED  BY <5>2, <5>3
      <4>. QED  BY <1>3, <4>1, <4>2, <4>3 DEF NoHole
    <3>3. ASSUME NEW b \in Bars, confirmed' < b, b <= lastClosed
          PROVE  \E i \in DOMAIN queue' : queue'[i] = b
      <4>1. b \in Int /\ confirmed < b
        BY <1>0, <2>3, <3>3 DEF Bars, TypedFacts
      <4>2. PICK k \in DOMAIN queue : queue[k] = b
        BY <1>3, <3>3, <4>1 DEF HoldsUpTo
      <4>3. k # 1
        BY <2>2, <2>3, <3>3, <4>1, <4>2
      <4>4. k - 1 \in 1 .. Len(queue) - 1
        BY <1>0, <1>2, <4>3 DEF TypedFacts
      <4>. QED  BY <1>2, <4>2, <4>4
    <3>4. \A i \in DOMAIN queue' :
             queue'[i] = None => i = Len(queue') /\ sock \in {"none", "dead"}
      BY <1>2, <1>3
    <3>5. NoHole(queue', confirmed') /\ HoldsUpTo(queue', confirmed', lastClosed)
      BY <3>2, <3>3 DEF NoHole, HoldsUpTo
    <3>. QED  BY <1>1, <3>1, <3>4, <3>5 DEF QueueInv
  <2>8. WireInv'
    <3>1. Listening' => Listening /\ \A b \in Int : Covered(b) => Covered(b)'
      BY <1>1, <2>1 DEF Covered, Listening
    <3>. QED  BY <1>1, <3>1, WireStays
  <2>. QED  BY <2>3, <2>4, <2>5, <2>6, <2>7, <2>8
<1>. QED  BY <1>4, <1>5

\* Steps that touch nothing DeliveryInv is about.
LEMMA IdleStep ==
  ASSUME DeliveryInv, TypeOK', WatchSnapshot \/ UNCHANGED vars
  PROVE  DeliveryInv'
<1>. USE DEF DeliveryInv
<1>1. UNCHANGED <<now, sock, wire, lastClosed, streamBar, holding, held, queue,
                  phase, gap, splice, confirmed, faults>>
  BY DEF WatchSnapshot, vars
<1>2. PhaseInv' /\ ClosedInv' /\ GapInv'
  BY <1>1 DEF PhaseInv, ClosedInv, GapInv
<1>3. QueueInv'
  BY <1>1 DEF QueueInv, Listening, Base
<1>4. WireInv'
  <2>1. Listening' => Listening /\ \A b \in Int : Covered(b) => Covered(b)'
    BY <1>1 DEF Covered, Listening
  <2>. QED  BY <1>1, <2>1, WireStays
<1>. QED  BY <1>2, <1>3, <1>4

(***************************************************************************)
(* The invariant and what follows                                          *)
(***************************************************************************)

LEMMA DeliveryInit == Init => DeliveryInv
<1>. SUFFICES ASSUME Init PROVE DeliveryInv
  OBVIOUS
<1>1. TypeOK
  BY TypeInit
<1>2. /\ Warm < now /\ now \in Int /\ Warm \in Nat /\ confirmed = Warm
      /\ sock = "open" /\ wire = <<>> /\ queue = <<>> /\ splice = <<>>
      /\ lastClosed = 0 /\ ~holding /\ held = {} /\ phase = "startup"
      /\ gap.until = 0 /\ Len(splice) = 0
      /\ DOMAIN wire = {} /\ DOMAIN queue = {} /\ DOMAIN splice = {}
  BY FeedAssumption DEF Init, NoGap, None
<1>3. PhaseInv
  BY <1>2 DEF PhaseInv
<1>4. ClosedInv
  <2>1. confirmed + Len(splice) < now
    <3>1. confirmed \in Nat /\ confirmed < now /\ \A x \in Nat : x + 0 = x
      BY <1>2
    <3>. QED  BY <1>2, <3>1, Zenon
  <2>. QED  BY <1>2, <2>1 DEF ClosedInv
<1>5. GapInv /\ QueueInv /\ WireInv
  BY <1>2 DEF GapInv, QueueInv, WireInv, Listening
<1>. QED  BY <1>1, <1>3, <1>4, <1>5 DEF DeliveryInv

LEMMA DeliveryStep ==
  ASSUME Quiet, DeliveryInv, [Next]_vars
  PROVE  DeliveryInv'
<1>1. TypeOK'
  BY TypeStep DEF DeliveryInv
<1>2. CASE Tick
  BY <1>1, <1>2, TickStep
<1>3. CASE Push
  BY <1>1, <1>3, PushStep
<1>4. CASE Die \/ WatchdogClose
  BY <1>1, <1>4, DieStep
<1>5. CASE OnWsMessage
  BY <1>1, <1>5, OnWsMessageStep
<1>6. CASE Startup
  BY <1>1, <1>6, StartupGapStep, StartupPageStep DEF Startup
<1>7. CASE Reconnect
  BY <1>1, <1>7, DisconnectStep, ConnectStep, OnReconnectStep, BackfillPageStep,
     BackfillFailsStep, FailClosedStep DEF Reconnect
<1>8. CASE TakeSpliced \/ WatchQueue
  BY <1>1, <1>8, TakeSplicedStep, WatchQueueStep
<1>9. CASE WatchSnapshot \/ UNCHANGED vars
  BY <1>1, <1>9, IdleStep
<1>. QED
  BY <1>2, <1>3, <1>4, <1>5, <1>6, <1>7, <1>8, <1>9 DEF Next, Watch

\* The inductive invariant: in every phase of the reconnect cycle the queue,
\* the held bars, the splice and the wire together carry every closed bar the
\* core lacks, without a hole (live_provider.py).
THEOREM DeliveryInvariant ==
  ASSUME Quiet PROVE Spec => []DeliveryInv
<1>1. Init => DeliveryInv
  BY DeliveryInit
<1>2. DeliveryInv /\ [Next]_vars => DeliveryInv'
  BY DeliveryStep
<1>. QED  BY <1>1, <1>2, PTL DEF Spec

LEMMA DeliveryBacks == DeliveryInv => CursorBacked
<1>. SUFFICES ASSUME DeliveryInv, NEW b \in Bars, Warm < b, b <= lastClosed,
                     confirmed < b
              PROVE  b \in Reachable
  BY Typed DEF CursorBacked, DeliveryInv, TypedFacts, Bars
<1>. USE DEF DeliveryInv
<1>0. TypedFacts /\ b \in Int /\ Warm \in Int
  BY Typed, FeedAssumption DEF Bars
<1>1. phase \in {"startup", "startupGap", "live", "backfill"}
  BY <1>0 DEF PhaseInv, TypeOK, Phases, TypedFacts
<1>2. CASE phase = "startup"
  <2>1. b \in Warm + 1 .. now - 1
    BY <1>0 DEF ClosedInv, TypedFacts
  <2>. QED  BY <1>2, <2>1 DEF Reachable, StartupOwed
<1>3. CASE Listening /\ Base < b
  <2>1. PICK i \in DOMAIN queue : queue[i] = b
    BY <1>3 DEF QueueInv, HoldsUpTo
  <2>2. \A k \in 1 .. i : queue[k] # None
    <3>1. SUFFICES ASSUME NEW k \in 1 .. i, queue[k] = None PROVE FALSE
      OBVIOUS
    <3>2. k \in DOMAIN queue /\ k <= i /\ k \in Int /\ i \in 1 .. Len(queue)
      BY <1>0, <2>1 DEF TypedFacts
    <3>3. k = Len(queue)
      BY <3>1, <3>2 DEF QueueInv
    <3>4. queue[i] = None
      BY <1>0, <3>1, <3>2, <3>3 DEF TypedFacts
    <3>. QED  BY <2>1, <3>4 DEF None, Bars
  <2>3. b \in Readable
    BY <2>1, <2>2 DEF Readable
  <2>. QED  BY <1>1, <2>3 DEF Reachable
<1>4. CASE Listening /\ ~(Base < b)
  <2>1. CASE phase = "startupGap"
    <3>1. /\ confirmed = Warm /\ Len(splice) = gap.cursor - Warm - 1
          /\ b <= gap.until - 1
      BY <1>0, <1>4, <2>1 DEF PhaseInv, GapInv, Base, TypedFacts
    <3>2. CASE gap.cursor <= b
      <4>1. b \in gap.cursor .. gap.until - 1
        BY <1>0, <3>1, <3>2 DEF TypedFacts
      <4>. QED  BY <2>1, <4>1 DEF Reachable, StartupOwed
    <3>3. CASE b < gap.cursor
      <4>1. b - confirmed \in DOMAIN splice
        BY <1>0, <3>1, <3>3 DEF TypedFacts
      <4>2. splice[b - confirmed] = b
        BY <1>0, <4>1 DEF GapInv, TypedFacts
      <4>. QED  BY <1>1, <4>1, <4>2 DEF Reachable
    <3>. QED  BY <1>0, <3>2, <3>3 DEF TypedFacts
  <2>2. CASE phase # "startupGap"
    <3>1. b <= confirmed + Len(splice)
      BY <1>0, <1>4, <2>2 DEF Base, TypedFacts
    <3>2. b - confirmed \in DOMAIN splice
      BY <1>0, <3>1 DEF TypedFacts
    <3>3. splice[b - confirmed] = b
      BY <1>0, <3>2 DEF GapInv, TypedFacts
    <3>. QED  BY <1>1, <3>2, <3>3 DEF Reachable
  <2>. QED  BY <2>1, <2>2
<1>. QED  BY <1>1, <1>2, <1>3, <1>4 DEF Listening

\* No failed reconnect, dropped socket or startup walk leaves the cursor past a
\* bar the core neither has nor gets (on_reconnect, _release_pending_closed).
THEOREM CursorIsBacked ==
  ASSUME Quiet PROVE Spec => []CursorBacked
BY DeliveryInvariant, DeliveryBacks, PTL

\* What one step does to the closed bars of the venue and of the core.
LEMMA StreamStep ==
  ASSUME Quiet, DeliveryInv, [Next]_vars
  PROVE  \/ now' = now + 1 /\ now < MaxBar /\ confirmed' = confirmed
         \/ now' = now /\ confirmed' = confirmed + 1 /\ confirmed + 1 < now
         \/ now' = now /\ confirmed' = confirmed
<1>1. TypeOK'
  BY TypeStep DEF DeliveryInv
<1>2. CASE Tick
  BY <1>2 DEF Tick
<1>3. CASE Push \/ Die \/ WatchdogClose \/ OnWsMessage
  BY <1>3 DEF Push, Die, WatchdogClose, OnWsMessage
<1>4. CASE Startup
  BY <1>4 DEF Startup, StartupGap, StartupPage
<1>5. CASE Reconnect
  BY <1>5 DEF Reconnect, Disconnect, Connect, ConnectFails, OnReconnect,
              BackfillPage, BackfillFails, FailClosed
<1>6. CASE TakeSpliced
  BY <1>1, <1>6, TakeSplicedStep DEF TakeSpliced
<1>7. CASE WatchQueue
  BY <1>1, <1>7, WatchQueueStep DEF WatchQueue
<1>8. CASE WatchSnapshot \/ UNCHANGED vars
  BY <1>8 DEF WatchSnapshot, vars
<1>. QED
  BY <1>2, <1>3, <1>4, <1>5, <1>6, <1>7, <1>8 DEF Next, Watch

\* The core takes the closed bars one by one, none skipped (watch_ohlcv).
THEOREM BarsComeInSequence ==
  ASSUME Quiet PROVE Spec => BarsInSequence
<1>1. DeliveryInv /\ [Next]_vars => [confirmed' \in {confirmed, confirmed + 1}]_vars
  BY StreamStep
<1>. QED  BY <1>1, DeliveryInvariant, PTL DEF Spec, BarsInSequence

\* The feed implements the stream of closed bars the core is promised.
THEOREM FeedImplementsBarStream ==
  ASSUME Quiet PROVE Spec => ImplementsBarStream
<1>1. Init => Stream!Init
  <2>1. SUFFICES ASSUME Init PROVE Stream!Init
    OBVIOUS
  <2>2. now - 1 \in Warm .. MaxBar - 1 /\ confirmed = Warm
    BY <2>1, FeedAssumption DEF Init
  <2>. QED  BY <2>2 DEF Stream!Init
<1>2. DeliveryInv /\ [Next]_vars => [Stream!Next]_(Stream!vars)
  <2>1. SUFFICES ASSUME DeliveryInv, [Next]_vars
                 PROVE  [Stream!Next]_(Stream!vars)
    OBVIOUS
  <2>2. now \in Int /\ confirmed \in Int
    BY <2>1, Typed DEF DeliveryInv, TypedFacts
  <2>3. CASE now' = now + 1 /\ now < MaxBar /\ confirmed' = confirmed
    BY <2>2, <2>3, FeedAssumption DEF Stream!Next, Stream!Close
  <2>4. CASE now' = now /\ confirmed' = confirmed + 1 /\ confirmed + 1 < now
    BY <2>2, <2>4 DEF Stream!Next, Stream!Take
  <2>5. CASE now' = now /\ confirmed' = confirmed
    BY <2>5 DEF Stream!vars
  <2>. QED  BY <2>1, <2>3, <2>4, <2>5, StreamStep
<1>. QED
  BY <1>1, <1>2, DeliveryInvariant, PTL DEF Spec, ImplementsBarStream, Stream!Spec

=============================================================================
