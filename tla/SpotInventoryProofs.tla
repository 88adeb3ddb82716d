-------------------------- MODULE SpotInventoryProofs --------------------------
(***************************************************************************)
(* The paged drain leaves no execution behind its cursor, and each one     *)
(* reaches the engine once, for every overlap, window, page size and clock *)
(* skew within the assumptions, and any number of faults and crashes.      *)
(***************************************************************************)
EXTENDS SpotInventory, FiniteSetTheorems, WellFoundedInduction, TLAPS

(***************************************************************************)
(* The inductive invariants                                                *)
(***************************************************************************)
\* The types the argument needs.
Shape ==
    /\ now \in Nat /\ execs \in Seq(Nat)
    /\ listed \subseteq Known /\ wire \subseteq Known
    /\ ledger \subseteq Known /\ read.got \subseteq Known
    /\ pc \in {"down", "startread", "seed", "adopt", "loop", "fetch", "read", "settle"}
    /\ read \in [from : Nat, to : Nat, more : BOOLEAN, below : Nat, pages : Nat,
                 got : SUBSET Nat]

\* There is a cursor once the process has started, and it is never ahead of the
\* local clock; before, nothing was traded.
Anchored ==
    /\ cursor = None => pc = "down" /\ posted = 0 /\ execs = <<>>
    /\ cursor # None => cursor \in Nat /\ cursor <= now + Ahead

\* What the history does not show yet has just happened.
Appears ==
    \A i \in Known : execs[i] <= now /\ (i \notin listed => now <= execs[i] + Lag)

\* The window being drained starts where the ledger is complete, and what lies in it
\* and before the overlap of the next one is shown, and collected or on a page to come.
WindowInv ==
    Reading =>
        /\ read.from <= now /\ read.to <= now + Ahead
        /\ \A i \in Known :
              /\ execs[i] < read.from => i \in ledger
              /\ read.from <= execs[i] /\ execs[i] + Overlap < read.to =>
                    i \in listed /\ (i \in read.got \/ i < read.below)

CursorInv == Shape /\ Anchored /\ Appears /\ NothingSkipped /\ WindowInv

\* The last window of the startup, with a dispatch unanswered: all that is shown is
\* booked, collected or on a page to come.
StartupInv ==
    /\ pc = "startread" /\ parked /\ ~read.more =>
          \A i \in listed :
              \/ i \in ledger \cup read.got
              \/ i < read.below /\ read.from <= execs[i] /\ execs[i] <= read.to
    /\ pc = "seed" /\ parked => listed \subseteq ledger

\* What the process has seen is booked; what a pass has booked it has not seen.
SeenInv ==
    /\ seen \subseteq ledger /\ found \subseteq ledger
    /\ found \cap seen = {}
    /\ pc \in {"down", "startread", "seed"} => seen = {}
    /\ pc \in {"adopt", "loop"} => found = {}

\* Nothing is told before the adoption, nor what has not happened.
ToldInv ==
    /\ told \in [Ids -> Nat] /\ Known \subseteq Ids
    /\ \A i \in Ids : ~Streaming \/ i \notin Known => told[i] = 0
    /\ ToldOnce

TellInv == StartupInv /\ SeenInv /\ ToldInv

-----------------------------------------------------------------------------
(***************************************************************************)
(* Lemmas                                                                  *)
(***************************************************************************)
LEMMA Numbers ==
  ASSUME "clock" \notin Beyond
  PROVE  /\ Overlap \in Nat /\ Lag \in Nat /\ Ahead \in Nat /\ Window \in Nat
         /\ PageSize \in Nat /\ Lag + Ahead <= Overlap /\ None \notin Nat
BY ClockAssumption, SizeAssumption, NoneAssumption

\* A set of naturals that is not empty has a least element.
LEMMA MinLeast ==
  ASSUME NEW S \in SUBSET Nat, S # {}
  PROVE  Min(S) \in S /\ \A n \in S : Min(S) <= n
<1>1. \E m \in S : \A n \in S : ~(<<n, m>> \in OpToRel(<, Nat))
  BY NatLessThanWellFounded, WFMin
<1>2. ASSUME NEW m \in S, NEW n \in S, n < m
      PROVE  <<n, m>> \in OpToRel(<, Nat)
  BY <1>2, Zenon DEF OpToRel
<1>3. \E m \in S : \A n \in S : m <= n
  <2>1. PICK m \in S : \A n \in S : ~(<<n, m>> \in OpToRel(<, Nat))
    BY <1>1
  <2>2. \A n \in S : ~(n < m)
    BY <2>1, <1>2, Zenon
  <2>. QED  BY <2>2
<1>. QED  BY <1>3 DEF Min

\* Where the next window starts and ends (fetch_executions).
LEMMA WindowBounds ==
  ASSUME "clock" \notin Beyond, now \in Nat, cursor \in Nat
  PROVE  /\ From \in Nat /\ (From = 0 \/ From = cursor - Overlap)
         /\ Min({From + Window, Local}) \in Nat /\ Min({From + Window, Local}) <= Local
         /\ From + Window >= Local => Min({From + Window, Local}) = Local
<1>. DEFINE start == cursor - Overlap
<1>1. start \in Int
  BY Numbers
<1>2. \E m \in {0, start} : \A n \in {0, start} : m >= n
  BY <1>1
<1>3. From \in {0, start} /\ \A n \in {0, start} : From >= n
  BY <1>2 DEF From, Max
<1>4. From \in Nat /\ (From = 0 \/ From = start)
  BY <1>1, <1>3
<1>5. From + Window \in Nat /\ Local \in Nat
  BY <1>4, Numbers DEF Local
<1>. DEFINE ends == {From + Window, Local}
<1>6. Min(ends) \in ends /\ \A n \in ends : Min(ends) <= n
  <2>. HIDE DEF ends
  <2>1. ends \in SUBSET Nat /\ ends # {}
    BY <1>5 DEF ends
  <2>. QED  BY <2>1, MinLeast
<1>7. Min(ends) = From + Window \/ Min(ends) = Local
  BY <1>6
<1>8. Min(ends) <= From + Window /\ Min(ends) <= Local
  BY <1>6
<1>. QED  BY <1>4, <1>5, <1>7, <1>8

\* A page holds the newest rows left: none that is newer than one of them is missing
\* (_drain_window).
LEMMA PageFromTheTop ==
  ASSUME "clock" \notin Beyond, Shape, NEW m \in NextPage, NEW i \in Left, m <= i
  PROVE  i \in NextPage
<1>. DEFINE Newer(j) == {k \in Left : k > j}
<1>1. Left \subseteq 1 .. Len(execs) /\ Len(execs) \in Nat
  <2>1. Left \subseteq listed
    BY DEF Left
  <2>2. listed \subseteq 1 .. Len(execs) /\ Len(execs) \in Nat
    BY DEF Shape, Known
  <2>. QED  BY <2>1, <2>2
<1>2. IsFiniteSet(1 .. Len(execs))
  BY <1>1, FS_Interval
<1>3. m \in Left /\ Cardinality(Newer(m)) < PageSize
  BY DEF NextPage
<1>4. IsFiniteSet(Newer(m))
  BY <1>1, <1>2, FS_Subset
<1>5. Newer(i) \subseteq Newer(m)
  <2>1. i \in Int /\ m \in Int /\ \A k \in Left : k \in Int
    BY <1>1, <1>3
  <2>2. ASSUME NEW k \in Left, k > i
        PROVE  k > m
    BY <2>1, <2>2
  <2>. QED  BY <2>2
<1>6. Cardinality(Newer(i)) <= Cardinality(Newer(m))
  BY <1>4, <1>5, FS_Subset
<1>7. Cardinality(Newer(i)) \in Nat /\ Cardinality(Newer(m)) \in Nat
  BY <1>4, <1>5, FS_Subset, FS_CardinalityType
<1>8. Cardinality(Newer(i)) < PageSize
  BY <1>3, <1>6, <1>7, Numbers
<1>. QED  BY <1>8 DEF NextPage

-----------------------------------------------------------------------------
(***************************************************************************)
(* Nothing is left behind the cursor                                       *)
(***************************************************************************)
LEMMA CursorStart ==
  ASSUME "clock" \notin Beyond, Init
  PROVE  CursorInv
<1>1. Known = {} /\ Len(execs) = 0
  BY DEF Init, Known
<1>2. Shape
  BY <1>1 DEF Init, Shape, NoRead
<1>3. Anchored /\ Appears /\ NothingSkipped /\ WindowInv
  BY <1>1 DEF Init, Anchored, Appears, NothingSkipped, WindowInv, Reading
<1>. QED  BY <1>2, <1>3 DEF CursorInv

\* A step that books, but neither reads nor moves the cursor.
LEMMA CursorQuiet ==
  ASSUME "clock" \notin Beyond, CursorInv, UNCHANGED <<venueVars, cursor>>,
         ledger \subseteq ledger', ledger' \subseteq Known, wire' \subseteq Known,
         pc' \in {"down", "startread", "seed", "adopt", "loop", "fetch", "read", "settle"},
         read' = NoRead \/ read' = read,
         ~Reading' \/ (read' = read /\ pc' = pc),
         cursor = None => pc' = "down" /\ posted' = 0
  PROVE  CursorInv'
<1>. USE DEF CursorInv, venueVars
<1>1. Known' = Known
  BY DEF Known
<1>2. Shape'
  <2>1. read' \in [from : Nat, to : Nat, more : BOOLEAN, below : Nat, pages : Nat,
                   got : SUBSET Nat] /\ read'.got \subseteq Known
    <3>1. CASE read' = NoRead
      BY <3>1 DEF NoRead
    <3>2. CASE read' = read
      BY <3>2 DEF Shape
    <3>. QED  BY <3>1, <3>2
  <2>. QED  BY <1>1, <2>1 DEF Shape
<1>3. Anchored' /\ Appears' /\ NothingSkipped'
  BY <1>1 DEF Anchored, Appears, NothingSkipped
<1>4. WindowInv'
  <2>1. CASE Reading'
    <3>1. Reading /\ read' = read
      BY <2>1 DEF Reading
    <3>. QED  BY <1>1, <3>1 DEF WindowInv
  <2>. QED  BY <2>1 DEF WindowInv
<1>. QED  BY <1>2, <1>3, <1>4

LEMMA CursorTick ==
  ASSUME "clock" \notin Beyond, CursorInv, Tick
  PROVE  CursorInv'
<1>. USE DEF CursorInv
<1>1. /\ now' = now + 1 /\ now \in Nat /\ Known' = Known
      /\ UNCHANGED <<execs, listed, wire, ledger, cursor, posted, pc, read>>
      /\ \A i \in Known \ listed : now < execs[i] + Lag
  BY DEF Tick, Shape, Known, bookVars, sendVars, passVars
<1>2. \A i \in Known : execs[i] \in Nat
  BY DEF Shape, Known
<1>3. Shape'
  BY <1>1 DEF Shape
<1>4. Anchored'
  BY <1>1, Numbers DEF Anchored
<1>5. Appears'
  BY <1>1, <1>2, Numbers DEF Appears
<1>6. NothingSkipped'
  BY <1>1 DEF NothingSkipped
<1>7. WindowInv'
  <2>1. Reading' => Reading
    BY <1>1 DEF Reading
  <2>2. read.from \in Nat /\ read.to \in Nat
    BY DEF Shape
  <2>. QED  BY <1>1, <2>1, <2>2, Numbers DEF WindowInv
<1>. QED  BY <1>3, <1>4, <1>5, <1>6, <1>7

\* The venue's clock is behind every window's end by no more than the overlap, so
\* what executes now is no concern of the cursor yet.
LEMMA CursorExecute ==
  ASSUME "clock" \notin Beyond, CursorInv, Execute
  PROVE  CursorInv'
<1>. USE DEF CursorInv
<1>. DEFINE n == Len(execs) + 1
<1>1. /\ execs' = Append(execs, now) /\ OrderOf(n) <= posted
      /\ now \in Nat /\ execs \in Seq(Nat)
      /\ UNCHANGED <<now, listed, ledger, cursor, posted, pc, read>>
      /\ wire' \subseteq wire \cup {Len(execs')}
  BY DEF Execute, Shape, bookVars, sendVars, passVars
<1>2. /\ execs' \in Seq(Nat) /\ Len(execs') = n /\ n \in Nat
      /\ Known' = Known \cup {n} /\ execs'[n] = now
      /\ \A i \in Known : execs'[i] = execs[i] /\ execs[i] \in Nat
  BY <1>1 DEF Known
<1>3. cursor # None
  <2>1. SUFFICES ASSUME cursor = None PROVE FALSE
    OBVIOUS
  <2>2. posted = 0 /\ n = 1
    BY <2>1 DEF Anchored
  <2>3. OrderOf(1) = 1
    BY DEF OrderOf, RoundOf, IsBuy
  <2>. QED  BY <1>1, <2>2, <2>3
<1>4. Shape'
  <2>1. listed' \subseteq Known' /\ wire' \subseteq Known' /\ ledger' \subseteq Known'
        /\ read'.got \subseteq Known'
    BY <1>1, <1>2 DEF Shape
  <2>. QED  BY <1>1, <1>2, <2>1 DEF Shape
<1>5. Anchored'
  BY <1>1, <1>3 DEF Anchored
<1>6. Appears'
  <2>1. now <= now + Lag
    BY <1>1, Numbers
  <2>2. \A i \in Known : execs[i] <= now /\ (i \notin listed => now <= execs[i] + Lag)
    BY DEF Appears
  <2>3. ASSUME NEW i \in Known'
        PROVE  execs'[i] <= now /\ (i \notin listed => now <= execs'[i] + Lag)
    <3>1. CASE i \in Known
      BY <1>2, <2>2, <3>1
    <3>2. CASE i = n
      BY <1>1, <1>2, <2>1, <3>2
    <3>. QED  BY <1>2, <3>1, <3>2
  <2>. QED  BY <1>1, <2>3 DEF Appears
<1>7. NothingSkipped'
  <2>1. cursor \in Nat /\ cursor <= now + Ahead
    BY <1>3 DEF Anchored
  <2>2. ~(now < cursor - Overlap)
    BY <1>1, <2>1, Numbers
  <2>. QED  BY <1>1, <1>2, <2>2 DEF NothingSkipped
<1>8. WindowInv'
  <2>1. CASE Reading
    <3>1. read.from \in Nat /\ read.to \in Nat
      BY DEF Shape
    <3>2. read.from <= now /\ read.to <= now + Ahead
      BY <2>1 DEF WindowInv
    <3>3. ~(now < read.from) /\ ~(now + Overlap < read.to)
      BY <1>1, <3>1, <3>2, Numbers
    <3>. QED  BY <1>1, <1>2, <2>1, <3>2, <3>3 DEF WindowInv
  <2>2. CASE ~Reading
    BY <1>1, <2>2 DEF WindowInv, Reading
  <2>. QED  BY <2>1, <2>2
<1>. QED  BY <1>4, <1>5, <1>6, <1>7, <1>8

LEMMA CursorList ==
  ASSUME "clock" \notin Beyond, CursorInv, NEW i \in Ids, List(i)
  PROVE  CursorInv'
<1>. USE DEF CursorInv
<1>1. /\ i \in Known /\ listed' = listed \cup {i} /\ Known' = Known
      /\ UNCHANGED <<now, execs, wire, ledger, cursor, posted, pc, read>>
  BY DEF List, Known, bookVars, sendVars, passVars
<1>2. Shape'
  BY <1>1 DEF Shape
<1>3. Anchored' /\ Appears' /\ NothingSkipped'
  BY <1>1 DEF Anchored, Appears, NothingSkipped
<1>4. WindowInv'
  BY <1>1 DEF WindowInv, Reading
<1>. QED  BY <1>2, <1>3, <1>4

\* A window begins: what is not shown by now has happened within the overlap of its end
\* (fetch_executions).
LEMMA CursorBegin ==
  ASSUME "clock" \notin Beyond, CursorInv, NEW next \in {"startread", "read"}, Begin(next),
         cursor # None, UNCHANGED <<venueVars, wire, bookVars, posted>>
  PROVE  CursorInv'
<1>. USE DEF CursorInv, venueVars, bookVars
<1>. DEFINE to == Min({From + Window, Local})
<1>1. now \in Nat /\ cursor \in Nat /\ Len(execs) \in Nat
  BY DEF Shape, Anchored
<1>2. /\ From \in Nat /\ (From = 0 \/ From = cursor - Overlap)
      /\ to \in Nat /\ to <= Local
  BY <1>1, WindowBounds
<1>. HIDE DEF to
<1>3. /\ pc' = next /\ read'.from = From /\ read'.to = to
      /\ read'.below = Len(execs) + 1 /\ read'.got = {}
      /\ read' \in [from : Nat, to : Nat, more : BOOLEAN, below : Nat, pages : Nat,
                    got : SUBSET Nat]
  <2>1. (From + Window < Local) \in BOOLEAN
    OBVIOUS
  <2>. QED  BY <1>1, <1>2, <2>1 DEF Begin, to
<1>4. Known' = Known /\ \A i \in Known : execs[i] \in Nat /\ i \in Nat /\ i < Len(execs) + 1
  BY <1>1 DEF Shape, Known
<1>5. Shape'
  BY <1>3, <1>4 DEF Shape
<1>6. Anchored' /\ Appears' /\ NothingSkipped'
  BY <1>4 DEF Anchored, Appears, NothingSkipped
<1>7. From <= now /\ to <= now + Ahead
  <2>1. cursor <= now + Ahead
    BY DEF Anchored
  <2>. QED  BY <1>1, <1>2, <2>1, Numbers DEF Local
<1>8. ASSUME NEW i \in Known
      PROVE  /\ execs[i] < From => i \in ledger
             /\ From <= execs[i] /\ execs[i] + Overlap < to => i \in listed
  <2>1. execs[i] < From => i \in ledger
    BY <1>2, <1>4 DEF NothingSkipped
  <2>2. i \notin listed => now <= execs[i] + Lag
    BY DEF Appears
  <2>3. execs[i] + Overlap < to => i \in listed
    BY <1>1, <1>2, <1>4, <1>7, <2>2, Numbers
  <2>. QED  BY <2>1, <2>3
<1>9. WindowInv'
  BY <1>3, <1>4, <1>7, <1>8 DEF WindowInv
<1>. QED  BY <1>5, <1>6, <1>9

\* A page takes the newest rows of what is left, so older ones are on pages to come
\* (_drain_window).
LEMMA CursorPage ==
  ASSUME "clock" \notin Beyond, CursorInv, Page
  PROVE  CursorInv'
<1>. USE DEF CursorInv
<1>1. /\ Reading /\ Reading' /\ Known' = Known
      /\ UNCHANGED <<now, execs, listed, wire, ledger, cursor, posted, pc>>
  BY DEF Page, Reading, Known, venueVars, bookVars, sendVars
<1>2. Left \subseteq listed /\ listed \subseteq Known /\ Known \subseteq Nat
  BY DEF Left, Shape, Known
<1>3. NextPage \subseteq Left
  BY DEF NextPage
<1>4. NextPage # {} => Min(NextPage) \in NextPage /\ \A j \in NextPage : Min(NextPage) <= j
  <2>1. NextPage \in SUBSET Nat
    BY <1>2, <1>3
  <2>. QED  BY <2>1, MinLeast
<1>5. /\ read'.from = read.from /\ read'.to = read.to /\ read'.more = read.more
      /\ read'.got = read.got \cup NextPage
      /\ read'.below = IF NextPage = {} THEN read.below ELSE Min(NextPage)
      /\ read'.pages = read.pages + 1
      /\ DOMAIN read' = DOMAIN read
  BY DEF Page, Shape
<1>6. read.below \in Nat /\ read.from \in Nat /\ read.to \in Nat /\ read.pages \in Nat
  BY DEF Shape
<1>7. read'.below \in Nat
  BY <1>2, <1>3, <1>4, <1>5, <1>6
<1>8. Shape'
  <2>1. read'.got \subseteq Known
    BY <1>2, <1>3, <1>5 DEF Shape
  <2>2. read' \in [from : Nat, to : Nat, more : BOOLEAN, below : Nat, pages : Nat,
                   got : SUBSET Nat]
    <3>1. read' = [read EXCEPT !.pages = read'.pages, !.got = read'.got,
                               !.below = read'.below]
      BY <1>5 DEF Page, Shape
    <3>2. read'.pages \in Nat
      BY <1>5, <1>6
    <3>3. read'.got \in SUBSET Nat
      <4>. HIDE DEF CursorInv
      <4>. QED  BY ONLY <1>2, <2>1
    <3>. QED  BY <1>7, <3>1, <3>2, <3>3 DEF Shape
  <2>. QED  BY <1>1, <2>1, <2>2 DEF Shape
<1>9. Anchored' /\ Appears' /\ NothingSkipped'
  BY <1>1 DEF Anchored, Appears, NothingSkipped
<1>10. ASSUME NEW i \in Left
       PROVE  i \in read'.got \/ i < read'.below
  <2>1. i \in Nat /\ i < read.below
    BY <1>2 DEF Left
  <2>2. CASE NextPage = {}
    BY <1>5, <2>1, <2>2
  <2>3. CASE NextPage # {} /\ Min(NextPage) <= i
    BY <1>4, <1>5, <2>3, PageFromTheTop
  <2>4. CASE NextPage # {} /\ ~(Min(NextPage) <= i)
    BY <1>5, <1>7, <2>1, <2>4
  <2>. QED  BY <2>2, <2>3, <2>4
<1>11. WindowInv'
  <2>1. ASSUME NEW i \in Known, read.from <= execs[i], execs[i] + Overlap < read.to
        PROVE  i \in listed /\ (i \in read'.got \/ i < read'.below)
    <3>1. i \in listed /\ (i \in read.got \/ i < read.below)
      BY <1>1, <2>1 DEF WindowInv
    <3>2. execs[i] \in Nat
      BY DEF Shape, Known
    <3>3. i \in read.got \/ i \in Left
      BY <1>6, <2>1, <3>1, <3>2, Numbers DEF Left
    <3>. QED  BY <1>5, <1>10, <3>1, <3>3
  <2>. QED  BY <1>1, <1>5, <2>1 DEF WindowInv
<1>. QED  BY <1>8, <1>9, <1>11

\* Nothing is left in the window: the cursor may move to its end.
LEMMA CursorDrained ==
  ASSUME "clock" \notin Beyond, CursorInv, Drained
  PROVE  CursorInv'
<1>. USE DEF CursorInv
<1>1. /\ Reading /\ read.pages > 0 /\ Left = {}
      /\ ledger' = ledger \cup read.got /\ cursor' = read.to /\ read' = NoRead
      /\ Known' = Known
      /\ UNCHANGED <<now, execs, listed, wire, posted>>
  BY DEF Drained, Book, Known, venueVars, sendVars
<1>2. pc' \in {"fetch", "down", "settle", "seed"}
  BY <1>1 DEF Drained, Reading, Shape
<1>3. read.from \in Nat /\ read.to \in Nat /\ read.below \in Nat
  BY DEF Shape
<1>4. Shape'
  <2>1. read' \in [from : Nat, to : Nat, more : BOOLEAN, below : Nat, pages : Nat,
                   got : SUBSET Nat] /\ read'.got = {}
    BY <1>1 DEF NoRead
  <2>. QED  BY <1>1, <1>2, <2>1 DEF Shape
<1>5. Anchored'
  BY <1>1, <1>3, Numbers DEF Anchored, WindowInv
<1>6. Appears'
  BY <1>1 DEF Appears
<1>7. NothingSkipped'
  <2>1. ASSUME NEW i \in Known, execs[i] < read.to - Overlap
        PROVE  i \in ledger \cup read.got
    <3>1. execs[i] \in Nat
      BY DEF Shape, Known
    <3>2. CASE execs[i] < read.from
      BY <1>1, <3>2 DEF WindowInv
    <3>3. CASE read.from <= execs[i]
      <4>1. i \in listed /\ (i \in read.got \/ i < read.below)
        BY <1>1, <1>3, <2>1, <3>1, <3>3, Numbers DEF WindowInv
      <4>2. execs[i] \in read.from .. read.to
        BY <1>3, <2>1, <3>1, <3>3, Numbers
      <4>. QED  BY <1>1, <4>1, <4>2 DEF Left
    <3>. QED  BY <1>3, <3>1, <3>2, <3>3
  <2>. QED  BY <1>1, <2>1 DEF NothingSkipped
<1>8. WindowInv'
  BY <1>2 DEF WindowInv, Reading
<1>. QED  BY <1>4, <1>5, <1>6, <1>7, <1>8

LEMMA CursorStep ==
  ASSUME "clock" \notin Beyond, CursorInv, [Next]_vars
  PROVE  CursorInv'
<1>. USE DEF CursorInv
<1>0. /\ read.got \subseteq Known /\ wire \subseteq Known /\ ledger \subseteq Known
      /\ cursor = None => pc = "down" /\ posted = 0
      /\ pc \in {"down", "startread", "seed", "adopt", "loop", "fetch", "read", "settle"}
  BY DEF Shape, Anchored
<1>1. CASE Venue
  BY <1>1, CursorTick, CursorExecute, CursorList DEF Venue
<1>2. CASE StartFetch
  <2>1. CASE cursor = None
    <3>1. /\ cursor' = Local /\ pc' = "seed" /\ read' = read /\ ledger' = ledger
          /\ UNCHANGED <<now, execs, listed, wire, posted>> /\ Known' = Known
      BY <1>2, <2>1 DEF StartFetch, venueVars, sendVars, Known
    <3>2. Known = {} /\ now \in Nat
      BY <2>1 DEF Anchored, Known, Shape
    <3>3. Shape'
      BY <3>1 DEF Shape
    <3>4. Anchored'
      BY <3>1, <3>2, Numbers DEF Anchored, Local
    <3>5. Appears' /\ NothingSkipped' /\ WindowInv'
      BY <3>1, <3>2 DEF Appears, NothingSkipped, WindowInv, Reading
    <3>. QED  BY <3>3, <3>4, <3>5
  <2>2. CASE cursor # None
    <3>1. Begin("startread") /\ UNCHANGED <<venueVars, wire, bookVars, posted>>
      BY <1>2, <2>2 DEF StartFetch, bookVars, sendVars
    <3>. QED  BY <2>2, <3>1, CursorBegin
  <2>. QED  BY <2>1, <2>2
<1>3. CASE StartPass \/ NextWindow
  <2>1. cursor # None /\ Begin("read") /\ UNCHANGED <<venueVars, wire, bookVars, posted>>
    BY <1>0, <1>3 DEF StartPass, NextWindow, sendVars
  <2>. QED  BY <2>1, CursorBegin
<1>4. CASE Page
  BY <1>4, CursorPage
<1>5. CASE Drained
  BY <1>5, CursorDrained
<1>6. CASE Undrained
  <2>1. /\ UNCHANGED <<venueVars, cursor, wire, posted>> /\ read' = NoRead
        /\ ledger \subseteq ledger' /\ ledger' \subseteq ledger \cup read.got
        /\ pc' \in {"settle", "down"} /\ Reading
    BY <1>6 DEF Undrained, GivesUp, Book, sendVars
  <2>2. ~Reading' /\ cursor # None
    BY <1>0, <2>1 DEF Reading
  <2>. QED  BY <1>0, <2>1, <2>2, CursorQuiet
<1>7. CASE \E i \in Ids : Push(i)
  <2>1. PICK i \in Ids : Push(i)
    BY <1>7
  <2>2. /\ UNCHANGED <<venueVars, cursor, posted, pc, read>>
        /\ wire' \subseteq wire /\ i \in Known
        /\ ledger \subseteq ledger' /\ ledger' \subseteq ledger \cup {i}
    BY <1>0, <2>1 DEF Push, passVars
  <2>3. Reading' => Reading
    BY <2>2 DEF Reading
  <2>. QED  BY <1>0, <2>2, <2>3, CursorQuiet
<1>8. CASE Send
  <2>1. /\ UNCHANGED <<venueVars, cursor, ledger, wire, pc, read>> /\ Streaming
    BY <1>8 DEF Send, bookVars, passVars
  <2>2. cursor # None
    BY <1>0, <2>1 DEF Streaming
  <2>. QED  BY <1>0, <2>1, <2>2, CursorQuiet
<1>9. CASE Settle \/ Seed \/ SeedFails \/ Adopt
  <2>1. /\ UNCHANGED <<venueVars, cursor, ledger, wire, posted, read>>
        /\ pc # "down" /\ pc' \in {"loop", "adopt"}
    BY <1>9 DEF Settle, Seed, SeedFails, Adopt, bookVars, sendVars, passVars
  <2>2. ~Reading'
    BY <2>1 DEF Reading
  <2>. QED  BY <1>0, <2>1, <2>2, CursorQuiet
<1>10. CASE Crash
  <2>1. /\ UNCHANGED <<venueVars, cursor, ledger, posted>> /\ wire' = {} /\ read' = NoRead
        /\ pc' = "down"
    BY <1>10 DEF Crash, bookVars, sendVars
  <2>2. ~Reading'
    BY <2>1 DEF Reading
  <2>. QED  BY <1>0, <2>1, <2>2, CursorQuiet
<1>11. CASE UNCHANGED vars
  BY <1>0, <1>11, CursorQuiet DEF vars, bookVars, sendVars, passVars
<1>. QED
  BY <1>1, <1>2, <1>3, <1>4, <1>5, <1>6, <1>7, <1>8, <1>9, <1>10, <1>11 DEF Next, Plugin

\* No execution of the run is left behind the cursor, for every overlap that is not less
\* than the lag of the history and the local clock's lead (inventory.py:13-16, 200-221).
THEOREM CursorPassesNothing ==
  ASSUME "clock" \notin Beyond
  PROVE  Spec => []NothingSkipped
<1>1. Init => CursorInv
  BY CursorStart
<1>2. CursorInv /\ [Next]_vars => CursorInv'
  BY CursorStep
<1>3. CursorInv => NothingSkipped
  BY DEF CursorInv
<1>. QED  BY <1>1, <1>2, <1>3, PTL DEF Spec

-----------------------------------------------------------------------------
(***************************************************************************)
(* Each execution is told once                                             *)
(***************************************************************************)
LEMMA TellStart ==
  ASSUME Init
  PROVE  TellInv
<1>1. Known = {}
  BY DEF Init, Known
<1>2. StartupInv /\ SeenInv
  BY DEF Init, StartupInv, SeenInv
<1>3. told \in [Ids -> Nat] /\ \A i \in Ids : told[i] = 0
  BY DEF Init
<1>4. ~Streaming
  BY DEF Init, Streaming
<1>. QED  BY <1>1, <1>2, <1>3, <1>4 DEF TellInv, ToldInv, ToldOnce

\* A step that neither books nor tells.
LEMMA TellCalm ==
  ASSUME TellInv, UNCHANGED <<execs, ledger, seen, found, told>>,
         Streaming' <=> Streaming,
         pc' \in {"down", "startread", "seed"} => pc \in {"down", "startread", "seed"},
         pc' \in {"adopt", "loop"} => pc' = pc,
         StartupInv'
  PROVE  TellInv'
<1>1. Known' = Known
  BY DEF Known
<1>2. SeenInv'
  BY DEF TellInv, SeenInv
<1>3. ToldInv'
  BY <1>1 DEF TellInv, ToldInv, ToldOnce
<1>. QED  BY <1>2, <1>3 DEF TellInv

\* A window's rows are booked, not told: what is new of them the process has not seen
\* (_drain_window; Book).
LEMMA TellBook ==
  ASSUME TellInv, NEW rows, Book(rows), UNCHANGED <<execs, seen, told>>,
         Streaming' <=> Streaming, pc' \in {"fetch", "settle", "down", "seed"},
         pc' \in {"down", "seed"} => pc = "startread",
         StartupInv'
  PROVE  TellInv'
<1>1. Known' = Known
  BY DEF Known
<1>2. ledger' = ledger \cup rows /\ found' = found \cup (rows \ ledger)
  BY DEF Book
<1>3. SeenInv'
  BY <1>2 DEF TellInv, SeenInv
<1>4. \A i \in Known : i \in (ledger' \cup seen) \ found' <=> i \in (ledger \cup seen) \ found
  BY <1>2 DEF TellInv, SeenInv
<1>5. ToldInv'
  BY <1>1, <1>4 DEF TellInv, ToldInv, ToldOnce
<1>. QED  BY <1>3, <1>5 DEF TellInv

LEMMA TellExecute ==
  ASSUME CursorInv, TellInv, Execute
  PROVE  TellInv'
<1>. DEFINE n == Len(execs) + 1
<1>1. /\ execs' = Append(execs, now) /\ Len(execs) < MaxOwn
      /\ now \in Nat /\ execs \in Seq(Nat)
      /\ UNCHANGED <<listed, ledger, pc, read, parked, seen, told, found>>
  BY DEF Execute, CursorInv, Shape, bookVars, sendVars, passVars
<1>2. /\ Len(execs') = n /\ n \in Nat /\ Known' = Known \cup {n} /\ n \notin Known
      /\ \A i \in Known : execs'[i] = execs[i]
  BY <1>1 DEF Known
<1>3. n \in Ids
  BY <1>1, <1>2, SizeAssumption DEF Ids
<1>4. StartupInv'
  <2>1. listed \subseteq Known
    BY DEF CursorInv, Shape
  <2>. QED  BY <1>1, <1>2, <2>1 DEF TellInv, StartupInv
<1>5. SeenInv'
  BY <1>1 DEF TellInv, SeenInv
<1>6. n \notin ledger \cup seen
  BY <1>2 DEF CursorInv, Shape, TellInv, SeenInv
<1>7. told[n] = 0
  BY <1>2, <1>3 DEF TellInv, ToldInv
<1>8. ToldInv'
  <2>1. Streaming' <=> Streaming
    BY <1>1 DEF Streaming
  <2>2. ToldOnce'
    BY <1>1, <1>2, <1>6, <1>7, <2>1 DEF TellInv, ToldInv, ToldOnce
  <2>3. \A i \in Ids : ~Streaming' \/ i \notin Known' => told'[i] = 0
    BY <1>1, <1>2, <2>1 DEF TellInv, ToldInv
  <2>4. told' \in [Ids -> Nat] /\ Known' \subseteq Ids
    BY <1>1, <1>2, <1>3 DEF TellInv, ToldInv
  <2>. QED  BY <2>2, <2>3, <2>4 DEF ToldInv
<1>. QED  BY <1>4, <1>5, <1>8 DEF TellInv

\* The last window of the startup begins: all that is shown lies before it, and is
\* booked, or in it.
LEMMA StartupBegin ==
  ASSUME "clock" \notin Beyond, CursorInv, cursor # None, Begin("startread"),
         UNCHANGED <<venueVars, ledger>>
  PROVE  StartupInv'
<1>. DEFINE to == Min({From + Window, Local})
<1>1. now \in Nat /\ cursor \in Nat /\ Len(execs) \in Nat
  BY DEF CursorInv, Shape, Anchored
<1>2. /\ From \in Nat /\ (From = 0 \/ From = cursor - Overlap)
      /\ to \in Nat /\ (From + Window >= Local => to = Local)
  BY <1>1, WindowBounds
<1>. HIDE DEF to
<1>3. /\ pc' = "startread" /\ read'.from = From /\ read'.to = to
      /\ read'.more = (From + Window < Local)
      /\ read'.below = Len(execs) + 1 /\ read'.got = {}
  BY DEF Begin, to
<1>4. From + Window \in Nat /\ Local \in Nat /\ now <= Local
  BY <1>1, <1>2, Numbers DEF Local
<1>5. ASSUME NEW i \in listed, ~read'.more
      PROVE  i \in ledger \/ (i < Len(execs) + 1 /\ From <= execs[i] /\ execs[i] <= to)
  <2>1. i \in Known /\ i \in Nat /\ i < Len(execs) + 1 /\ execs[i] \in Nat
    BY <1>1 DEF CursorInv, Shape, Known
  <2>2. execs[i] <= to
    <3>1. ~(From + Window < Local)
      BY <1>3, <1>5
    <3>2. to = Local
      BY <1>2, <1>4, <3>1
    <3>3. execs[i] <= now
      BY <2>1 DEF CursorInv, Appears
    <3>. QED  BY <1>1, <1>4, <2>1, <3>2, <3>3
  <2>3. execs[i] < From => i \in ledger
    BY <1>1, <1>2, <2>1, Numbers DEF CursorInv, NothingSkipped
  <2>. QED  BY <1>2, <2>1, <2>2, <2>3
<1>. QED  BY <1>3, <1>5 DEF StartupInv, venueVars

\* What a page leaves is on pages to come.
LEMMA StartupPage ==
  ASSUME "clock" \notin Beyond, CursorInv, TellInv, Page
  PROVE  StartupInv'
<1>1. /\ Reading /\ UNCHANGED <<execs, listed, ledger, pc, parked>>
  BY DEF Page, venueVars, bookVars, sendVars
<1>2. Left \subseteq listed /\ listed \subseteq Known /\ Known \subseteq Nat
  BY DEF Left, CursorInv, Shape, Known
<1>3. NextPage \subseteq Left
  BY DEF NextPage
<1>4. NextPage # {} => Min(NextPage) \in NextPage /\ \A j \in NextPage : Min(NextPage) <= j
  <2>1. NextPage \in SUBSET Nat
    BY <1>2, <1>3
  <2>. QED  BY <2>1, MinLeast
<1>5. /\ read'.from = read.from /\ read'.to = read.to /\ read'.more = read.more
      /\ read'.got = read.got \cup NextPage
      /\ read'.below = IF NextPage = {} THEN read.below ELSE Min(NextPage)
  BY DEF Page, CursorInv, Shape
<1>6. read.below \in Nat /\ read.from \in Nat /\ read.to \in Nat
  BY DEF CursorInv, Shape
<1>7. ASSUME NEW i \in Left
      PROVE  i \in read'.got \/ i < read'.below
  <2>1. i \in Nat /\ i < read.below
    BY <1>2 DEF Left
  <2>2. CASE NextPage = {}
    BY <1>5, <2>1, <2>2
  <2>3. CASE NextPage # {} /\ Min(NextPage) <= i
    BY <1>4, <1>5, <2>3, PageFromTheTop DEF CursorInv
  <2>4. CASE NextPage # {} /\ ~(Min(NextPage) <= i)
    <3>1. Min(NextPage) \in Nat
      BY <1>2, <1>3, <1>4, <2>4
    <3>. QED  BY <1>5, <2>1, <2>4, <3>1
  <2>. QED  BY <2>2, <2>3, <2>4
<1>8. ASSUME NEW i \in listed, i < read.below, read.from <= execs[i], execs[i] <= read.to
      PROVE  i \in read'.got \/ i < read'.below
  <2>1. execs[i] \in Nat
    BY <1>2 DEF CursorInv, Shape, Known
  <2>2. i \in Left
    BY <1>6, <1>8, <2>1 DEF Left
  <2>. QED  BY <1>7, <2>2
<1>. QED  BY <1>1, <1>5, <1>8 DEF TellInv, StartupInv, Reading

LEMMA TellDrained ==
  ASSUME "clock" \notin Beyond, CursorInv, TellInv, Drained
  PROVE  TellInv'
<1>1. /\ Reading /\ Left = {} /\ Book(read.got)
      /\ UNCHANGED <<execs, listed, parked, seen, told>>
  BY DEF Drained, venueVars, sendVars
<1>2. /\ pc' \in {"fetch", "down", "settle", "seed"}
      /\ pc' \in {"down", "seed"} <=> pc = "startread"
      /\ pc' = "seed" => ~read.more
  BY <1>1 DEF Drained, Reading, CursorInv, Shape
<1>3. Streaming' <=> Streaming
  BY <1>1, <1>2 DEF Streaming, Reading
<1>4. ASSUME pc' = "seed", parked, NEW i \in listed
      PROVE  i \in ledger \cup read.got
  <2>1. pc = "startread" /\ ~read.more
    BY <1>2, <1>4
  <2>2. \/ i \in ledger \cup read.got
        \/ i < read.below /\ read.from <= execs[i] /\ execs[i] <= read.to
    BY <1>4, <2>1 DEF TellInv, StartupInv
  <2>3. execs[i] \in Nat /\ read.from \in Nat /\ read.to \in Nat
    BY DEF CursorInv, Shape, Known
  <2>. QED  BY <1>1, <2>2, <2>3 DEF Left
<1>5. StartupInv'
  BY <1>1, <1>2, <1>4 DEF StartupInv, Book
<1>. QED  BY <1>1, <1>2, <1>3, <1>5, TellBook

\* A push is told when neither the ledger nor the process knows it (_translate_executions).
LEMMA TellPush ==
  ASSUME Beyond = {}, CursorInv, TellInv, NEW i \in Ids, Push(i)
  PROVE  TellInv'
<1>1. /\ pc = "loop" /\ i \in Known /\ seen' = seen \cup {i}
      /\ UNCHANGED <<execs, listed, pc, read, found>>
  BY DEF Push, CursorInv, Shape, venueVars, passVars
<1>2. found = {} /\ seen \subseteq ledger
  BY <1>1 DEF TellInv, SeenInv
<1>3. Known' = Known /\ Streaming /\ Streaming'
  BY <1>1 DEF Known, Streaming
<1>4. StartupInv'
  BY <1>1 DEF StartupInv
<1>5. CASE New(i)
  <2>1. /\ ledger' = ledger \cup {i}
        /\ told' = [j \in Ids |-> IF j \in {i} THEN told[j] + 1 ELSE told[j]]
    BY <1>5 DEF Push, TellAll
  <2>2. i \notin ledger \cup seen
    BY <1>5 DEF New
  <2>3. SeenInv'
    BY <1>1, <1>2, <2>1 DEF SeenInv
  <2>4. told[i] = 0
    BY <1>1, <1>2, <1>3, <2>2 DEF TellInv, ToldInv, ToldOnce
  <2>5. ToldOnce'
    BY <1>1, <1>2, <1>3, <2>1, <2>2, <2>4 DEF TellInv, ToldInv, ToldOnce
  <2>6. told' \in [Ids -> Nat] /\ \A j \in Ids : j \notin Known' => told'[j] = 0
    BY <1>1, <1>3, <2>1 DEF TellInv, ToldInv
  <2>7. ToldInv'
    BY <1>3, <2>5, <2>6 DEF TellInv, ToldInv
  <2>. QED  BY <1>4, <2>3, <2>7 DEF TellInv
<1>6. CASE ~New(i)
  <2>1. UNCHANGED <<ledger, told>> /\ i \in ledger
    BY <1>2, <1>6 DEF Push, New
  <2>2. SeenInv'
    BY <1>1, <1>2, <2>1 DEF TellInv, SeenInv
  <2>3. ToldInv'
    BY <1>1, <1>3, <2>1 DEF TellInv, ToldInv, ToldOnce
  <2>. QED  BY <1>4, <2>2, <2>3 DEF TellInv
<1>. QED  BY <1>5, <1>6

\* A pass tells what it booked (_run_spot_reconcile).
LEMMA TellSettle ==
  ASSUME CursorInv, TellInv, Settle
  PROVE  TellInv'
<1>1. /\ pc = "settle" /\ pc' = "loop" /\ found' = {}
      /\ told' = [j \in Ids |-> IF j \in Recovered THEN told[j] + 1 ELSE told[j]]
      /\ seen' = seen \cup Recovered /\ UNCHANGED <<execs, ledger>>
  BY DEF Settle, TellAll, venueVars
<1>2. Recovered = found /\ seen \subseteq ledger /\ found \subseteq ledger
  BY DEF Recovered, TellInv, SeenInv
<1>3. Known' = Known /\ Streaming /\ Streaming'
  BY <1>1 DEF Known, Streaming
<1>4. StartupInv' /\ SeenInv'
  BY <1>1, <1>2 DEF StartupInv, SeenInv
<1>5. found \subseteq Known
  BY <1>2 DEF CursorInv, Shape
<1>6. ToldInv'
  <2>1. \A j \in Known : j \in found => told[j] = 0
    BY <1>3 DEF TellInv, ToldInv, ToldOnce
  <2>2. ToldOnce'
    BY <1>1, <1>2, <1>3, <2>1 DEF TellInv, ToldInv, ToldOnce
  <2>3. told' \in [Ids -> Nat] /\ \A j \in Ids : j \notin Known' => told'[j] = 0
    BY <1>1, <1>2, <1>3, <1>5 DEF TellInv, ToldInv
  <2>. QED  BY <1>3, <2>2, <2>3 DEF TellInv, ToldInv
<1>. QED  BY <1>4, <1>6 DEF TellInv

\* Startup: what an unanswered dispatch executed is booked before it counts as seen; the
\* adoption tells what is booked.
LEMMA TellSeed ==
  ASSUME CursorInv, TellInv, Seed \/ SeedFails
  PROVE  TellInv'
<1>1. /\ pc = "seed" /\ pc' = "adopt" /\ found' = {}
      /\ UNCHANGED <<execs, ledger, told>>
  BY DEF Seed, SeedFails, venueVars, bookVars
<1>2. seen' = seen \/ (parked /\ seen' \subseteq seen \cup listed)
  BY DEF Seed, SeedFails
<1>3. seen' \subseteq ledger
  BY <1>1, <1>2 DEF TellInv, SeenInv, StartupInv
<1>4. Known' = Known /\ ~Streaming /\ ~Streaming'
  BY <1>1 DEF Known, Streaming
<1>5. StartupInv' /\ SeenInv'
  BY <1>1, <1>3 DEF StartupInv, SeenInv
<1>6. ToldInv'
  BY <1>1, <1>4 DEF TellInv, ToldInv, ToldOnce
<1>. QED  BY <1>5, <1>6 DEF TellInv

LEMMA TellAdopt ==
  ASSUME CursorInv, TellInv, Adopt
  PROVE  TellInv'
<1>1. /\ pc = "adopt" /\ pc' = "loop"
      /\ told' = [j \in Ids |-> told[j] + IF j \in ledger THEN 1 ELSE 0]
      /\ UNCHANGED <<execs, ledger, seen, found>>
  BY DEF Adopt, venueVars, bookVars, passVars
<1>2. found = {} /\ seen \subseteq ledger /\ ledger \subseteq Known
  BY <1>1 DEF TellInv, SeenInv, CursorInv, Shape
<1>3. Known' = Known /\ ~Streaming
  BY <1>1 DEF Known, Streaming
<1>4. StartupInv' /\ SeenInv'
  BY <1>1, <1>2 DEF StartupInv, SeenInv
<1>5. \A j \in Ids : told'[j] = IF j \in ledger THEN 1 ELSE 0
  BY <1>1, <1>3 DEF TellInv, ToldInv
<1>6. ToldInv'
  <2>1. told' \in [Ids -> Nat] /\ Known \subseteq Ids
    BY <1>1 DEF TellInv, ToldInv
  <2>2. ToldOnce'
    BY <1>1, <1>2, <1>3, <1>5, <2>1 DEF ToldOnce
  <2>3. Streaming' /\ \A j \in Ids : j \notin Known' => told'[j] = 0
    BY <1>1, <1>2, <1>3, <1>5 DEF Streaming
  <2>. QED  BY <1>3, <2>1, <2>2, <2>3 DEF ToldInv
<1>. QED  BY <1>4, <1>6 DEF TellInv

LEMMA TellCrash ==
  ASSUME TellInv, Crash
  PROVE  TellInv'
<1>1. /\ pc' = "down" /\ seen' = {} /\ found' = {} /\ told' = [j \in Ids |-> 0]
      /\ UNCHANGED <<execs, ledger>>
  BY DEF Crash, venueVars, bookVars
<1>2. Known' = Known /\ ~Streaming'
  BY <1>1 DEF Known, Streaming
<1>3. StartupInv' /\ SeenInv'
  BY <1>1 DEF StartupInv, SeenInv
<1>4. ToldInv'
  BY <1>1, <1>2 DEF TellInv, ToldInv, ToldOnce
<1>. QED  BY <1>3, <1>4 DEF TellInv

LEMMA TellStep ==
  ASSUME Beyond = {}, CursorInv, TellInv, [Next]_vars
  PROVE  TellInv'
<1>0. "clock" \notin Beyond
  OBVIOUS
<1>1. CASE Tick
  <2>1. UNCHANGED <<execs, listed, ledger, pc, read, parked, seen, told, found>>
    BY <1>1 DEF Tick, bookVars, sendVars, passVars
  <2>2. StartupInv'
    BY <2>1 DEF TellInv, StartupInv
  <2>. QED  BY <2>1, <2>2, TellCalm DEF Streaming
<1>2. CASE Execute
  BY <1>2, TellExecute
<1>3. CASE \E i \in Ids : List(i)
  <2>1. /\ UNCHANGED <<execs, ledger, pc, read, parked, seen, told, found>>
        /\ ~(pc \in {"startread", "seed"} /\ parked)
    BY <1>3 DEF List, bookVars, sendVars, passVars
  <2>2. StartupInv'
    BY <2>1 DEF StartupInv
  <2>. QED  BY <2>1, <2>2, TellCalm DEF Streaming
<1>4. CASE StartFetch
  <2>1. pc = "down" /\ pc' \in {"seed", "startread"}
        /\ UNCHANGED <<execs, listed, ledger, seen, told, found>>
    BY <1>4 DEF StartFetch, Begin, venueVars
  <2>2. CASE cursor = None
    <3>1. listed = {} /\ pc' = "seed"
      BY <1>4, <2>2 DEF StartFetch, CursorInv, Anchored, Shape, Known
    <3>2. StartupInv'
      BY <2>1, <3>1 DEF StartupInv
    <3>. QED  BY <2>1, <3>2, TellCalm DEF Streaming
  <2>3. CASE cursor # None
    <3>1. Begin("startread") /\ UNCHANGED <<venueVars, ledger>>
      BY <1>4, <2>3 DEF StartFetch
    <3>2. StartupInv'
      BY <1>0, <2>3, <3>1, StartupBegin
    <3>. QED  BY <2>1, <3>2, TellCalm DEF Streaming
  <2>. QED  BY <2>2, <2>3
<1>5. CASE StartPass \/ NextWindow
  <2>1. /\ pc \in {"loop", "fetch"} /\ pc' = "read"
        /\ UNCHANGED <<execs, ledger, seen, told, found>>
    BY <1>5 DEF StartPass, NextWindow, Begin, venueVars, bookVars
  <2>2. StartupInv'
    BY <2>1 DEF StartupInv
  <2>. QED  BY <2>1, <2>2, TellCalm DEF Streaming
<1>6. CASE Page
  <2>1. UNCHANGED <<execs, ledger, pc, seen, told, found>>
    BY <1>6 DEF Page, venueVars, bookVars
  <2>2. StartupInv'
    BY <1>0, <1>6, StartupPage
  <2>. QED  BY <2>1, <2>2, TellCalm DEF Streaming
<1>7. CASE Drained
  BY <1>0, <1>7, TellDrained
<1>8. CASE Undrained
  <2>1. /\ pc \in {"startread", "read"} /\ pc' = IF pc = "read" THEN "settle" ELSE "down"
        /\ UNCHANGED <<execs, seen, told>>
    BY <1>8 DEF Undrained, Reading, venueVars
  <2>2. PICK rows \in {{}, read.got} : Book(rows)
    BY <1>8 DEF Undrained
  <2>3. StartupInv' /\ (Streaming' <=> Streaming)
    BY <2>1 DEF StartupInv, Streaming
  <2>. QED  BY <2>1, <2>2, <2>3, TellBook
<1>9. CASE \E i \in Ids : Push(i)
  BY <1>9, TellPush
<1>10. CASE Send
  <2>1. Streaming /\ UNCHANGED <<execs, listed, ledger, pc, seen, told, found>>
    BY <1>10 DEF Send, venueVars, bookVars, passVars
  <2>2. StartupInv'
    BY <2>1 DEF StartupInv, Streaming
  <2>. QED  BY <2>1, <2>2, TellCalm DEF Streaming
<1>11. CASE Settle
  BY <1>11, TellSettle
<1>12. CASE Seed \/ SeedFails
  BY <1>12, TellSeed
<1>13. CASE Adopt
  BY <1>13, TellAdopt
<1>14. CASE Crash
  BY <1>14, TellCrash
<1>15. CASE UNCHANGED vars
  <2>1. UNCHANGED <<execs, listed, ledger, pc, read, parked, seen, told, found>>
    BY <1>15 DEF vars, venueVars, bookVars, sendVars, passVars
  <2>2. StartupInv'
    BY <2>1 DEF TellInv, StartupInv
  <2>. QED  BY <2>1, <2>2, TellCalm DEF Streaming
<1>. QED
  BY <1>1, <1>2, <1>3, <1>4, <1>5, <1>6, <1>7, <1>8, <1>9, <1>10, <1>11, <1>12, <1>13,
     <1>14, <1>15 DEF Next, Venue, Plugin

\* While the loop runs, the engine has taken each execution that is booked or seen into
\* its position once, and no other: by push, pass or adoption, through any number of
\* crashes, failed pages and lost pushes (events.py:587-597, 1702-1713, recovery.py:244-258).
THEOREM EveryExecutionToldOnce ==
  ASSUME Beyond = {}
  PROVE  Spec => []ToldOnce
<1>0. "clock" \notin Beyond
  OBVIOUS
<1>1. Init => CursorInv /\ TellInv
  BY <1>0, CursorStart, TellStart
<1>2. CursorInv /\ TellInv /\ [Next]_vars => (CursorInv /\ TellInv)'
  BY <1>0, CursorStep, TellStep
<1>3. CursorInv /\ TellInv => ToldOnce
  BY DEF TellInv, ToldInv
<1>. QED  BY <1>1, <1>2, <1>3, PTL DEF Spec
================================================================================
