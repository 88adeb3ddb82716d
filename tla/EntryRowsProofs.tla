--------------------------- MODULE EntryRowsProofs ---------------------------
(***************************************************************************)
(* Theorems about the journal rows of entries: types, the cursor, the room *)
(* of what is owed, and the exposure the rows own.  The folds the module   *)
(* books and nets with are first turned into functions that go stepwise    *)
(* (BookFold, ReduceFold); what follows argues about one step of them.     *)
(***************************************************************************)
EXTENDS EntryRows, FiniteSetTheorems, WellFoundedInduction, TLAPS

\* Induction over the natural numbers, as a statement about a set of them.
LEMMA EveryNat ==
  ASSUME NEW G, 0 \in G, \A n \in Nat : n \in G => n + 1 \in G
  PROVE  \A n \in Nat : n \in G
<1>. DEFINE Bad == {n \in Nat : n \notin G}
<1>1. SUFFICES ASSUME Bad # {}
               PROVE  FALSE
  OBVIOUS
<1>2. PICK m \in Bad : \A k \in Bad : ~(<<k, m>> \in OpToRel(<, Nat))
  <2>1. Bad \subseteq Nat
    OBVIOUS
  <2>. HIDE DEF Bad
  <2>. QED  BY <1>1, <2>1, WFMin, NatLessThanWellFounded
<1>3. ASSUME NEW k \in Nat, NEW n \in Nat, k < n
      PROVE  <<k, n>> \in OpToRel(<, Nat)
  BY <1>3, Zenon DEF OpToRel
<1>4. \A k \in Bad : ~(k < m)
  BY <1>2, <1>3
<1>5. m \in Nat /\ m # 0 /\ m \notin G
  OBVIOUS
<1>6. m - 1 \in Nat /\ m - 1 < m
  BY <1>5
<1>7. m - 1 \in G
  BY <1>4, <1>6
<1>. QED  BY <1>5, <1>6, <1>7

\* The largest of some numbers below n.
LEMMA LargestOf ==
  ASSUME NEW n \in Nat, NEW s \in SUBSET (1 .. n), s # {}
  PROVE  Max(s) \in s /\ \A x \in s : Max(s) >= x
<1>. DEFINE G == {k \in Nat : \A t \in SUBSET (1 .. k) : t # {} => \E x \in t : \A y \in t : x >= y}
<1>1. 0 \in G
  <2>1. 1 .. 0 = {}
    OBVIOUS
  <2>2. \A t \in SUBSET (1 .. 0) : t = {}
    BY <2>1
  <2>. QED  BY <2>2
<1>2. ASSUME NEW k \in Nat, k \in G
      PROVE  k + 1 \in G
  <2>. SUFFICES ASSUME NEW t \in SUBSET (1 .. k + 1), t # {}
                PROVE  \E x \in t : \A y \in t : x >= y
    OBVIOUS
  <2>1. CASE k + 1 \in t
    BY <2>1
  <2>2. CASE k + 1 \notin t
    <3>1. t \in SUBSET (1 .. k)
      BY <2>2
    <3>. QED  BY <1>2, <3>1
  <2>. QED  BY <2>1, <2>2
<1>3. n \in G
  <2>. HIDE DEF G
  <2>. QED  BY <1>1, <1>2, EveryNat
<1>4. \E x \in s : \A y \in s : x >= y
  BY <1>3
<1>. QED  BY <1>4, Zenon DEF Max

LEMMA LargestOfAll ==
  ASSUME NEW n \in Nat, NEW k \in 1 .. n
  PROVE  Max(1 .. k) = k /\ (1 .. k) \ {k} = 1 .. (k - 1) /\ (1 .. k) # {}
<1>1. 1 .. k \in SUBSET (1 .. n) /\ k \in 1 .. k
  OBVIOUS
<1>2. Max(1 .. k) \in 1 .. k /\ Max(1 .. k) >= k
  BY <1>1, LargestOf
<1>. QED  BY <1>2

(***************************************************************************)
(* A fold over 1 .. n whose steps are functions.                           *)
(***************************************************************************)
Rest(s) == s \ {Max(s)}
Unrolled(T, base, s, g) == IF s = {} THEN base ELSE T[Max(s)][g[Rest(s)]]

Iterated(T, base, n, A, g) ==
    g \in [SUBSET (1 .. n) -> A] /\ \A s \in SUBSET (1 .. n) : g[s] = Unrolled(T, base, s, g)

LEMMA Iterates ==
  ASSUME NEW A, NEW base \in A, NEW n \in Nat, NEW T \in [1 .. n -> [A -> A]]
  PROVE  \E g : Iterated(T, base, n, A, g)
<1>. DEFINE S == 1 .. n
            D(k) == {s \in SUBSET S : Cardinality(s) <= k}
            On(k, g) == g \in [D(k) -> A] /\ \A s \in D(k) : g[s] = Unrolled(T, base, s, g)
            G == {k \in Nat : \E g : On(k, g)}
<1>1. IsFiniteSet(S) /\ \A s \in SUBSET S : IsFiniteSet(s) /\ Cardinality(s) \in Nat
  <2>1. IsFiniteSet(S)
    BY FS_Interval
  <2>. QED  BY <2>1, FS_Subset, FS_CardinalityType
<1>2. ASSUME NEW s \in SUBSET S, s # {}
      PROVE  Max(s) \in S /\ Rest(s) \in SUBSET S /\ Cardinality(Rest(s)) = Cardinality(s) - 1
  <2>1. Max(s) \in s
    BY <1>2, LargestOf
  <2>. QED  BY <1>1, <2>1, FS_RemoveElement DEF Rest
<1>3. 0 \in G
  <2>. DEFINE g == [s \in D(0) |-> base]
  <2>1. \A s \in D(0) : s = {}
    BY <1>1, FS_EmptySet
  <2>2. \A s \in D(0) : g[s] = Unrolled(T, base, s, g)
    BY <2>1 DEF Unrolled
  <2>3. On(0, g)
    BY <2>2
  <2>. QED  BY <2>3
<1>4. ASSUME NEW k \in Nat, k \in G
      PROVE  k + 1 \in G
  <2>1. PICK g : On(k, g)
    BY <1>4
  <2>. DEFINE h == [s \in D(k + 1) |-> Unrolled(T, base, s, g)]
  <2>2. \A s \in D(k + 1) : s # {} => Rest(s) \in D(k) /\ Max(s) \in S
    BY <1>1, <1>2
  <2>3. D(k) \subseteq D(k + 1)
    BY <1>1
  <2>4. \A s \in D(k) : h[s] = g[s]
    BY <2>1, <2>3
  <2>5. \A s \in D(k + 1) : Unrolled(T, base, s, h) = Unrolled(T, base, s, g)
    <3>. HIDE DEF h, D
    <3>. SUFFICES ASSUME NEW s \in D(k + 1)
                  PROVE  Unrolled(T, base, s, h) = Unrolled(T, base, s, g)
      OBVIOUS
    <3>1. s # {} => h[Rest(s)] = g[Rest(s)]
      BY <2>2, <2>4
    <3>. QED  BY <3>1 DEF Unrolled
  <2>6. \A s \in D(k + 1) : Unrolled(T, base, s, g) \in A
    <3>. SUFFICES ASSUME NEW s \in D(k + 1), s # {}
                  PROVE  T[Max(s)][g[Rest(s)]] \in A
      BY DEF Unrolled
    <3>1. g[Rest(s)] \in A /\ T[Max(s)] \in [A -> A]
      BY <2>1, <2>2
    <3>. QED  BY <3>1
  <2>7. On(k + 1, h)
    BY <2>5, <2>6
  <2>. HIDE DEF On, h
  <2>. QED  BY <2>7
<1>5. \E g : On(Cardinality(S), g)
  <2>. HIDE DEF G
  <2>1. \A k \in Nat : k \in G
    BY <1>3, <1>4, EveryNat
  <2>. QED  BY <1>1, <2>1 DEF G
<1>6. D(Cardinality(S)) = SUBSET S
  BY <1>1, FS_Subset
<1>. QED  BY <1>5, <1>6 DEF Iterated

(***************************************************************************)
(* The folds of the module, step by step.                                  *)
(***************************************************************************)
\* What a row may be in the middle of a booking.
LooseRow == [open : BOOLEAN, qty : Int, filled : Int, netted : Int, flagged : BOOLEAN,
             known : BOOLEAN]
LooseRows == [Rows -> LooseRow]
Account == [row : LooseRows, last : Nat]

LEMMA NetKeepsLoose ==
  ASSUME NEW x \in LooseRow
  PROVE  NetEntryRow(x) \in LooseRow /\ FillRow(x) \in LooseRow
<1>1. [x EXCEPT !.open = FALSE] \in LooseRow
  BY DEF LooseRow
<1>2. [x EXCEPT !.qty = @ - 1, !.filled = @ - 1, !.netted = @ + 1] \in LooseRow
  <2>1. x.qty - 1 \in Int /\ x.filled - 1 \in Int /\ x.netted + 1 \in Int
    BY DEF LooseRow
  <2>. QED  BY <2>1 DEF LooseRow
<1>3. NetEntryRow(x) \in LooseRow
  BY <1>1, <1>2 DEF NetEntryRow
<1>4. (IF x.filled = x.qty THEN x.filled ELSE x.filled + 1) \in Int
  BY DEF LooseRow
<1>5. FillRow(x) \in LooseRow
  BY <1>4 DEF FillRow, LooseRow
<1>. QED  BY <1>3, <1>5

LEMMA ReduceKeepsLoose ==
  ASSUME NEW rows \in LooseRows, NEW s
  PROVE  ReduceOwnership(rows, s) \in LooseRows
<1>1. CASE Owning(rows, s) = {}
  BY <1>1 DEF ReduceOwnership
<1>2. CASE Owning(rows, s) # {}
  <2>. DEFINE oldest == CHOOSE r \in Owning(rows, s) : TRUE
  <2>1. oldest \in Rows
    BY <1>2 DEF Owning
  <2>. HIDE DEF oldest
  <2>2. rows[oldest] \in LooseRow /\ NetEntryRow(rows[oldest]) \in LooseRow
    BY <2>1, NetKeepsLoose DEF LooseRows
  <2>3. ReduceOwnership(rows, s) = [rows EXCEPT ![oldest] = NetEntryRow(rows[oldest])]
    BY <1>2 DEF ReduceOwnership, oldest
  <2>. QED  BY <2>1, <2>2, <2>3 DEF LooseRows
<1>. QED  BY <1>1, <1>2

LEMMA BookKeepsLoose ==
  ASSUME execs \in Seq(Rows \cup Sides), NEW entries, NEW barrier, NEW acc \in Account,
         NEW e \in Ids
  PROVE  BookOne(entries, barrier, acc, e) \in Account
<1>1. execs[e] \in Rows \cup Sides /\ e \in Nat
  BY DEF Ids
<1>2. BookExecution(acc.row, e) \in LooseRows
  <2>1. CASE execs[e] \in Sides
    BY <2>1, ReduceKeepsLoose DEF BookExecution, Account
  <2>2. CASE execs[e] \notin Sides
    <3>1. execs[e] \in Rows /\ acc.row \in LooseRows /\ acc.row[execs[e]] \in LooseRow
      BY <1>1, <2>2 DEF Account, LooseRows
    <3>2. FillRow(acc.row[execs[e]]) \in LooseRow
      BY <3>1, NetKeepsLoose
    <3>3. BookExecution(acc.row, e)
            = [acc.row EXCEPT ![execs[e]] = FillRow(acc.row[execs[e]])]
      BY <2>2 DEF BookExecution
    <3>. QED  BY <3>1, <3>2, <3>3 DEF LooseRows
  <2>. QED  BY <2>1, <2>2
<1>. QED  BY <1>1, <1>2 DEF BookOne, Account

BookStep(entries, barrier, s, g) ==
    IF s = {} THEN [row |-> row, last |-> 0]
    ELSE BookOne(entries, barrier, g[Rest(s)], InOrder[Max(s)])
Books(entries, barrier, g) ==
    g = [s \in SUBSET DOMAIN InOrder |-> BookStep(entries, barrier, s, g)]
BookFold(entries, barrier) == CHOOSE g : Books(entries, barrier, g)

LEMMA BookedIsFold ==
  ASSUME NEW entries, NEW barrier
  PROVE  Booked(entries, barrier) = BookFold(entries, barrier)[DOMAIN InOrder]
BY DEF Booked, FoldLeft, MapThenFoldSet, BookFold, Books, BookStep, Rest

\* Booking, one execution after the other.
BookedUpTo(entries, barrier, F) ==
    /\ F \in [0 .. Len(execs) -> Account]
    /\ F[0] = [row |-> row, last |-> 0]
    /\ \A k \in Ids : F[k] = BookOne(entries, barrier, F[k - 1], k)
    /\ Booked(entries, barrier) = F[Len(execs)]

LEMMA BookedStepwise ==
  ASSUME execs \in Seq(Rows \cup Sides), row \in LooseRows, NEW entries, NEW barrier
  PROVE  \E F : BookedUpTo(entries, barrier, F)
<1>. DEFINE n == Len(execs)
            base == [row |-> row, last |-> 0]
            T == [k \in 1 .. n |-> [acc \in Account |-> BookOne(entries, barrier, acc, k)]]
<1>1. n \in Nat /\ Ids = 1 .. n /\ DOMAIN InOrder = 1 .. n
      /\ \A k \in 1 .. n : InOrder[k] = k
  BY DEF Ids, InOrder
<1>. HIDE DEF n
<1>2. base \in Account
  BY DEF Account
<1>3. T \in [1 .. n -> [Account -> Account]]
  BY <1>1, BookKeepsLoose
<1>4. PICK h : Iterated(T, base, n, Account, h)
  <2>. HIDE DEF T, base
  <2>1. n \in Nat
    BY <1>1
  <2>. QED  BY <1>2, <1>3, <2>1, Iterates
<1>5. ASSUME NEW s \in SUBSET (1 .. n), s # {}
      PROVE  Max(s) \in 1 .. n /\ Rest(s) \in SUBSET (1 .. n)
  <2>1. Max(s) \in s
    BY <1>1, <1>5, LargestOf
  <2>. QED  BY <2>1 DEF Rest
<1>6. \A s \in SUBSET (1 .. n) : h[s] = BookStep(entries, barrier, s, h)
  <2>. SUFFICES ASSUME NEW s \in SUBSET (1 .. n)
                PROVE  h[s] = BookStep(entries, barrier, s, h)
    OBVIOUS
  <2>1. s # {} => h[Rest(s)] \in Account
    BY <1>4, <1>5 DEF Iterated
  <2>2. s # {} => T[Max(s)][h[Rest(s)]] = BookOne(entries, barrier, h[Rest(s)], Max(s))
    BY <1>5, <2>1
  <2>. HIDE DEF T
  <2>. QED  BY <1>1, <1>4, <1>5, <2>2 DEF Unrolled, BookStep, Iterated
<1>7. Books(entries, barrier, h)
  BY <1>1, <1>4, <1>6 DEF Books, Iterated
<1>8. Books(entries, barrier, BookFold(entries, barrier))
  BY <1>7 DEF BookFold
<1>. DEFINE g == BookFold(entries, barrier)
            F == [k \in 0 .. n |-> g[1 .. k]]
<1>9. \A s \in SUBSET (1 .. n) : g[s] = BookStep(entries, barrier, s, g)
  <2>. HIDE DEF g
  <2>. QED  BY <1>1, <1>8 DEF Books, g
<1>. HIDE DEF g
<1>10. F[0] = base
  <2>1. 1 .. 0 = {} /\ {} \in SUBSET (1 .. n)
    OBVIOUS
  <2>2. g[{}] = base
    BY <1>9, <2>1 DEF BookStep
  <2>3. F[0] = g[1 .. 0]
    BY <1>1
  <2>. QED  BY <2>1, <2>2, <2>3
<1>11. \A k \in 1 .. n : F[k] = BookOne(entries, barrier, F[k - 1], k)
  <2>. SUFFICES ASSUME NEW k \in 1 .. n
                PROVE  F[k] = BookOne(entries, barrier, F[k - 1], k)
    OBVIOUS
  <2>1. Max(1 .. k) = k /\ Rest(1 .. k) = 1 .. (k - 1) /\ 1 .. k # {}
    BY <1>1, LargestOfAll DEF Rest
  <2>2. 1 .. k \in SUBSET (1 .. n) /\ k \in 0 .. n /\ k - 1 \in 0 .. n
    BY <1>1
  <2>3. g[1 .. k] = BookOne(entries, barrier, g[1 .. (k - 1)], k)
    BY <1>1, <1>9, <2>1, <2>2 DEF BookStep
  <2>. QED  BY <2>2, <2>3
<1>12. F \in [0 .. n -> Account]
  <2>. DEFINE G == {k \in Nat : k <= n => F[k] \in Account}
  <2>1. 0 \in G
    BY <1>2, <1>10
  <2>2. \A k \in Nat : k \in G => k + 1 \in G
    <3>. SUFFICES ASSUME NEW k \in Nat, k \in G, k + 1 <= n
                  PROVE  F[k + 1] \in Account
      OBVIOUS
    <3>1. F[k] \in Account /\ k + 1 \in 1 .. n /\ (k + 1) - 1 = k
      BY <1>1
    <3>2. F[k + 1] = BookOne(entries, barrier, F[k], k + 1)
      BY <1>11, <3>1
    <3>. HIDE DEF F
    <3>. QED  BY <1>1, <3>1, <3>2, BookKeepsLoose
  <2>3. \A k \in Nat : k \in G
    <3>. HIDE DEF G
    <3>. QED  BY <2>1, <2>2, EveryNat
  <2>4. \A k \in 0 .. n : F[k] \in Account
    <3>. HIDE DEF F
    <3>1. \A k \in 0 .. n : k \in Nat /\ k <= n
      BY <1>1
    <3>. QED  BY <2>3, <3>1
  <2>. QED  BY <2>4
<1>13. Booked(entries, barrier) = F[n]
  BY <1>1, BookedIsFold DEF g
<1>14. BookedUpTo(entries, barrier, F)
  <2>. HIDE DEF F
  <2>. QED  BY <1>1, <1>10, <1>11, <1>12, <1>13 DEF BookedUpTo, n
<1>. QED  BY <1>14

ReduceStep(rows, sides, s, g) ==
    IF s = {} THEN rows
    ELSE ReduceOwnership(g[Rest(s)], sides[Max(s)])
Reduces(rows, sides, g) ==
    g = [s \in SUBSET DOMAIN sides |-> ReduceStep(rows, sides, s, g)]
ReduceFold(rows, sides) == CHOOSE g : Reduces(rows, sides, g)

LEMMA ReduceIsFold ==
  ASSUME NEW rows \in LooseRows, NEW sides
  PROVE  ReduceAll(rows, sides) = ReduceFold(rows, sides)[DOMAIN sides]
BY DEF ReduceAll, FoldLeft, MapThenFoldSet, ReduceFold, Reduces, ReduceStep, Rest

\* Reducing, one execution after the other.
ReducedUpTo(rows, sides, F) ==
    /\ F \in [0 .. Len(sides) -> LooseRows]
    /\ F[0] = rows
    /\ \A k \in 1 .. Len(sides) : F[k] = ReduceOwnership(F[k - 1], sides[k])
    /\ ReduceAll(rows, sides) = F[Len(sides)]

LEMMA ReduceStepwise ==
  ASSUME NEW rows \in LooseRows, NEW X, NEW sides \in Seq(X)
  PROVE  \E F : ReducedUpTo(rows, sides, F)
<1>. DEFINE n == Len(sides)
            base == rows
            T == [k \in 1 .. n |-> [acc \in LooseRows |-> ReduceOwnership(acc, sides[k])]]
<1>1. n \in Nat /\ DOMAIN sides = 1 .. n
  OBVIOUS
<1>. HIDE DEF n
<1>2. base \in LooseRows
  OBVIOUS
<1>3. T \in [1 .. n -> [LooseRows -> LooseRows]]
  BY <1>1, ReduceKeepsLoose
<1>4. PICK h : Iterated(T, base, n, LooseRows, h)
  <2>. HIDE DEF T, base
  <2>1. n \in Nat
    BY <1>1
  <2>. QED  BY <1>2, <1>3, <2>1, Iterates
<1>5. ASSUME NEW s \in SUBSET (1 .. n), s # {}
      PROVE  Max(s) \in 1 .. n /\ Rest(s) \in SUBSET (1 .. n)
  <2>1. Max(s) \in s
    BY <1>1, <1>5, LargestOf
  <2>. QED  BY <2>1 DEF Rest
<1>6. \A s \in SUBSET (1 .. n) : h[s] = ReduceStep(rows, sides, s, h)
  <2>. SUFFICES ASSUME NEW s \in SUBSET (1 .. n)
                PROVE  h[s] = ReduceStep(rows, sides, s, h)
    OBVIOUS
  <2>1. s # {} => h[Rest(s)] \in LooseRows
    BY <1>4, <1>5 DEF Iterated
  <2>2. s # {} => T[Max(s)][h[Rest(s)]] = ReduceOwnership(h[Rest(s)], sides[Max(s)])
    BY <1>5, <2>1
  <2>. HIDE DEF T
  <2>. QED  BY <1>1, <1>4, <1>5, <2>2 DEF Unrolled, ReduceStep, Iterated
<1>7. Reduces(rows, sides, h)
  BY <1>1, <1>4, <1>6 DEF Reduces, Iterated
<1>8. Reduces(rows, sides, ReduceFold(rows, sides))
  BY <1>7 DEF ReduceFold
<1>. DEFINE g == ReduceFold(rows, sides)
            F == [k \in 0 .. n |-> g[1 .. k]]
<1>9. \A s \in SUBSET (1 .. n) : g[s] = ReduceStep(rows, sides, s, g)
  <2>. HIDE DEF g
  <2>. QED  BY <1>1, <1>8 DEF Reduces, g
<1>. HIDE DEF g
<1>10. F[0] = base
  <2>1. 1 .. 0 = {} /\ {} \in SUBSET (1 .. n)
    OBVIOUS
  <2>2. g[{}] = base
    BY <1>9, <2>1 DEF ReduceStep
  <2>3. F[0] = g[1 .. 0]
    BY <1>1
  <2>. QED  BY <2>1, <2>2, <2>3
<1>11. \A k \in 1 .. n : F[k] = ReduceOwnership(F[k - 1], sides[k])
  <2>. SUFFICES ASSUME NEW k \in 1 .. n
                PROVE  F[k] = ReduceOwnership(F[k - 1], sides[k])
    OBVIOUS
  <2>1. Max(1 .. k) = k /\ Rest(1 .. k) = 1 .. (k - 1) /\ 1 .. k # {}
    BY <1>1, LargestOfAll DEF Rest
  <2>2. 1 .. k \in SUBSET (1 .. n) /\ k \in 0 .. n /\ k - 1 \in 0 .. n
    BY <1>1
  <2>3. g[1 .. k] = ReduceOwnership(g[1 .. (k - 1)], sides[k])
    BY <1>1, <1>9, <2>1, <2>2 DEF ReduceStep
  <2>. QED  BY <2>2, <2>3
<1>12. F \in [0 .. n -> LooseRows]
  <2>. DEFINE G == {k \in Nat : k <= n => F[k] \in LooseRows}
  <2>1. 0 \in G
    BY <1>2, <1>10
  <2>2. \A k \in Nat : k \in G => k + 1 \in G
    <3>. SUFFICES ASSUME NEW k \in Nat, k \in G, k + 1 <= n
                  PROVE  F[k + 1] \in LooseRows
      OBVIOUS
    <3>1. F[k] \in LooseRows /\ k + 1 \in 1 .. n /\ (k + 1) - 1 = k
      BY <1>1
    <3>2. F[k + 1] = ReduceOwnership(F[k], sides[k + 1])
      BY <1>11, <3>1
    <3>. HIDE DEF F
    <3>. QED  BY <1>1, <3>1, <3>2, ReduceKeepsLoose
  <2>3. \A k \in Nat : k \in G
    <3>. HIDE DEF G
    <3>. QED  BY <2>1, <2>2, EveryNat
  <2>4. \A k \in 0 .. n : F[k] \in LooseRows
    <3>. HIDE DEF F
    <3>1. \A k \in 0 .. n : k \in Nat /\ k <= n
      BY <1>1
    <3>. QED  BY <2>3, <3>1
  <2>. QED  BY <2>4
<1>13. ReduceAll(rows, sides) = F[n]
  BY <1>1, ReduceIsFold DEF g
<1>14. ReducedUpTo(rows, sides, F)
  <2>. HIDE DEF F
  <2>. QED  BY <1>1, <1>10, <1>11, <1>12, <1>13 DEF ReducedUpTo, n
<1>. QED  BY <1>14

(***************************************************************************)
(* The inductive invariant of the cursor.                                  *)
(***************************************************************************)
OfRow(r) == {e \in Ids : execs[e] = r}

\* The executions of an order are at most its size, and all of it once it filled.
VenueInv ==
    /\ execs \in Seq(Rows \cup Sides) /\ Len(execs) <= MaxExecs
    /\ status \in [Rows -> {"live", "filled", "dead"}]
    /\ \A r \in Rows : /\ CumExec(r) <= Size
                       /\ status[r] = "live" => CumExec(r) < Size
                       /\ status[r] = "filled" => CumExec(r) = Size

\* What a row is in relation to the executions S booked: an open one counts them and
\* keeps room for the others, a closed one has none to come.
Record == [open : BOOLEAN, qty : 0 .. Size, filled : 0 .. Size, netted : 0 .. Size,
           flagged : BOOLEAN, known : BOOLEAN]
RowOk(x, r, S) ==
    /\ x \in Record
    /\ x.open => /\ x.filled <= x.qty /\ x.qty + x.netted <= Size
                 /\ VenueFilled(x) = Cardinality(OfRow(r) \cap S)
                 /\ CumExec(r) <= x.qty + x.netted
    /\ ~x.open => status[r] # "live" /\ OfRow(r) \subseteq S
    /\ status[r] = "live" => x.qty + x.netted = Size
RowsOk(rows, S) == rows \in [Rows -> Record] /\ \A r \in Rows : RowOk(rows[r], r, S)

(***************************************************************************)
(* Counting executions.                                                    *)
(***************************************************************************)
LEMMA Counted ==
  ASSUME execs \in Seq(Rows \cup Sides), NEW r, NEW S
  PROVE  /\ CumExec(r) \in Nat /\ CumExec(r) = Cardinality(OfRow(r))
         /\ IsFiniteSet(OfRow(r) \cap S)
         /\ Cardinality(OfRow(r) \cap S) \in Nat /\ Cardinality(OfRow(r) \cap S) <= CumExec(r)
         /\ Cardinality(OfRow(r) \cap S) = CumExec(r) => OfRow(r) \subseteq S
         /\ OfRow(r) \subseteq S => Cardinality(OfRow(r) \cap S) = CumExec(r)
<1>1. Len(execs) \in Nat /\ Len(execs) \in Int /\ 1 \in Int
  OBVIOUS
<1>2. IsFiniteSet(Ids)
  BY <1>1, FS_Interval DEF Ids
<1>3. OfRow(r) \in SUBSET Ids /\ OfRow(r) \cap S \in SUBSET OfRow(r)
  BY DEF OfRow
<1>4. IsFiniteSet(OfRow(r))
  BY <1>2, <1>3, FS_Subset
<1>5. IsFiniteSet(OfRow(r) \cap S) /\ Cardinality(OfRow(r) \cap S) <= Cardinality(OfRow(r))
      /\ (Cardinality(OfRow(r)) = Cardinality(OfRow(r) \cap S) => OfRow(r) = OfRow(r) \cap S)
  BY <1>3, <1>4, FS_Subset
<1>6. Cardinality(OfRow(r)) \in Nat /\ Cardinality(OfRow(r) \cap S) \in Nat
  BY <1>4, <1>5, FS_CardinalityType
<1>7. CumExec(r) = Cardinality(OfRow(r))
  BY DEF CumExec, CountUpTo, OfRow, Ids
<1>8. OfRow(r) \subseteq S => OfRow(r) \cap S = OfRow(r)
  OBVIOUS
<1>. QED  BY <1>5, <1>6, <1>7, <1>8

LEMMA CountedOne ==
  ASSUME execs \in Seq(Rows \cup Sides), NEW r, NEW S, NEW e \in Ids, e \notin S
  PROVE  Cardinality(OfRow(r) \cap (S \cup {e}))
           = IF execs[e] = r THEN Cardinality(OfRow(r) \cap S) + 1 ELSE Cardinality(OfRow(r) \cap S)
<1>1. IsFiniteSet(OfRow(r) \cap S)
  BY Counted
<1>2. CASE execs[e] = r
  <2>1. OfRow(r) \cap (S \cup {e}) = (OfRow(r) \cap S) \cup {e} /\ e \notin OfRow(r) \cap S
    BY <1>2 DEF OfRow
  <2>. QED  BY <1>1, <1>2, <2>1, FS_AddElement
<1>3. CASE execs[e] # r
  <2>1. OfRow(r) \cap (S \cup {e}) = OfRow(r) \cap S
    BY <1>3 DEF OfRow
  <2>. QED  BY <1>3, <2>1
<1>. QED  BY <1>2, <1>3

(***************************************************************************)
(* What the operations do to one row.                                      *)
(***************************************************************************)
\* A row without a remainder is owed nothing, and its order has ended.
LEMMA FullIsDone ==
  ASSUME VenueInv, NEW r \in Rows, NEW x, NEW S, RowOk(x, r, S), x.open, x.filled >= x.qty
  PROVE  status[r] # "live" /\ OfRow(r) \subseteq S /\ x.filled = x.qty
<1>. DEFINE n == Cardinality(OfRow(r) \cap S)
            c == CumExec(r)
<1>1. n \in Nat /\ c \in Nat /\ n <= c /\ (n = c => OfRow(r) \subseteq S)
  BY Counted DEF VenueInv
<1>2. x.filled \in Nat /\ x.qty \in Nat /\ x.netted \in Nat
  BY DEF RowOk, Record
<1>3. x.filled + x.netted = n /\ x.filled <= x.qty /\ c <= x.qty + x.netted
  BY DEF RowOk, VenueFilled
<1>4. status[r] = "live" => c < Size /\ x.qty + x.netted = Size
  BY DEF RowOk, VenueInv
<1>. HIDE DEF n, c
<1>5. Size \in Nat
  BY EntryRowsAssumption
<1>. QED  BY <1>1, <1>2, <1>3, <1>4, <1>5

LEMMA NetKeepsRow ==
  ASSUME VenueInv, NEW r \in Rows, NEW x, NEW S, RowOk(x, r, S), x.open, x.filled > 0
  PROVE  RowOk(NetEntryRow(x), r, S)
<1>1. Size \in Nat /\ x \in Record
  BY EntryRowsAssumption DEF RowOk
<1>2. x.filled \in Nat /\ x.qty \in Nat /\ x.netted \in Nat /\ x.filled <= x.qty
      /\ x.qty + x.netted <= Size
  BY <1>1 DEF RowOk, Record
<1>3. CASE x.qty = 1
  <2>1. status[r] # "live" /\ OfRow(r) \subseteq S
    BY <1>2, <1>3, FullIsDone
  <2>2. NetEntryRow(x) = [x EXCEPT !.open = FALSE]
    BY <1>3 DEF NetEntryRow
  <2>. DEFINE y == [x EXCEPT !.open = FALSE]
  <2>3. y \in Record /\ ~y.open
    BY <1>1 DEF Record
  <2>. HIDE DEF y
  <2>. QED  BY <2>1, <2>2, <2>3 DEF RowOk, y
<1>4. CASE x.qty # 1
  <2>. DEFINE y == [x EXCEPT !.qty = @ - 1, !.filled = @ - 1, !.netted = @ + 1]
  <2>1. NetEntryRow(x) = y
    BY <1>4 DEF NetEntryRow
  <2>2. x.qty - 1 \in 0 .. Size /\ x.filled - 1 \in 0 .. Size /\ x.netted + 1 \in 0 .. Size
    BY <1>1, <1>2
  <2>3. y \in Record /\ y.open = x.open /\ y.qty = x.qty - 1 /\ y.filled = x.filled - 1
        /\ y.netted = x.netted + 1
    BY <1>1, <2>2 DEF Record
  <2>. HIDE DEF y
  <2>4. VenueFilled(y) = VenueFilled(x) /\ y.qty + y.netted = x.qty + x.netted
        /\ y.filled <= y.qty
    BY <1>2, <2>3 DEF VenueFilled
  <2>. QED  BY <2>1, <2>3, <2>4 DEF RowOk
<1>. QED  BY <1>3, <1>4

LEMMA ReduceKeepsRows ==
  ASSUME VenueInv, NEW rows, NEW S, NEW s, RowsOk(rows, S)
  PROVE  RowsOk(ReduceOwnership(rows, s), S)
<1>1. CASE Owning(rows, s) = {}
  BY <1>1 DEF ReduceOwnership
<1>2. CASE Owning(rows, s) # {}
  <2>. DEFINE oldest == CHOOSE r \in Owning(rows, s) : TRUE
              y == NetEntryRow(rows[oldest])
  <2>1. oldest \in Owning(rows, s)
    BY <1>2
  <2>2. ReduceOwnership(rows, s) = [rows EXCEPT ![oldest] = y]
    BY <1>2 DEF ReduceOwnership
  <2>. HIDE DEF oldest
  <2>3. oldest \in Rows /\ rows[oldest].open /\ rows[oldest].filled > 0
    BY <2>1 DEF Owning
  <2>4. RowOk(y, oldest, S)
    BY <2>3, NetKeepsRow DEF RowsOk
  <2>. HIDE DEF y
  <2>5. y \in Record
    BY <2>4 DEF RowOk
  <2>. QED  BY <2>2, <2>3, <2>4, <2>5 DEF RowsOk
<1>. QED  BY <1>1, <1>2

\* An execution nobody booked finds its row open and with room.
LEMMA RoomForOne ==
  ASSUME VenueInv, NEW r \in Rows, NEW x, NEW S, RowOk(x, r, S), NEW e \in Ids, e \notin S,
         execs[e] = r
  PROVE  x.open /\ x.filled < x.qty
<1>1. e \in OfRow(r)
  BY DEF OfRow
<1>2. x.open
  BY <1>1 DEF RowOk
<1>3. x.filled \in Nat /\ x.qty \in Nat
  BY DEF RowOk, Record
<1>. QED  BY <1>1, <1>2, <1>3, FullIsDone

LEMMA FillKeepsRow ==
  ASSUME VenueInv, NEW r \in Rows, NEW x, NEW S, RowOk(x, r, S), NEW e \in Ids, e \notin S,
         execs[e] = r
  PROVE  RowOk(FillRow(x), r, S \cup {e})
<1>1. x.open /\ x.filled < x.qty
  BY RoomForOne
<1>2. x \in Record /\ x.filled \in Nat /\ x.qty \in 0 .. Size /\ x.netted \in Nat /\ Size \in Nat
  BY EntryRowsAssumption DEF RowOk, Record
<1>. DEFINE y == [x EXCEPT !.filled = x.filled + 1]
<1>3. FillRow(x) = y
  BY <1>1, <1>2 DEF FillRow
<1>4. x.filled + 1 \in 0 .. Size /\ x.filled + 1 <= x.qty
  BY <1>1, <1>2
<1>5. y \in Record /\ y.open = x.open /\ y.qty = x.qty /\ y.filled = x.filled + 1
      /\ y.netted = x.netted
  BY <1>2, <1>4 DEF Record
<1>. HIDE DEF y
<1>6. Cardinality(OfRow(r) \cap (S \cup {e})) = Cardinality(OfRow(r) \cap S) + 1
  BY CountedOne DEF VenueInv
<1>7. VenueFilled(y) = Cardinality(OfRow(r) \cap (S \cup {e}))
  <2>1. VenueFilled(x) = Cardinality(OfRow(r) \cap S)
    BY <1>1 DEF RowOk
  <2>. QED  BY <1>2, <1>5, <1>6, <2>1 DEF VenueFilled
<1>. QED  BY <1>1, <1>3, <1>4, <1>5, <1>7 DEF RowOk

LEMMA OtherKeepsRow ==
  ASSUME VenueInv, NEW r \in Rows, NEW x, NEW S, RowOk(x, r, S), NEW e \in Ids, e \notin S,
         execs[e] # r
  PROVE  RowOk(x, r, S \cup {e})
<1>1. Cardinality(OfRow(r) \cap (S \cup {e})) = Cardinality(OfRow(r) \cap S)
  BY CountedOne DEF VenueInv
<1>. QED  BY <1>1 DEF RowOk

LEMMA BookKeepsRows ==
  ASSUME VenueInv, NEW rows, NEW S, RowsOk(rows, S), NEW e \in Ids, e \notin S
  PROVE  RowsOk(BookExecution(rows, e), S \cup {e})
<1>1. execs[e] \in Rows \cup Sides
  BY DEF VenueInv, Ids
<1>2. CASE execs[e] \in Sides
  <2>1. execs[e] \notin Rows
    BY <1>2, EntryRowsAssumption DEF Sides
  <2>2. RowsOk(rows, S \cup {e})
    BY <2>1, OtherKeepsRow DEF RowsOk
  <2>. QED  BY <1>2, <2>2, ReduceKeepsRows DEF BookExecution
<1>3. CASE execs[e] \notin Sides
  <2>. DEFINE r == execs[e]
              y == FillRow(rows[r])
  <2>1. r \in Rows /\ BookExecution(rows, e) = [rows EXCEPT ![r] = y]
    BY <1>1, <1>3 DEF BookExecution
  <2>2. RowOk(y, r, S \cup {e})
    BY <2>1, FillKeepsRow DEF RowsOk
  <2>3. \A q \in Rows \ {r} : RowOk(rows[q], q, S \cup {e})
    BY OtherKeepsRow DEF RowsOk
  <2>. HIDE DEF y
  <2>4. y \in Record
    BY <2>2 DEF RowOk
  <2>. QED  BY <2>1, <2>2, <2>3, <2>4 DEF RowsOk
<1>. QED  BY <1>2, <1>3

(***************************************************************************)
(* Booking a set of executions.                                            *)
(***************************************************************************)
LEMMA RowsAreLoose ==
  ASSUME NEW rows, NEW S, RowsOk(rows, S)
  PROVE  rows \in LooseRows
<1>1. Size \in Nat
  BY EntryRowsAssumption
<1>2. 0 .. Size \subseteq Int
  BY <1>1
<1>3. Record \subseteq LooseRow
  BY <1>2 DEF Record, LooseRow
<1>. QED  BY <1>3 DEF LooseRows, RowsOk

\* What is booked once the executions up to k have been gone through.
SeenUpTo(entries, k) == seen \cup (entries \cap (1 .. k))

LEMMA BookOneStep ==
  ASSUME VenueInv, seen \subseteq Ids, NEW entries \in SUBSET Ids, NEW barrier, NEW k \in Ids,
         NEW acc, RowsOk(acc.row, SeenUpTo(entries, k - 1))
  PROVE  /\ k \in entries \ seen =>
              /\ BookOne(entries, barrier, acc, k) = [row |-> BookExecution(acc.row, k), last |-> k]
              /\ k \notin SeenUpTo(entries, k - 1)
              /\ SeenUpTo(entries, k) = SeenUpTo(entries, k - 1) \cup {k}
         /\ k \notin entries \ seen =>
              /\ BookOne(entries, barrier, acc, k) = acc
              /\ SeenUpTo(entries, k) = SeenUpTo(entries, k - 1)
<1>. DEFINE S == SeenUpTo(entries, k - 1)
<1>1. k \in Nat \ {0} /\ 1 .. k = (1 .. (k - 1)) \cup {k} /\ k \notin 1 .. (k - 1)
  BY DEF Ids, VenueInv
<1>2. CASE k \in entries \ seen
  <2>1. k \notin S /\ SeenUpTo(entries, k) = S \cup {k}
    BY <1>1, <1>2 DEF SeenUpTo
  <2>2. ~Barred(acc.row, k)
    <3>. SUFFICES ASSUME execs[k] \in Rows
                  PROVE  ~(acc.row[execs[k]].filled >= acc.row[execs[k]].qty)
      BY DEF Barred
    <3>. DEFINE r == execs[k]
                x == acc.row[r]
    <3>1. RowOk(x, r, S)
      BY DEF RowsOk
    <3>. HIDE DEF S, x
    <3>2. x.filled < x.qty
      BY <2>1, <3>1, RoomForOne
    <3>3. x.filled \in Nat /\ x.qty \in Nat
      BY <3>1 DEF RowOk, Record
    <3>. QED  BY <3>2, <3>3 DEF x
  <2>. QED  BY <1>2, <2>1, <2>2 DEF BookOne
<1>3. CASE k \notin entries \ seen
  <2>1. SeenUpTo(entries, k) = S
    BY <1>1, <1>3 DEF SeenUpTo
  <2>. QED  BY <1>3, <2>1 DEF BookOne
<1>. QED  BY <1>2, <1>3

\* The account of the bookings up to k: the rows have what is booked, and the newest
\* execution that was is named.
AccountOk(entries, acc, k) ==
    /\ RowsOk(acc.row, SeenUpTo(entries, k))
    /\ acc.last \in (entries \ seen) \cup {0}
    /\ \A e \in (entries \ seen) \cap (1 .. k) : e <= acc.last

LEMMA BookOneKeepsAccount ==
  ASSUME VenueInv, seen \subseteq Ids, NEW entries \in SUBSET Ids, NEW barrier, NEW k \in Ids,
         NEW acc, AccountOk(entries, acc, k - 1)
  PROVE  AccountOk(entries, BookOne(entries, barrier, acc, k), k)
<1>1. 1 .. k = (1 .. (k - 1)) \cup {k} /\ k \in Nat
  BY DEF Ids, VenueInv
<1>2. RowsOk(acc.row, SeenUpTo(entries, k - 1))
  BY DEF AccountOk
<1>3. CASE k \in entries \ seen
  <2>1. /\ BookOne(entries, barrier, acc, k) = [row |-> BookExecution(acc.row, k), last |-> k]
        /\ k \notin SeenUpTo(entries, k - 1)
        /\ SeenUpTo(entries, k) = SeenUpTo(entries, k - 1) \cup {k}
    BY <1>2, <1>3, BookOneStep
  <2>2. RowsOk(BookExecution(acc.row, k), SeenUpTo(entries, k - 1) \cup {k})
    BY <1>2, <2>1, BookKeepsRows
  <2>3. \A e \in 1 .. k : e <= k
    BY <1>1
  <2>. QED  BY <1>3, <2>1, <2>2, <2>3 DEF AccountOk
<1>4. CASE k \notin entries \ seen
  <2>1. BookOne(entries, barrier, acc, k) = acc
        /\ SeenUpTo(entries, k) = SeenUpTo(entries, k - 1)
    BY <1>1, <1>4 DEF BookOne, SeenUpTo
  <2>2. (entries \ seen) \cap (1 .. k) = (entries \ seen) \cap (1 .. (k - 1))
    BY <1>1, <1>4
  <2>. QED  BY <2>1, <2>2 DEF AccountOk
<1>. QED  BY <1>3, <1>4

LEMMA BookedRows ==
  ASSUME VenueInv, seen \subseteq Ids, RowsOk(row, seen), NEW entries \in SUBSET Ids,
         NEW barrier, NEW F, BookedUpTo(entries, barrier, F)
  PROVE  \A k \in 0 .. Len(execs) : AccountOk(entries, F[k], k)
<1>. DEFINE G == {k \in Nat : k <= Len(execs) => AccountOk(entries, F[k], k)}
<1>1. Len(execs) \in Nat /\ Ids = 1 .. Len(execs)
  BY DEF VenueInv, Ids
<1>2. 0 \in G
  <2>1. 1 .. 0 = {} /\ F[0].row = row /\ F[0].last = 0
    BY DEF BookedUpTo
  <2>2. SeenUpTo(entries, 0) = seen
    BY <2>1 DEF SeenUpTo
  <2>. QED  BY <2>1, <2>2 DEF AccountOk
<1>3. ASSUME NEW j \in Nat, j \in G, j + 1 <= Len(execs)
      PROVE  AccountOk(entries, F[j + 1], j + 1)
  <2>1. j + 1 \in Ids /\ (j + 1) - 1 = j /\ j <= Len(execs)
    BY <1>1, <1>3
  <2>2. AccountOk(entries, F[j], (j + 1) - 1)
    BY <1>3, <2>1
  <2>3. F[j + 1] = BookOne(entries, barrier, F[j], j + 1)
    BY <2>1 DEF BookedUpTo
  <2>. QED  BY <2>1, <2>2, <2>3, BookOneKeepsAccount
<1>4. \A j \in Nat : j \in G => j + 1 \in G
  BY <1>3
<1>5. \A k \in Nat : k \in G
  <2>. HIDE DEF G
  <2>. QED  BY <1>2, <1>4, EveryNat
<1>6. \A k \in 0 .. Len(execs) : k \in Nat /\ k <= Len(execs)
  BY <1>1
<1>. QED  BY <1>5, <1>6

LEMMA InRange ==
  ASSUME NEW n \in Nat, NEW S \in SUBSET (1 .. n), NEW x \in S \cup {0}
  PROVE  x \in 0 .. n
OBVIOUS

\* The result, with the newest execution booked.
LEMMA BookedAll ==
  ASSUME VenueInv, seen \subseteq Ids, RowsOk(row, seen), NEW entries \in SUBSET Ids, NEW barrier
  PROVE  /\ RowsOk(Booked(entries, barrier).row, seen \cup entries)
         /\ Booked(entries, barrier).last \in (entries \ seen) \cup {0}
         /\ Booked(entries, barrier).last \in 0 .. Len(execs)
         /\ \A e \in entries \ seen : e <= Booked(entries, barrier).last
<1>1. PICK F : BookedUpTo(entries, barrier, F)
  BY RowsAreLoose, BookedStepwise DEF VenueInv
<1>2. Len(execs) \in 0 .. Len(execs) /\ Ids = 1 .. Len(execs)
  BY DEF VenueInv, Ids
<1>3. SeenUpTo(entries, Len(execs)) = seen \cup entries
  BY <1>2 DEF SeenUpTo
<1>4. (entries \ seen) \cap (1 .. Len(execs)) = entries \ seen
  BY <1>2
<1>5. Booked(entries, barrier) = F[Len(execs)]
  BY <1>1 DEF BookedUpTo
<1>6. AccountOk(entries, F[Len(execs)], Len(execs))
  BY <1>1, <1>2, BookedRows
<1>7. F[Len(execs)].last \in (entries \ seen) \cup {0}
  BY <1>6 DEF AccountOk
<1>8. F[Len(execs)].last \in 0 .. Len(execs)
  <2>1. entries \ seen \in SUBSET (1 .. Len(execs)) /\ Len(execs) \in Nat
    BY <1>2
  <2>. QED  BY <1>7, <2>1, InRange
<1>. QED  BY <1>3, <1>4, <1>5, <1>6, <1>8 DEF AccountOk

LEMMA ReducingRows ==
  ASSUME VenueInv, NEW rows, NEW S, RowsOk(rows, S), NEW X, NEW sides \in Seq(X),
         NEW F, ReducedUpTo(rows, sides, F)
  PROVE  \A k \in Nat : k <= Len(sides) => RowsOk(F[k], S)
<1>. DEFINE G == {k \in Nat : k <= Len(sides) => RowsOk(F[k], S)}
<1>2. Len(sides) \in Nat
  OBVIOUS
<1>3. 0 \in G
  BY DEF ReducedUpTo
<1>4. ASSUME NEW j \in Nat, j \in G, j + 1 <= Len(sides)
      PROVE  RowsOk(F[j + 1], S)
  <2>1. j + 1 \in 1 .. Len(sides) /\ (j + 1) - 1 = j /\ RowsOk(F[j], S)
    BY <1>2, <1>4
  <2>2. F[j + 1] = ReduceOwnership(F[j], sides[j + 1])
    BY <2>1 DEF ReducedUpTo
  <2>. QED  BY <2>1, <2>2, ReduceKeepsRows
<1>5. \A k \in Nat : k \in G
  <2>1. \A j \in Nat : j \in G => j + 1 \in G
    BY <1>4
  <2>. HIDE DEF G
  <2>. QED  BY <1>3, <2>1, EveryNat
<1>. QED  BY <1>5

LEMMA ReducedRows ==
  ASSUME VenueInv, NEW rows, NEW S, RowsOk(rows, S), NEW X, NEW sides \in Seq(X)
  PROVE  RowsOk(ReduceAll(rows, sides), S)
<1>1. PICK F : ReducedUpTo(rows, sides, F)
  BY RowsAreLoose, ReduceStepwise
<1>2. RowsOk(F[Len(sides)], S)
  BY <1>1, ReducingRows
<1>. QED  BY <1>1, <1>2 DEF ReducedUpTo

(***************************************************************************)
(* What retires a row.                                                     *)
(***************************************************************************)
\* A row that is owed nothing may be closed.
LEMMA CloseKeepsRow ==
  ASSUME NEW r \in Rows, NEW x, NEW S, RowOk(x, r, S), status[r] # "live", OfRow(r) \subseteq S
  PROVE  RowOk([x EXCEPT !.open = FALSE], r, S)
<1>. DEFINE y == [x EXCEPT !.open = FALSE]
<1>1. x \in Record
  BY DEF RowOk
<1>2. y \in Record /\ ~y.open
  BY <1>1 DEF Record
<1>. HIDE DEF y
<1>3. RowOk(y, r, S)
  BY <1>2 DEF RowOk
<1>. QED  BY <1>3 DEF y

\* Every row is left alone or, where it is full, closed.
OnlyFullClosed(rows, swept) ==
    /\ swept \in [Rows -> Record]
    /\ \A r \in Rows : \/ swept[r] = rows[r]
                       \/ /\ rows[r].open /\ rows[r].filled >= rows[r].qty
                          /\ swept[r] = [rows[r] EXCEPT !.open = FALSE]

LEMMA ClosedKeepsRows ==
  ASSUME VenueInv, NEW rows, NEW S, RowsOk(rows, S), NEW swept, OnlyFullClosed(rows, swept)
  PROVE  RowsOk(swept, S)
<1>. SUFFICES ASSUME NEW r \in Rows
              PROVE  RowOk(swept[r], r, S)
  BY DEF RowsOk, OnlyFullClosed
<1>1. RowOk(rows[r], r, S)
  BY DEF RowsOk
<1>2. CASE swept[r] = rows[r]
  BY <1>1, <1>2
<1>3. CASE /\ rows[r].open /\ rows[r].filled >= rows[r].qty
           /\ swept[r] = [rows[r] EXCEPT !.open = FALSE]
  <2>1. status[r] # "live" /\ OfRow(r) \subseteq S
    BY <1>1, <1>3, FullIsDone
  <2>. QED  BY <1>1, <1>3, <2>1, CloseKeepsRow
<1>. QED  BY <1>2, <1>3 DEF OnlyFullClosed

\* Closing with a condition on the flag alone.
LEMMA OpenOnly ==
  ASSUME NEW x \in Record, NEW stays
  PROVE  /\ [x EXCEPT !.open = @ /\ stays] \in Record
         /\ (~x.open \/ stays) => [x EXCEPT !.open = @ /\ stays] = x
         /\ ~stays => [x EXCEPT !.open = @ /\ stays] = [x EXCEPT !.open = FALSE]
BY DEF Record

LEMMA SweptCloses ==
  ASSUME NEW rows \in [Rows -> Record], NEW at, NEW own, NEW known
  PROVE  OnlyFullClosed(rows, Swept(rows, at, own, known))
<1>. DEFINE swept == [r \in Rows |-> [rows[r] EXCEPT !.open = @ /\ rows[r].filled < rows[r].qty]]
<1>1. ASSUME NEW r \in Rows
      PROVE  /\ swept[r] \in Record
             /\ \/ swept[r] = rows[r]
                \/ /\ rows[r].open /\ rows[r].filled >= rows[r].qty
                   /\ swept[r] = [rows[r] EXCEPT !.open = FALSE]
  <2>1. rows[r] \in Record
    OBVIOUS
  <2>2. rows[r].filled \in Int /\ rows[r].qty \in Int
    <3>1. Size \in Nat
      BY EntryRowsAssumption
    <3>. QED  BY <2>1, <3>1 DEF Record
  <2>3. swept[r] = [rows[r] EXCEPT !.open = @ /\ rows[r].filled < rows[r].qty]
    OBVIOUS
  <2>. HIDE DEF swept
  <2>. QED  BY <2>1, <2>2, <2>3, OpenOnly
<1>2. OnlyFullClosed(rows, swept)
  BY <1>1 DEF OnlyFullClosed
<1>3. OnlyFullClosed(rows, rows)
  BY DEF OnlyFullClosed
<1>. QED  BY <1>2, <1>3 DEF Swept

LEMMA SweptRows ==
  ASSUME VenueInv, NEW rows, NEW S, RowsOk(rows, S), NEW at, NEW own, NEW known
  PROVE  RowsOk(Swept(rows, at, own, known), S)
BY SweptCloses, ClosedKeepsRows DEF RowsOk

\* The remainder of an ended order is cut off, at the executions it made.
LEMMA RetireKeepsRow ==
  ASSUME VenueInv, NEW r \in Rows, NEW x, NEW S, RowOk(x, r, S), status[r] # "live"
  PROVE  RowOk(RetireCancelled(x, CumExec(r)), r, S)
<1>1. CASE ~x.open
  BY <1>1 DEF RetireCancelled
<1>2. CASE x.open
  <2>. DEFINE n == Cardinality(OfRow(r) \cap S)
              c == CumExec(r)
              executed == IF c - x.netted > x.filled THEN c - x.netted ELSE x.filled
  <2>1. n \in Nat /\ c \in Nat /\ n <= c /\ (n = c => OfRow(r) \subseteq S) /\ c <= Size
    BY Counted DEF VenueInv
  <2>2. x \in Record /\ x.filled \in Nat /\ x.qty \in Nat /\ x.netted \in Nat
    BY DEF RowOk, Record
  <2>3. x.filled + x.netted = n /\ Size \in Nat
    BY <1>2, EntryRowsAssumption DEF RowOk, VenueFilled
  <2>4. RetireCancelled(x, c)
          = IF executed = 0 THEN [x EXCEPT !.open = FALSE]
            ELSE [x EXCEPT !.qty = executed, !.flagged = TRUE, !.known = TRUE]
    BY <1>2 DEF RetireCancelled
  <2>5. executed = c - x.netted /\ x.filled <= executed /\ executed \in 0 .. Size
        /\ (executed = 0 => n = c)
    BY <2>1, <2>2, <2>3
  <2>. HIDE DEF n, c, executed
  <2>6. CASE executed = 0
    BY <2>1, <2>4, <2>5, <2>6, CloseKeepsRow DEF c
  <2>7. CASE executed # 0
    <3>. DEFINE y == [x EXCEPT !.qty = executed, !.flagged = TRUE, !.known = TRUE]
    <3>1. y \in Record /\ y.open = x.open /\ y.qty = executed /\ y.filled = x.filled
          /\ y.netted = x.netted
      BY <2>2, <2>5 DEF Record
    <3>. HIDE DEF y
    <3>2. y.filled <= y.qty /\ y.qty + y.netted = c /\ VenueFilled(y) = n
      BY <2>1, <2>2, <2>3, <2>5, <3>1 DEF VenueFilled
    <3>3. RowOk(y, r, S)
      BY <1>2, <2>1, <3>1, <3>2 DEF RowOk, n, c
    <3>. QED  BY <2>4, <2>7, <3>3 DEF y, c
  <2>. QED  BY <2>6, <2>7
<1>. QED  BY <1>1, <1>2

LEMMA FlagKeepsRow ==
  ASSUME NEW r \in Rows, NEW x, NEW S, RowOk(x, r, S)
  PROVE  RowOk(Flag(x), r, S)
<1>. DEFINE y == [x EXCEPT !.flagged = TRUE]
<1>1. x \in Record
  BY DEF RowOk
<1>2. y \in Record /\ y.open = x.open /\ y.qty = x.qty /\ y.filled = x.filled
      /\ y.netted = x.netted
  BY <1>1 DEF Record
<1>. HIDE DEF y
<1>3. RowOk(y, r, S)
  BY <1>2 DEF RowOk, VenueFilled
<1>. QED  BY <1>3 DEF Flag, y

\* A row whose cursor has all its order executed is at the venue's figure.
LEMMA NothingLags ==
  ASSUME VenueInv, NEW r \in Rows, NEW x, NEW S, RowOk(x, r, S), x.open, ~Lags(x, CumExec(r))
  PROVE  VenueFilled(x) = CumExec(r)
<1>1. Cardinality(OfRow(r) \cap S) \in Nat /\ CumExec(r) \in Nat
      /\ Cardinality(OfRow(r) \cap S) <= CumExec(r)
  BY Counted DEF VenueInv
<1>. QED  BY <1>1 DEF RowOk, Lags

LEMMA CancelKeepsRow ==
  ASSUME VenueInv, NEW r \in Rows, NEW x, NEW S, RowOk(x, r, S), status[r] # "live",
         ~Lags(x, CumExec(r))
  PROVE  RowOk(RetireCancelled(x, VenueFilled(x)), r, S)
<1>1. CASE x.open
  BY <1>1, NothingLags, RetireKeepsRow
<1>2. CASE ~x.open
  BY <1>2 DEF RetireCancelled
<1>. QED  BY <1>1, <1>2

LEMMA SettleKeepsRow ==
  ASSUME VenueInv, NEW r \in Rows, NEW x, NEW S, RowOk(x, r, S), status[r] # "live"
  PROVE  RowOk(SettleFilled(x, CumExec(r)), r, S)
<1>1. CASE Lags(x, CumExec(r))
  BY <1>1 DEF SettleFilled
<1>2. CASE ~Lags(x, CumExec(r))
  <2>. DEFINE y == [x EXCEPT !.qty = x.filled]
  <2>1. x \in Record /\ x.filled \in Nat /\ x.netted \in Nat
    BY DEF RowOk, Record
  <2>2. y \in Record /\ y.open = x.open /\ y.qty = x.filled /\ y.filled = x.filled
        /\ y.netted = x.netted
    BY <2>1 DEF Record
  <2>3. SettleFilled(x, CumExec(r)) = y
    BY <1>2 DEF SettleFilled
  <2>. HIDE DEF y
  <2>4. CASE x.open
    <3>1. x.filled + x.netted = CumExec(r)
      BY <1>2, <2>4, NothingLags DEF VenueFilled
    <3>2. y.filled <= y.qty /\ y.qty + y.netted = CumExec(r)
          /\ VenueFilled(y) = VenueFilled(x)
      BY <2>1, <2>2, <3>1 DEF VenueFilled
    <3>3. CumExec(r) \in Nat /\ CumExec(r) <= Size
      BY Counted DEF VenueInv
    <3>4. VenueFilled(y) = Cardinality(OfRow(r) \cap S)
      BY <2>4, <3>2 DEF RowOk
    <3>5. RowOk(y, r, S)
      BY <2>2, <2>4, <3>2, <3>3, <3>4 DEF RowOk
    <3>. QED  BY <2>3, <3>5
  <2>5. CASE ~x.open
    BY <2>2, <2>3, <2>5 DEF RowOk
  <2>. QED  BY <2>4, <2>5
<1>. QED  BY <1>1, <1>2

\* At a restart an open row's cursor goes to what its order executed.
LEMMA BaselineKeepsRow ==
  ASSUME VenueInv, NEW r \in Rows, NEW x, NEW S, RowOk(x, r, S), x.open
  PROVE  RowOk(Baselined(x, CumExec(r)), r, Ids)
<1>. DEFINE n == Cardinality(OfRow(r) \cap S)
            c == CumExec(r)
            cursor == IF c - x.netted > x.qty THEN x.qty
                      ELSE IF c - x.netted > x.filled THEN c - x.netted ELSE x.filled
            y == [x EXCEPT !.filled = cursor]
<1>1. n \in Nat /\ c \in Nat /\ n <= c /\ Cardinality(OfRow(r) \cap Ids) = c
  BY Counted DEF VenueInv, OfRow
<1>2. x \in Record /\ x.filled \in Nat /\ x.qty \in 0 .. Size /\ x.netted \in Nat /\ Size \in Nat
  BY EntryRowsAssumption DEF RowOk, Record
<1>3. x.filled + x.netted = n /\ c <= x.qty + x.netted /\ x.qty + x.netted <= Size
  BY DEF RowOk, VenueFilled
<1>4. Baselined(x, c) = y
  BY DEF Baselined
<1>5. cursor = c - x.netted /\ cursor \in 0 .. Size /\ cursor <= x.qty
  BY <1>1, <1>2, <1>3
<1>. HIDE DEF n, c, cursor
<1>6. y \in Record /\ y.open = x.open /\ y.qty = x.qty /\ y.filled = cursor /\ y.netted = x.netted
  BY <1>2, <1>5 DEF Record
<1>. HIDE DEF y
<1>7. VenueFilled(y) = c
  BY <1>1, <1>2, <1>5, <1>6 DEF VenueFilled
<1>8. RowOk(y, r, Ids)
  BY <1>1, <1>5, <1>6, <1>7 DEF RowOk, c
<1>. QED  BY <1>4, <1>8 DEF c

(***************************************************************************)
(* The parts of the inductive invariant.                                   *)
(***************************************************************************)
\* The terminal push of an order comes after its end.
EndInv == endPush \subseteq {r \in Rows : status[r] # "live"}

SeenInv == seen \subseteq Ids /\ lastOwn \in 0 .. Len(execs) /\ view \in -1 .. Len(execs)

PushInv == pushes \in Seq(Ids) /\ late \subseteq Ids /\ listed \subseteq late

PassInv ==
    /\ kind \in [Rows -> Kinds] /\ stamped \subseteq Rows /\ due \subseteq Rows
    /\ pc \in {"loop", "position", "orders", "ordersBlind", "confirm",
               "market", "backfill", "recover"}
    /\ cancel \in [Rows -> {"none", "acked", "notFound"}]
    /\ lost \in 0 .. MaxLost /\ restarts \in 0 .. MaxRestarts

NoteInv == unbooked \in [Rows -> 0 .. Size] /\ checked \subseteq Market

RowsInv == VenueInv /\ EndInv /\ SeenInv /\ RowsOk(row, seen)
CursorInv == RowsInv /\ PushInv /\ PassInv /\ NoteInv

\* A step of the run alone: the venue stands still.
RunStep ==
    /\ UNCHANGED <<execs, status>> /\ endPush' \subseteq endPush
    /\ RowsOk(row', seen') /\ seen' \subseteq Ids
    /\ lastOwn' \in 0 .. Len(execs) /\ view' \in -1 .. Len(execs)

LEMMA RunStepKeeps ==
  ASSUME RowsInv, RunStep
  PROVE  RowsInv'
<1>1. execs' = execs /\ status' = status /\ Ids' = Ids
  BY DEF RunStep, Ids
<1>2. \A r \in Rows : CumExec(r)' = CumExec(r) /\ OfRow(r)' = OfRow(r)
  BY <1>1 DEF CumExec, CountUpTo, OfRow, Ids
<1>3. VenueInv'
  BY <1>1, <1>2 DEF RowsInv, VenueInv
<1>4. EndInv'
  BY <1>1 DEF RowsInv, EndInv, RunStep
<1>5. SeenInv'
  BY <1>1 DEF RunStep, SeenInv
<1>6. RowsOk(row, seen)'
  BY <1>1, <1>2 DEF RunStep, RowsOk, RowOk, VenueFilled
<1>. QED  BY <1>3, <1>4, <1>5, <1>6 DEF RowsInv

(***************************************************************************)
(* The steps of the venue.                                                 *)
(***************************************************************************)
LEMMA LongerSeq ==
  ASSUME NEW A, NEW B, A \subseteq B, NEW s \in Seq(A)
  PROVE  s \in Seq(B)
OBVIOUS

\* One execution more.
LEMMA OneMore ==
  ASSUME VenueInv, NEW x \in Rows \cup Sides, execs' = Append(execs, x), NEW r
  PROVE  /\ Ids' = Ids \cup {Len(execs) + 1} /\ Len(execs) + 1 \notin Ids
         /\ Len(execs') = Len(execs) + 1 /\ Len(execs) \in Nat
         /\ execs' \in Seq(Rows \cup Sides) /\ Ids \subseteq Ids'
         /\ OfRow(r)' = IF r = x THEN OfRow(r) \cup {Len(execs) + 1} ELSE OfRow(r)
         /\ CumExec(r)' = IF r = x THEN CumExec(r) + 1 ELSE CumExec(r)
<1>. DEFINE n == Len(execs)
            e == n + 1
<1>1. n \in Nat /\ execs \in Seq(Rows \cup Sides)
  BY DEF VenueInv
<1>2. execs' \in Seq(Rows \cup Sides) /\ Len(execs') = e /\ execs'[e] = x
      /\ \A i \in 1 .. n : execs'[i] = execs[i]
  BY <1>1
<1>3. Ids' = 1 .. e /\ Ids = 1 .. n
  BY <1>2 DEF Ids
<1>4. 1 .. e = (1 .. n) \cup {e} /\ e \notin 1 .. n
  BY <1>1
<1>5. OfRow(r)' = IF r = x THEN OfRow(r) \cup {e} ELSE OfRow(r)
  <2>. HIDE DEF n, e
  <2>1. OfRow(r)' = {i \in Ids' : execs'[i] = r}
    BY DEF OfRow
  <2>. QED  BY <1>2, <1>3, <1>4, <2>1 DEF OfRow
<1>6. CumExec(r)' = Cardinality(OfRow(r)')
  BY DEF CumExec, CountUpTo, OfRow, Ids
<1>7. CumExec(r) = Cardinality(OfRow(r)) /\ IsFiniteSet(OfRow(r) \cap Ids)
      /\ OfRow(r) \cap Ids = OfRow(r)
  BY <1>1, Counted DEF OfRow
<1>8. CumExec(r)' = IF r = x THEN CumExec(r) + 1 ELSE CumExec(r)
  <2>1. e \notin OfRow(r)
    BY <1>3, <1>4 DEF OfRow
  <2>2. Cardinality(OfRow(r) \cup {e}) = Cardinality(OfRow(r)) + 1
    BY <1>7, <2>1, FS_AddElement
  <2>. QED  BY <1>5, <1>6, <1>7, <2>2
<1>. QED  BY <1>1, <1>2, <1>3, <1>4, <1>5, <1>8

LEMMA AnnounceKeeps ==
  ASSUME VenueInv, PushInv, PassInv, NEW x \in Rows \cup Sides, execs' = Append(execs, x),
         Announce, listed' = listed
  PROVE  PushInv' /\ lost' \in 0 .. MaxLost
<1>1. Ids' = Ids \cup {Len(execs) + 1} /\ Ids \subseteq Ids'
  BY OneMore
<1>2. pushes \in Seq(Ids')
  BY <1>1, LongerSeq DEF PushInv
<1>3. CASE pushes' = Append(pushes, Len(execs) + 1) /\ UNCHANGED <<late, lost>>
  <2>1. Len(execs) + 1 \in Ids'
    BY <1>1
  <2>. HIDE DEF Ids
  <2>2. pushes' \in Seq(Ids')
    BY <1>2, <1>3, <2>1
  <2>. QED  BY <1>1, <1>3, <2>2 DEF PushInv, PassInv
<1>4. CASE /\ lost < MaxLost /\ lost' = lost + 1 /\ UNCHANGED pushes
           /\ late' \in {late, late \cup {Len(execs) + 1}}
  <2>1. lost' \in 0 .. MaxLost
    BY <1>4, EntryRowsAssumption DEF PassInv
  <2>. QED  BY <1>1, <1>2, <1>4, <2>1 DEF PushInv
<1>. QED  BY <1>3, <1>4 DEF Announce

LEMMA ExecuteKeeps ==
  ASSUME CursorInv, NEW r \in Rows, Execute(r)
  PROVE  CursorInv'
<1>. USE DEF CursorInv, RowsInv
<1>. DEFINE e == Len(execs) + 1
<1>1. execs' = Append(execs, r) /\ status[r] = "live" /\ Len(execs) < MaxExecs
      /\ status' = [status EXCEPT ![r] = IF CumExec(r) + 1 = Size THEN "filled" ELSE @]
      /\ Announce /\ listed' = listed
  BY Zenon DEF Execute
<1>2. UNCHANGED <<kind, endPush, row, seen, lastOwn, view, unbooked, checked, pc, due, stamped,
                  cancel, restarts>>
  BY DEF Execute, bookVars, noteVars, passVars
<1>3. Ids' = Ids \cup {e} /\ e \notin Ids /\ Len(execs') = e /\ Len(execs) \in Nat
      /\ execs' \in Seq(Rows \cup Sides)
  BY <1>1, OneMore
<1>4. \A q \in Rows : /\ OfRow(q)' = IF q = r THEN OfRow(q) \cup {e} ELSE OfRow(q)
                      /\ CumExec(q)' = IF q = r THEN CumExec(q) + 1 ELSE CumExec(q)
  BY <1>1, OneMore
<1>5. \A q \in Rows : CumExec(q) \in Nat
  BY Counted DEF VenueInv
<1>6. status' \in [Rows -> {"live", "filled", "dead"}] /\ Size \in Nat /\ MaxExecs \in Nat
      /\ (status'[r] = IF CumExec(r) + 1 = Size THEN "filled" ELSE "live")
      /\ \A q \in Rows \ {r} : status'[q] = status[q]
  BY <1>1, EntryRowsAssumption DEF VenueInv
<1>7. VenueInv'
  <2>1. ASSUME NEW q \in Rows
        PROVE  /\ CumExec(q)' <= Size
               /\ status'[q] = "live" => CumExec(q)' < Size
               /\ status'[q] = "filled" => CumExec(q)' = Size
    BY <1>1, <1>4, <1>5, <1>6 DEF VenueInv
  <2>2. Len(execs') <= MaxExecs
    BY <1>1, <1>3, <1>6
  <2>. QED  BY <1>3, <1>6, <2>1, <2>2 DEF VenueInv
<1>8. EndInv'
  BY <1>1, <1>2, <1>6 DEF EndInv
<1>9. SeenInv'
  BY <1>2, <1>3 DEF SeenInv
<1>10. RowsOk(row, seen)'
  <2>1. ASSUME NEW q \in Rows
        PROVE  RowOk(row[q], q, seen)'
    <3>. DEFINE x == row[q]
    <3>1. RowOk(x, q, seen) /\ x \in Record
      BY DEF RowsOk, RowOk
    <3>2. OfRow(q)' \cap seen = OfRow(q) \cap seen
      BY <1>3, <1>4 DEF SeenInv
    <3>3. CASE q # r
      BY <1>2, <1>4, <1>6, <3>1, <3>2, <3>3 DEF RowOk, VenueFilled
    <3>4. CASE q = r
      <4>1. x.open /\ x.qty + x.netted = Size /\ x.filled <= x.qty
            /\ VenueFilled(x) = Cardinality(OfRow(q) \cap seen)
        BY <1>1, <3>1, <3>4 DEF RowOk
      <4>2. CumExec(q)' <= Size
        BY <1>7 DEF VenueInv
      <4>. QED  BY <1>2, <1>6, <3>1, <3>2, <4>1, <4>2 DEF RowOk, VenueFilled
    <3>. QED  BY <3>3, <3>4
  <2>. QED  BY <1>2, <2>1 DEF RowsOk
<1>11. PushInv' /\ lost' \in 0 .. MaxLost
  BY <1>1, AnnounceKeeps
<1>12. PassInv' /\ NoteInv'
  BY <1>2, <1>11 DEF PassInv, NoteInv, Market
<1>. QED  BY <1>7, <1>8, <1>9, <1>10, <1>11, <1>12

LEMMA ReduceKeeps ==
  ASSUME CursorInv, NEW s \in Sides, Reduce(s)
  PROVE  CursorInv'
<1>. USE DEF CursorInv, RowsInv
<1>. DEFINE e == Len(execs) + 1
<1>1. execs' = Append(execs, s) /\ Len(execs) < MaxExecs /\ Announce /\ listed' = listed
  BY Zenon DEF Reduce
<1>2. UNCHANGED <<kind, status, endPush, row, seen, lastOwn, view, unbooked, checked, pc, due,
                  stamped, cancel, restarts>>
  BY DEF Reduce, bookVars, noteVars, passVars
<1>3. Ids' = Ids \cup {e} /\ e \notin Ids /\ Len(execs') = e /\ Len(execs) \in Nat
      /\ execs' \in Seq(Rows \cup Sides)
  BY <1>1, OneMore
<1>4. \A q \in Rows : OfRow(q)' = OfRow(q) /\ CumExec(q)' = CumExec(q)
  <2>1. s \notin Rows
    BY EntryRowsAssumption DEF Sides
  <2>. QED  BY <1>1, <2>1, OneMore
<1>5. MaxExecs \in Nat
  BY EntryRowsAssumption
<1>6. VenueInv'
  <2>1. Len(execs') <= MaxExecs
    BY <1>1, <1>3, <1>5
  <2>. QED  BY <1>2, <1>3, <1>4, <2>1 DEF VenueInv
<1>7. EndInv'
  BY <1>2 DEF EndInv
<1>8. SeenInv'
  BY <1>2, <1>3 DEF SeenInv
<1>9. RowsOk(row, seen)'
  BY <1>2, <1>4 DEF RowsOk, RowOk, VenueFilled
<1>10. PushInv' /\ lost' \in 0 .. MaxLost
  BY <1>1, AnnounceKeeps
<1>11. PassInv' /\ NoteInv'
  BY <1>2, <1>10 DEF PassInv, NoteInv, Market
<1>. QED  BY <1>6, <1>7, <1>8, <1>9, <1>10, <1>11

\* An order that ends leaves its row as it was.
LEMMA EndsKeeps ==
  ASSUME CursorInv, NEW r \in Rows, status[r] = "live", Ends(r),
         UNCHANGED <<kind, execs, late, listed, pushes, bookVars, noteVars, passVars, restarts>>,
         cancel' \in [Rows -> {"none", "acked", "notFound"}]
  PROVE  CursorInv'
<1>. USE DEF CursorInv, RowsInv
<1>1. status' = [status EXCEPT ![r] = "dead"] /\ endPush' \subseteq endPush \cup {r}
      /\ lost' \in {lost, lost + 1} /\ (lost' = lost \/ lost < MaxLost)
  BY DEF Ends
<1>2. UNCHANGED <<row, seen, lastOwn, view, unbooked, checked, pc, due, stamped>>
  BY DEF bookVars, noteVars, passVars
<1>3. Ids' = Ids /\ \A q \in Rows : OfRow(q)' = OfRow(q) /\ CumExec(q)' = CumExec(q)
  BY DEF CumExec, CountUpTo, OfRow, Ids
<1>4. status' \in [Rows -> {"live", "filled", "dead"}]
      /\ \A q \in Rows : status'[q] = status[q] \/ (q = r /\ status'[q] = "dead")
  BY <1>1 DEF VenueInv
<1>5. VenueInv'
  BY <1>3, <1>4 DEF VenueInv
<1>6. EndInv'
  BY <1>1, <1>4 DEF EndInv, VenueInv
<1>7. SeenInv' /\ PushInv' /\ NoteInv'
  BY <1>2, <1>3 DEF SeenInv, PushInv, NoteInv, Market
<1>8. RowsOk(row, seen)'
  <2>1. ASSUME NEW q \in Rows
        PROVE  RowOk(row[q], q, seen)'
    <3>1. RowOk(row[q], q, seen)
      BY DEF RowsOk
    <3>2. q = r => row[q].open
      BY <3>1 DEF RowOk
    <3>. QED  BY <1>2, <1>3, <1>4, <3>1, <3>2 DEF RowOk, VenueFilled
  <2>. QED  BY <1>2, <2>1 DEF RowsOk
<1>9. PassInv'
  <2>1. lost' \in 0 .. MaxLost
    BY <1>1, EntryRowsAssumption DEF PassInv
  <2>. QED  BY <1>2, <2>1 DEF PassInv
<1>. QED  BY <1>5, <1>6, <1>7, <1>8, <1>9

(***************************************************************************)
(* What the steps of the run share.                                        *)
(***************************************************************************)
LEMMA BookAndSweepRows ==
  ASSUME RowsInv, NEW entries \in SUBSET Ids, NEW barrier, BookAndSweep(entries, barrier)
  PROVE  RowsOk(row', seen') /\ seen' \subseteq Ids /\ lastOwn' \in 0 .. Len(execs)
<1>. USE DEF RowsInv
<1>. DEFINE result == Booked(entries, barrier)
            own == IF result.last > lastOwn THEN result.last ELSE lastOwn
<1>1. seen' = seen \cup entries /\ lastOwn' = own
      /\ row' = IF result.last = 0 THEN result.row ELSE Swept(result.row, view, own, seen')
  BY DEF BookAndSweep
<1>2. RowsOk(result.row, seen \cup entries) /\ result.last \in 0 .. Len(execs)
  BY BookedAll DEF SeenInv
<1>3. \A known : RowsOk(Swept(result.row, view, own, known), seen \cup entries)
  BY <1>2, SweptRows
<1>4. Len(execs) \in Nat /\ Ids = 1 .. Len(execs)
  BY DEF VenueInv, Ids
<1>. HIDE DEF result
<1>5. own \in 0 .. Len(execs)
  BY <1>2 DEF SeenInv
<1>. HIDE DEF own
<1>. QED  BY <1>1, <1>2, <1>3, <1>5 DEF SeenInv

LEMMA NotedInSize ==
  ASSUME VenueInv, NoteInv, NEW r \in Rows
  PROVE  Noted(r, CumExec(r)) \in 0 .. Size
<1>1. CumExec(r) \in Nat /\ CumExec(r) <= Size /\ Size \in Nat
  BY Counted, EntryRowsAssumption DEF VenueInv
<1>2. unbooked[r] \in 0 .. Size
  BY DEF NoteInv
<1>. QED  BY <1>1, <1>2 DEF Noted

LEMMA RetireFoundRows ==
  ASSUME RowsInv, NoteInv, NEW found, \A r \in Rows : r \in found => status[r] # "live",
         RetireFound(found)
  PROVE  RowsOk(row', seen) /\ unbooked' \in [Rows -> 0 .. Size]
<1>. USE DEF RowsInv
<1>1. row' = [r \in Rows |-> IF r \in found THEN RetireCancelled(row[r], CumExec(r))
                             ELSE row[r]]
  BY DEF RetireFound
<1>2. ASSUME NEW r \in Rows
      PROVE  RowOk(row'[r], r, seen)
  BY <1>1, RetireKeepsRow DEF RowsOk
<1>3. RowsOk(row', seen)
  <2>1. \A r \in Rows : row'[r] \in Record
    BY <1>2 DEF RowOk
  <2>. QED  BY <1>1, <1>2, <2>1 DEF RowsOk
<1>4. unbooked' = [r \in Rows |-> IF r \in found /\ row'[r].open
                                  THEN Noted(r, CumExec(r)) ELSE unbooked[r]]
  BY DEF RetireFound
<1>5. \A r \in Rows : unbooked[r] \in 0 .. Size
  BY DEF NoteInv
<1>6. unbooked' \in [Rows -> 0 .. Size]
  BY <1>4, <1>5, NotedInSize
<1>. QED  BY <1>3, <1>6

\* A step of the run that leaves the executions seen and the views alone.
LEMMA RowStep ==
  ASSUME RowsInv, UNCHANGED <<execs, status, seen, lastOwn, view>>, endPush' \subseteq endPush,
         RowsOk(row', seen)
  PROVE  RunStep
BY DEF RunStep, RowsInv, SeenInv

\* What the run does not touch keeps its part.
LEMMA SamePushes ==
  ASSUME PushInv, UNCHANGED <<execs, late, listed, pushes>>
  PROVE  PushInv'
BY DEF PushInv, Ids

LEMMA SameNotes ==
  ASSUME NoteInv, UNCHANGED <<kind, checked>>, unbooked' \in [Rows -> 0 .. Size]
  PROVE  NoteInv'
BY DEF NoteInv, Market

(***************************************************************************)
(* Pushes.                                                                 *)
(***************************************************************************)
LEMMA HandleExecutionKeeps ==
  ASSUME CursorInv, HandleExecution
  PROVE  CursorInv'
<1>. USE DEF CursorInv
<1>1. pushes # <<>> /\ pushes' = Tail(pushes) /\ BookAndSweep({Head(pushes)}, FALSE)
  BY DEF HandleExecution
<1>2. UNCHANGED <<kind, execs, status, late, listed, endPush, view, unbooked, checked, pc, due,
                  stamped, cancel, lost, restarts>>
  BY DEF HandleExecution, venueVars, noteVars, passVars, faultVars
<1>3. Head(pushes) \in Ids /\ pushes' \in Seq(Ids)
  <2>. HIDE DEF Ids
  <2>. QED  BY <1>1 DEF PushInv
<1>4. RunStep
  <2>1. {Head(pushes)} \in SUBSET Ids
    BY <1>3
  <2>2. RowsOk(row', seen') /\ seen' \subseteq Ids /\ lastOwn' \in 0 .. Len(execs)
    BY <1>1, <2>1, BookAndSweepRows
  <2>. QED  BY <1>2, <2>2 DEF RunStep, RowsInv, SeenInv
<1>5. RowsInv'
  BY <1>4, RunStepKeeps
<1>6. PushInv'
  BY <1>2, <1>3 DEF PushInv, Ids
<1>7. PassInv' /\ NoteInv'
  BY <1>2 DEF PassInv, NoteInv, Market
<1>. QED  BY <1>5, <1>6, <1>7

LEMMA HandleEndKeeps ==
  ASSUME CursorInv, NEW r \in Rows, HandleEnd(r)
  PROVE  CursorInv'
<1>. USE DEF CursorInv
<1>1. r \in endPush /\ endPush' = endPush \ {r} /\ RetireFound({r})
  BY DEF HandleEnd
<1>2. UNCHANGED <<kind, execs, status, late, listed, pushes, seen, lastOwn, view, checked,
                  pc, due, stamped, cancel, lost, restarts>>
  BY DEF HandleEnd, venueVars, passVars, faultVars
<1>3. RowsOk(row', seen) /\ unbooked' \in [Rows -> 0 .. Size]
  <2>1. \A q \in Rows : q \in {r} => status[q] # "live"
    BY <1>1 DEF RowsInv, EndInv
  <2>. QED  BY <1>1, <2>1, RetireFoundRows
<1>4. RowsInv'
  BY <1>1, <1>2, <1>3, RowStep, RunStepKeeps
<1>5. PassInv'
  BY <1>2 DEF PassInv
<1>. QED  BY <1>2, <1>3, <1>4, <1>5, SamePushes, SameNotes

LEMMA HandlePositionKeeps ==
  ASSUME CursorInv, HandlePosition
  PROVE  CursorInv'
<1>. USE DEF CursorInv
<1>1. PICK at \in 1 .. Len(execs) : view' = at /\ row' = Swept(row, at, lastOwn, seen)
  BY DEF HandlePosition
<1>2. UNCHANGED <<kind, execs, status, late, listed, pushes, endPush, seen, lastOwn, unbooked,
                  checked, pc, due, stamped, cancel, lost, restarts>>
  BY DEF HandlePosition, venueVars, pushVars, passVars, faultVars
<1>3. RunStep
  <2>1. RowsOk(row', seen)
    BY <1>1, SweptRows DEF RowsInv
  <2>2. view' \in -1 .. Len(execs)
    BY <1>1 DEF RowsInv, VenueInv
  <2>. QED  BY <1>2, <2>1, <2>2 DEF RunStep, RowsInv, SeenInv
<1>4. RowsInv'
  BY <1>3, RunStepKeeps
<1>5. PassInv' /\ NoteInv'
  BY <1>2 DEF PassInv, NoteInv, Market
<1>. QED  BY <1>2, <1>4, <1>5, SamePushes

(***************************************************************************)
(* The reconcile pass.                                                     *)
(***************************************************************************)
LEMMA SettleCancelledKeeps ==
  ASSUME CursorInv, NEW read, SettleCancelled(read), pc' = "position"
  PROVE  CursorInv'
<1>. USE DEF CursorInv
<1>1. RetireFound({r \in read : status[r] # "live"})
  BY DEF SettleCancelled
<1>2. UNCHANGED <<kind, execs, status, late, listed, pushes, endPush, seen, lastOwn, view,
                  checked, due, stamped, cancel, lost, restarts>>
  BY DEF SettleCancelled, venueVars, pushVars, faultVars
<1>3. RowsOk(row', seen) /\ unbooked' \in [Rows -> 0 .. Size]
  BY <1>1, RetireFoundRows
<1>4. RowsInv'
  BY <1>2, <1>3, RowStep, RunStepKeeps
<1>5. PassInv'
  BY <1>2 DEF PassInv
<1>. QED  BY <1>2, <1>3, <1>4, <1>5, SamePushes, SameNotes

LEMMA ReadPositionKeeps ==
  ASSUME CursorInv, ReadPosition
  PROVE  CursorInv'
<1>. USE DEF CursorInv
<1>1. pc' = "orders" /\ view' = Len(execs) /\ row' = Swept(row, view', lastOwn, seen)
  BY DEF ReadPosition
<1>2. UNCHANGED <<kind, execs, status, late, listed, pushes, endPush, seen, lastOwn, unbooked,
                  checked, due, stamped, cancel, lost, restarts>>
  BY DEF ReadPosition, venueVars, pushVars, faultVars
<1>3. RunStep
  <2>1. \A at : RowsOk(Swept(row, at, lastOwn, seen), seen)
    BY SweptRows DEF RowsInv
  <2>2. view' \in -1 .. Len(execs)
    BY <1>1 DEF RowsInv, VenueInv
  <2>. QED  BY <1>1, <1>2, <2>1, <2>2 DEF RunStep, RowsInv, SeenInv
<1>4. RowsInv'
  BY <1>3, RunStepKeeps
<1>5. PassInv' /\ NoteInv'
  BY <1>1, <1>2 DEF PassInv, NoteInv, Market
<1>. QED  BY <1>2, <1>4, <1>5, SamePushes

\* A step that reads only: it changes notes and stamps.
LEMMA NotesKeep ==
  ASSUME CursorInv, PassInv', unbooked' \in [Rows -> 0 .. Size], checked' \subseteq Market,
         UNCHANGED <<kind, execs, status, late, listed, pushes, endPush, row, seen, lastOwn, view>>
  PROVE  CursorInv'
<1>. USE DEF CursorInv
<1>1. RowsInv'
  BY RowStep, RunStepKeeps DEF RowsInv
<1>2. NoteInv'
  BY DEF NoteInv, Market
<1>. QED  BY <1>1, <1>2, SamePushes

LEMMA ReadOrdersKeeps ==
  ASSUME CursorInv, ReadOrders \/ ReadOrdersEarly \/ ReadOrdersFails
  PROVE  CursorInv'
<1>. USE DEF CursorInv
<1>1. UNCHANGED <<kind, execs, status, late, listed, pushes, endPush, row, seen, lastOwn, view,
                  checked, cancel, lost, restarts>>
  BY DEF ReadOrders, ReadOrdersEarly, ReadOrdersFails, venueVars, pushVars, bookVars, noteVars,
         faultVars
<1>2. \A r \in Rows : unbooked[r] \in 0 .. Size /\ Noted(r, CumExec(r)) \in 0 .. Size
  BY NotedInSize DEF NoteInv, RowsInv
<1>3. unbooked' \in [Rows -> 0 .. Size]
  <2>1. CASE unbooked' = unbooked
    BY <2>1 DEF NoteInv
  <2>2. CASE unbooked' = [r \in Rows |-> IF r \in Open \cap Resting
                                         THEN Noted(r, CumExec(r)) ELSE unbooked[r]]
    BY <1>2, <2>2
  <2>. QED  BY <2>1, <2>2 DEF ReadOrders, ReadOrdersEarly, ReadOrdersFails, noteVars
<1>4. \A posRead : Present(posRead) \subseteq Rows /\ Absent(posRead) \subseteq Rows
  BY DEF Present, Absent, ByOrder, ByPosition, Open
<1>5. stamped' \subseteq Rows /\ due' \subseteq Rows
  BY <1>4 DEF ReadOrders, ReadOrdersEarly, ReadOrdersFails, PassInv
<1>6. pc' \in {"market", "confirm"}
  BY DEF ReadOrders, ReadOrdersEarly, ReadOrdersFails, AfterOrders
<1>7. PassInv'
  BY <1>1, <1>5, <1>6 DEF PassInv
<1>. QED  BY <1>1, <1>3, <1>7, NotesKeep DEF NoteInv

LEMMA ConfirmPositionRows ==
  ASSUME RowsInv, NEW r \in Rows, ConfirmPosition(r)
  PROVE  RowsOk(row', seen)
<1>. USE DEF RowsInv
<1>. DEFINE swept == [q \in Rows |-> [row[q] EXCEPT !.open = @ /\ ~Settled(q)]]
<1>1. ASSUME NEW q \in Rows
      PROVE  /\ swept[q] \in Record
             /\ \/ swept[q] = row[q]
                \/ /\ row[q].open /\ row[q].filled >= row[q].qty
                   /\ swept[q] = [row[q] EXCEPT !.open = FALSE]
  <2>1. row[q] \in Record
    BY DEF RowsOk
  <2>2. swept[q] = [row[q] EXCEPT !.open = @ /\ ~Settled(q)]
    OBVIOUS
  <2>. HIDE DEF swept
  <2>. QED  BY <2>1, <2>2, OpenOnly DEF Settled
<1>2. OnlyFullClosed(row, swept)
  BY <1>1 DEF OnlyFullClosed
<1>3. RowsOk(swept, seen)
  <2>. HIDE DEF swept
  <2>. QED  BY <1>2, ClosedKeepsRows
<1>4. row' = swept \/ row' = row
  BY DEF ConfirmPosition
<1>. QED  BY <1>3, <1>4

LEMMA ConfirmOrderRows ==
  ASSUME RowsInv, NoteInv, NEW r \in Rows, ConfirmOrder(r)
  PROVE  RowsOk(row', seen) /\ unbooked' \in [Rows -> 0 .. Size]
<1>. USE DEF RowsInv
<1>1. RowOk(row[r], r, seen) /\ row \in [Rows -> Record]
  BY DEF RowsOk
<1>2. PICK x : /\ row' = [row EXCEPT ![r] = x]
               /\ \/ CancelConfirmed(r) /\ x = RetireCancelled(row[r], VenueFilled(row[r]))
                  \/ status[r] = "filled" /\ x = SettleFilled(row[r], CumExec(r))
                  \/ x = row[r]
  <2>. DEFINE x == CASE CancelConfirmed(r)    -> RetireCancelled(row[r], VenueFilled(row[r]))
                     [] status[r] = "filled"  -> SettleFilled(row[r], CumExec(r))
                     [] OTHER                 -> row[r]
  <2>1. row' = [row EXCEPT ![r] = x]
    BY <1>1 DEF ConfirmOrder
  <2>2. \/ CancelConfirmed(r) /\ x = RetireCancelled(row[r], VenueFilled(row[r]))
        \/ status[r] = "filled" /\ x = SettleFilled(row[r], CumExec(r))
        \/ x = row[r]
    OBVIOUS
  <2>. HIDE DEF x
  <2>. QED  BY <2>1, <2>2
<1>3. RowOk(x, r, seen)
  <2>1. CASE CancelConfirmed(r) /\ x = RetireCancelled(row[r], VenueFilled(row[r]))
    BY <1>1, <2>1, CancelKeepsRow DEF CancelConfirmed
  <2>2. CASE status[r] = "filled" /\ x = SettleFilled(row[r], CumExec(r))
    BY <1>1, <2>2, SettleKeepsRow
  <2>. QED  BY <1>1, <1>2, <2>1, <2>2
<1>4. RowsOk(row', seen)
  <2>1. x \in Record
    BY <1>3 DEF RowOk
  <2>. QED  BY <1>1, <1>2, <1>3, <2>1 DEF RowsOk
<1>5. unbooked' \in [Rows -> 0 .. Size]
  <2>1. unbooked \in [Rows -> 0 .. Size] /\ Noted(r, CumExec(r)) \in 0 .. Size
    BY NotedInSize DEF NoteInv
  <2>. QED  BY <2>1 DEF ConfirmOrder
<1>. QED  BY <1>4, <1>5

LEMMA ConfirmKeeps ==
  ASSUME CursorInv, NEW r \in Rows, Confirm(r)
  PROVE  CursorInv'
<1>. USE DEF CursorInv
<1>1. UNCHANGED <<kind, execs, status, late, listed, pushes, endPush, seen, lastOwn, view,
                  checked, cancel, lost, restarts>>
  BY DEF Confirm, venueVars, pushVars, faultVars
<1>2. due' = due \ {r} /\ pc' \in {"market", "confirm"}
  BY DEF Confirm, AfterConfirm
<1>3. CASE Settled(r)
  <2>1. ConfirmPosition(r)
    BY <1>3 DEF Confirm
  <2>2. stamped' = stamped \ {r} /\ unbooked' = unbooked
    BY <2>1 DEF ConfirmPosition
  <2>3. RowsInv'
    BY <1>1, <2>1, ConfirmPositionRows, RowStep, RunStepKeeps
  <2>4. PassInv'
    BY <1>1, <1>2, <2>2 DEF PassInv
  <2>5. unbooked' \in [Rows -> 0 .. Size]
    BY <2>2 DEF NoteInv
  <2>. QED  BY <1>1, <2>3, <2>4, <2>5, SamePushes, SameNotes
<1>4. CASE ~Settled(r)
  <2>1. ConfirmOrder(r)
    BY <1>4 DEF Confirm
  <2>2. stamped' \subseteq stamped
    BY <2>1 DEF ConfirmOrder
  <2>3. RowsOk(row', seen) /\ unbooked' \in [Rows -> 0 .. Size]
    BY <2>1, ConfirmOrderRows
  <2>4. RowsInv'
    BY <1>1, <2>3, RowStep, RunStepKeeps
  <2>5. PassInv'
    BY <1>1, <1>2, <2>2 DEF PassInv
  <2>. QED  BY <1>1, <2>3, <2>4, <2>5, SamePushes, SameNotes
<1>. QED  BY <1>3, <1>4

LEMMA MarketReadsKeeps ==
  ASSUME CursorInv, NEW read \in SUBSET MarketDue, MarketReads(read), pc' = "backfill"
  PROVE  CursorInv'
<1>. USE DEF CursorInv
<1>1. UNCHANGED <<kind, execs, status, late, listed, pushes, endPush, row, seen, lastOwn, view,
                  due, stamped, cancel, lost, restarts>>
  BY DEF MarketReads, venueVars, pushVars, bookVars, faultVars
<1>2. \A r \in Rows : unbooked[r] \in 0 .. Size /\ Noted(r, CumExec(r)) \in 0 .. Size
  BY NotedInSize DEF NoteInv, RowsInv
<1>3. unbooked' \in [Rows -> 0 .. Size]
  BY <1>2 DEF MarketReads
<1>4. checked' \subseteq Market
  BY DEF MarketReads, MarketLags
<1>5. PassInv'
  BY <1>1 DEF PassInv
<1>. QED  BY <1>1, <1>3, <1>4, <1>5, NotesKeep

LEMMA BackfillKeeps ==
  ASSUME CursorInv, Backfill
  PROVE  CursorInv'
<1>. USE DEF CursorInv
<1>1. pc' = "recover" /\ BookAndSweep(Ids \ late, TRUE)
  BY DEF Backfill
<1>2. UNCHANGED <<kind, execs, status, late, listed, pushes, endPush, view, unbooked, checked,
                  due, stamped, cancel, lost, restarts>>
  BY DEF Backfill, venueVars, pushVars, noteVars, faultVars
<1>3. RunStep
  <2>1. Ids \ late \in SUBSET Ids
    OBVIOUS
  <2>2. RowsOk(row', seen') /\ seen' \subseteq Ids /\ lastOwn' \in 0 .. Len(execs)
    BY <1>1, <2>1, BookAndSweepRows
  <2>. QED  BY <1>2, <2>2 DEF RunStep, RowsInv, SeenInv
<1>4. RowsInv'
  BY <1>3, RunStepKeeps
<1>5. PassInv' /\ NoteInv'
  BY <1>1, <1>2 DEF PassInv, NoteInv, Market
<1>. QED  BY <1>2, <1>4, <1>5, SamePushes

LEMMA RecoverKeeps ==
  ASSUME CursorInv, Recover
  PROVE  CursorInv'
<1>. USE DEF CursorInv
<1>. DEFINE result == Booked(Recovered, TRUE)
            own == IF result.last > lastOwn THEN result.last ELSE lastOwn
<1>1. /\ pc' = "loop" /\ seen' = seen \cup Recovered /\ lastOwn' = own
      /\ unbooked' = [r \in Rows |-> IF Lags(result.row[r], unbooked[r]) THEN unbooked[r] ELSE 0]
      /\ row' = Swept(result.row, view, own, seen')
  BY DEF Recover
<1>2. UNCHANGED <<kind, execs, status, late, listed, pushes, endPush, view, checked,
                  due, stamped, cancel, lost, restarts>>
  BY DEF Recover, venueVars, pushVars, faultVars
<1>3. Recovered \in SUBSET Ids
  BY DEF Recovered, Shown, PushInv
<1>4. RowsOk(result.row, seen \cup Recovered) /\ result.last \in 0 .. Len(execs)
  BY <1>3, BookedAll DEF RowsInv, SeenInv
<1>5. \A known : RowsOk(Swept(result.row, view, own, known), seen \cup Recovered)
  BY <1>4, SweptRows DEF RowsInv
<1>. HIDE DEF result
<1>6. own \in 0 .. Len(execs)
  BY <1>4 DEF RowsInv, SeenInv
<1>. HIDE DEF own
<1>7. RunStep
  BY <1>1, <1>2, <1>3, <1>5, <1>6 DEF RunStep, RowsInv, SeenInv
<1>8. RowsInv'
  BY <1>7, RunStepKeeps
<1>9. unbooked' \in [Rows -> 0 .. Size]
  <2>1. Size \in Nat
    BY EntryRowsAssumption
  <2>2. \A r \in Rows : unbooked[r] \in 0 .. Size
    BY DEF NoteInv
  <2>. QED  BY <1>1, <2>1, <2>2
<1>10. PassInv'
  BY <1>1, <1>2 DEF PassInv
<1>. QED  BY <1>2, <1>8, <1>9, <1>10, SamePushes, SameNotes

LEMMA RecoverFailsKeeps ==
  ASSUME CursorInv, RecoverFails
  PROVE  CursorInv'
<1>. USE DEF CursorInv
<1>1. pc' = "loop" /\ row' = Swept(row, view, lastOwn, seen)
  BY DEF RecoverFails
<1>2. UNCHANGED <<kind, execs, status, late, listed, pushes, endPush, seen, lastOwn, view,
                  unbooked, checked, due, stamped, cancel, lost, restarts>>
  BY DEF RecoverFails, venueVars, pushVars, noteVars, faultVars
<1>3. RowsOk(row', seen)
  BY <1>1, SweptRows DEF RowsInv
<1>4. RowsInv'
  BY <1>2, <1>3, RowStep, RunStepKeeps
<1>5. PassInv' /\ NoteInv'
  BY <1>1, <1>2 DEF PassInv, NoteInv, Market
<1>. QED  BY <1>2, <1>4, <1>5, SamePushes

\* The failing reads and the index of the venue change no row.
LEMMA QuietKeeps ==
  ASSUME CursorInv,
         \/ ReadPositionFails \/ BackfillFails \/ \E r \in Rows : ConfirmFails(r)
         \/ \E r \in Rows : CancelNotFound(r)
  PROVE  CursorInv'
<1>. USE DEF CursorInv
<1>1. UNCHANGED <<kind, execs, status, late, listed, pushes, endPush, row, seen, lastOwn, view,
                  unbooked, checked, stamped, lost, restarts>>
  BY DEF ReadPositionFails, BackfillFails, ConfirmFails, CancelNotFound, venueVars, pushVars,
         bookVars, noteVars, passVars, faultVars
<1>2. /\ due' \subseteq due /\ pc' \in {pc, "ordersBlind", "recover", "market", "confirm"}
      /\ \/ cancel' = cancel
         \/ \E r \in Rows : cancel' = [cancel EXCEPT ![r] = "notFound"]
  BY DEF ReadPositionFails, BackfillFails, ConfirmFails, CancelNotFound, AfterConfirm, passVars
<1>3. cancel' \in [Rows -> {"none", "acked", "notFound"}]
  BY <1>2 DEF PassInv
<1>4. PassInv'
  BY <1>1, <1>2, <1>3 DEF PassInv
<1>. QED  BY <1>1, <1>4, NotesKeep DEF NoteInv

LEMMA IndexKeeps ==
  ASSUME CursorInv, NEW e \in Ids, Index(e)
  PROVE  CursorInv'
<1>. USE DEF CursorInv
<1>1. UNCHANGED <<kind, execs, status, late, pushes, endPush, row, seen, lastOwn, view,
                  unbooked, checked, pc, due, stamped, cancel, lost, restarts>>
  BY DEF Index, pushVars, bookVars, noteVars, passVars, faultVars
<1>2. listed' = listed \cup {e} /\ e \in late
  BY DEF Index
<1>3. RowsInv'
  BY <1>1, RowStep, RunStepKeeps DEF RowsInv
<1>4. PassInv' /\ NoteInv' /\ PushInv'
  BY <1>1, <1>2 DEF PassInv, NoteInv, PushInv, Market, Ids
<1>. QED  BY <1>3, <1>4

(***************************************************************************)
(* The engine's cancels.                                                   *)
(***************************************************************************)
LEMMA CancelAnsweredKeeps ==
  ASSUME CursorInv, NEW r \in Rows, CancelAnswered(r)
  PROVE  CursorInv'
<1>. USE DEF CursorInv
<1>1. cancel' = [cancel EXCEPT ![r] = "none"] /\ row' = [row EXCEPT ![r] = Flag(@)]
  BY DEF CancelAnswered
<1>2. UNCHANGED <<kind, execs, status, late, listed, pushes, endPush, seen, lastOwn, view,
                  unbooked, checked, pc, due, stamped, lost, restarts>>
  BY DEF CancelAnswered, venueVars, pushVars, noteVars, passVars, faultVars
<1>3. RowsOk(row', seen)
  <2>. DEFINE x == Flag(row[r])
  <2>1. row \in [Rows -> Record] /\ \A q \in Rows : RowOk(row[q], q, seen)
    BY DEF RowsInv, RowsOk
  <2>2. RowOk(x, r, seen)
    BY <2>1, FlagKeepsRow
  <2>3. row' = [row EXCEPT ![r] = x]
    BY <1>1, <2>1
  <2>. HIDE DEF x
  <2>4. x \in Record
    BY <2>2 DEF RowOk
  <2>. QED  BY <2>1, <2>2, <2>3, <2>4 DEF RowsOk
<1>4. RowsInv'
  BY <1>2, <1>3, RowStep, RunStepKeeps
<1>5. PassInv' /\ NoteInv'
  BY <1>1, <1>2 DEF PassInv, NoteInv, Market
<1>. QED  BY <1>2, <1>4, <1>5, SamePushes

LEMMA CancelReadBackKeeps ==
  ASSUME CursorInv, NEW r \in Rows, CancelReadBack(r)
  PROVE  CursorInv'
<1>. USE DEF CursorInv
<1>1. cancel' = [cancel EXCEPT ![r] = "none"]
      /\ IF status[r] = "dead" THEN RetireFound({r}) ELSE UNCHANGED <<row, unbooked>>
  BY DEF CancelReadBack
<1>2. UNCHANGED <<kind, execs, status, late, listed, pushes, endPush, seen, lastOwn, view,
                  checked, pc, due, stamped, lost, restarts>>
  BY DEF CancelReadBack, venueVars, pushVars, passVars, faultVars
<1>3. RowsOk(row', seen) /\ unbooked' \in [Rows -> 0 .. Size]
  <2>1. CASE status[r] = "dead"
    <3>1. \A q \in Rows : q \in {r} => status[q] # "live"
      BY <2>1
    <3>. QED  BY <1>1, <2>1, <3>1, RetireFoundRows
  <2>2. CASE status[r] # "dead"
    BY <1>1, <2>2 DEF RowsInv, NoteInv
  <2>. QED  BY <2>1, <2>2
<1>4. RowsInv'
  BY <1>2, <1>3, RowStep, RunStepKeeps
<1>5. PassInv'
  BY <1>1, <1>2 DEF PassInv
<1>. QED  BY <1>2, <1>3, <1>4, <1>5, SamePushes, SameNotes

LEMMA CancelLandsKeeps ==
  ASSUME CursorInv, NEW r \in Rows, CancelLands(r)
  PROVE  CursorInv'
<1>1. cancel' \in [Rows -> {"none", "acked", "notFound"}]
  BY DEF CancelLands, CursorInv, PassInv
<1>. QED  BY <1>1, EndsKeeps DEF CancelLands

LEMMA VenueCancelKeeps ==
  ASSUME CursorInv, NEW r \in Rows, VenueCancel(r)
  PROVE  CursorInv'
<1>1. cancel' \in [Rows -> {"none", "acked", "notFound"}]
  BY DEF VenueCancel, CursorInv, PassInv
<1>. QED  BY <1>1, EndsKeeps DEF VenueCancel

(***************************************************************************)
(* Restart                                                                 *)
(***************************************************************************)
LEMMA UnitsFinite ==
  ASSUME NEW rows, NEW s
  PROVE  IsFiniteSet(Units(rows, s)) /\ Sum(rows, s) \in Nat
<1>1. IsFiniteSet(Rows) /\ Size \in Nat /\ Size \in Int /\ 1 \in Int
  BY EntryRowsAssumption
<1>2. IsFiniteSet(1 .. Size)
  BY <1>1, FS_Interval
<1>3. IsFiniteSet(Rows \X (1 .. Size))
  BY <1>1, <1>2, FS_Product
<1>4. Units(rows, s) \subseteq Rows \X (1 .. Size)
  BY DEF Units
<1>. QED  BY <1>3, <1>4, FS_Subset, FS_CardinalityType DEF Sum

LEMMA HeldIsInt ==
  ASSUME VenueInv, NEW s, NEW n \in Nat
  PROVE  HeldAt(s, n) \in Int
<1>1. IsFiniteSet(1 .. n)
  BY FS_Interval
<1>2. \A X : X \subseteq 1 .. n => Cardinality(X) \in Nat
  BY <1>1, FS_Subset, FS_CardinalityType
<1>3. Cardinality({e \in 1 .. n : execs[e] \in Rows /\ SideOf(execs[e]) = s}) \in Nat
  BY <1>2
<1>4. CountUpTo(s, n) \in Nat
  BY <1>2 DEF CountUpTo
<1>. QED  BY <1>3, <1>4 DEF HeldAt

LEMMA ExcessIsNat ==
  ASSUME VenueInv, NEW rows, NEW s
  PROVE  Excess(rows, s) \in Nat
<1>1. Held(s) \in Int
  BY HeldIsInt DEF Held, VenueInv
<1>2. Sum(rows, s) \in Nat
  BY UnitsFinite
<1>. QED  BY <1>1, <1>2 DEF Excess

LEMMA ClampRows ==
  ASSUME VenueInv, NEW rows, NEW S, RowsOk(rows, S), NEW s
  PROVE  RowsOk(Clamp(rows, s), S)
<1>. DEFINE n == Excess(rows, s)
            sides == [k \in 1 .. n |-> s]
<1>1. n \in Nat
  BY ExcessIsNat
<1>. HIDE DEF n
<1>2. sides \in Seq({s})
  BY <1>1
<1>. HIDE DEF sides
<1>3. RowsOk(ReduceAll(rows, sides), S)
  BY <1>2, ReducedRows
<1>. QED  BY <1>3 DEF Clamp, sides, n

LEMMA NetUnbookedRows ==
  ASSUME VenueInv, NEW rows, NEW S, RowsOk(rows, S)
  PROVE  RowsOk(NetUnbooked(rows), S)
<1>. DEFINE sides == [e \in Ids |-> IF e \in Reductions \ seen THEN execs[e] ELSE "none"]
<1>1. sides \in Seq(Sides \cup {"none"})
  <2>1. Len(execs) \in Nat /\ Ids = 1 .. Len(execs)
    BY DEF VenueInv, Ids
  <2>2. \A e \in Reductions : execs[e] \in Sides
    BY DEF Reductions
  <2>. QED  BY <2>1, <2>2
<1>. HIDE DEF sides
<1>2. RowsOk(ReduceAll(rows, sides), S)
  BY <1>1, ReducedRows
<1>. QED  BY <1>2 DEF NetUnbooked, sides

\* The rows with the orphans closed, and the cursors walked.
Kept == [r \in Rows |-> IF r \in Orphans THEN [row[r] EXCEPT !.open = FALSE] ELSE row[r]]
Walked == [r \in Rows |-> IF Kept[r].open THEN Baselined(Kept[r], CumExec(r)) ELSE Kept[r]]

LEMMA WalkedRows ==
  ASSUME RowsInv
  PROVE  RowsOk(Walked, Ids)
<1>. USE DEF RowsInv
<1>1. ASSUME NEW r \in Rows
      PROVE  RowOk(Walked[r], r, Ids)
  <2>1. RowOk(row[r], r, seen) /\ OfRow(r) \subseteq Ids
    BY DEF RowsOk, OfRow
  <2>2. row[r].open => RowOk(Baselined(row[r], CumExec(r)), r, Ids)
    BY <2>1, BaselineKeepsRow
  <2>3. CASE r \in Orphans
    <3>1. status[r] # "live" /\ row[r].open /\ row[r] \in Record
      BY <2>1, <2>3 DEF Orphans, Open, RowOk
    <3>2. Kept[r] = [row[r] EXCEPT !.open = FALSE] /\ ~Kept[r].open
      BY <2>3, <3>1 DEF Kept, Record
    <3>. DEFINE y == Kept[r]
    <3>3. y \in Record
      BY <3>1, <3>2 DEF Record
    <3>. HIDE DEF y
    <3>4. RowOk(y, r, Ids)
      BY <2>1, <3>1, <3>2, <3>3 DEF RowOk, y
    <3>5. Walked[r] = y
      BY <3>2 DEF Walked, y
    <3>. QED  BY <3>4, <3>5
  <2>4. CASE r \notin Orphans
    <3>1. Kept[r] = row[r]
      BY <2>4 DEF Kept
    <3>2. CASE row[r].open
      BY <2>2, <3>1, <3>2 DEF Walked
    <3>3. CASE ~row[r].open
      <4>1. Walked[r] = row[r]
        BY <3>1, <3>3 DEF Walked
      <4>2. RowOk(row[r], r, Ids)
        BY <2>1, <3>3 DEF RowOk
      <4>. QED  BY <4>1, <4>2
    <3>. QED  BY <3>2, <3>3
  <2>. QED  BY <2>3, <2>4
<1>2. \A r \in Rows : Walked[r] \in Record
  BY <1>1 DEF RowOk
<1>3. Walked \in [Rows -> Record]
  BY <1>2 DEF Walked
<1>. QED  BY <1>1, <1>3 DEF RowsOk

LEMMA RestartKeeps ==
  ASSUME CursorInv, Restart
  PROVE  CursorInv'
<1>. USE DEF CursorInv
<1>1. row' = Clamped(NetUnbooked(Walked))
  BY DEF Restart, Walked, Kept
<1>2. /\ seen' = Ids /\ lastOwn' = 0 /\ view' = Len(execs)
      /\ unbooked' = [r \in Rows |-> 0] /\ checked' = {} /\ pc' = "loop" /\ due' = {}
      /\ pushes' = <<>> /\ endPush' = {} /\ cancel' = [r \in Rows |-> "none"]
      /\ UNCHANGED <<kind, execs, status, late, listed, stamped, lost>>
      /\ restarts < MaxRestarts /\ restarts' = restarts + 1
  BY DEF Restart, venueVars
<1>3. RowsOk(row', Ids)
  <2>1. RowsOk(NetUnbooked(Walked), Ids)
    BY WalkedRows, NetUnbookedRows DEF RowsInv
  <2>. QED  BY <1>1, <2>1, ClampRows DEF Clamped, RowsInv
<1>4. RunStep
  <2>1. Len(execs) \in Nat
    BY DEF RowsInv, VenueInv
  <2>. QED  BY <1>2, <1>3, <2>1 DEF RunStep
<1>5. RowsInv'
  BY <1>4, RunStepKeeps
<1>6. PushInv'
  BY <1>2 DEF PushInv, Ids
<1>7. PassInv'
  <2>1. restarts' \in 0 .. MaxRestarts
    BY <1>2, EntryRowsAssumption DEF PassInv
  <2>. QED  BY <1>2, <2>1 DEF PassInv
<1>8. NoteInv'
  BY <1>2, EntryRowsAssumption DEF NoteInv, Market
<1>. QED  BY <1>5, <1>6, <1>7, <1>8

(***************************************************************************)
(* The theorems about the cursor.                                          *)
(***************************************************************************)
LEMMA CursorStarts ==
  ASSUME Init
  PROVE  CursorInv
<1>1. Len(execs) = 0 /\ Ids = {} /\ Size \in Nat \ {0} /\ MaxExecs \in Nat
      /\ MaxLost \in Nat /\ MaxRestarts \in Nat
  <2>1. 1 .. 0 = {}
    OBVIOUS
  <2>. QED  BY <2>1, EntryRowsAssumption DEF Init, Ids
<1>2. \A r \in Rows : OfRow(r) = {} /\ CumExec(r) = 0
  BY <1>1, FS_EmptySet DEF OfRow, CumExec, CountUpTo, Ids
<1>3. VenueInv
  BY <1>1, <1>2 DEF Init, VenueInv
<1>4. RowsOk(row, seen)
  <2>1. Fresh \in Record /\ Fresh.open /\ Fresh.qty = Size /\ Fresh.filled = 0
        /\ Fresh.netted = 0
    BY <1>1 DEF Fresh, Record
  <2>2. \A r \in Rows : row[r] = Fresh /\ OfRow(r) \cap seen = {}
    BY <1>2 DEF Init
  <2>3. \A r \in Rows : Cardinality(OfRow(r) \cap seen) = 0
    BY <2>2, FS_EmptySet
  <2>. DEFINE x == Fresh
  <2>. HIDE DEF x
  <2>4. x \in Record /\ x.open /\ x.qty = Size /\ x.filled = 0 /\ x.netted = 0
        /\ VenueFilled(x) = 0 /\ x.filled <= x.qty /\ x.qty + x.netted = Size
    BY <1>1, <2>1 DEF x, VenueFilled
  <2>5. \A r \in Rows : RowOk(x, r, seen)
    BY <1>1, <1>2, <2>3, <2>4 DEF RowOk
  <2>. QED  BY <2>2, <2>4, <2>5 DEF RowsOk, Init, x
<1>5. EndInv /\ SeenInv /\ PushInv /\ PassInv /\ NoteInv
  BY <1>1 DEF Init, EndInv, SeenInv, PushInv, PassInv, NoteInv, Market
<1>. QED  BY <1>3, <1>4, <1>5 DEF CursorInv, RowsInv

LEMMA CursorStutters ==
  ASSUME CursorInv, UNCHANGED vars
  PROVE  CursorInv'
<1>1. UNCHANGED <<kind, execs, status, late, listed, pushes, endPush, row, seen, lastOwn, view,
                  unbooked, checked, pc, due, stamped, cancel, lost, restarts>>
  BY DEF vars, venueVars, pushVars, bookVars, noteVars, passVars, faultVars
<1>2. PassInv'
  BY <1>1 DEF CursorInv, PassInv
<1>. QED  BY <1>1, <1>2, NotesKeep DEF CursorInv, NoteInv

LEMMA CursorSteps ==
  ASSUME CursorInv, Next
  PROVE  CursorInv'
<1>1. CASE Venue
  BY <1>1, ExecuteKeeps, VenueCancelKeeps, ReduceKeeps, IndexKeeps DEF Venue
<1>2. CASE Pushes
  BY <1>2, HandleExecutionKeeps, HandleEndKeeps, HandlePositionKeeps DEF Pushes
<1>3. CASE Pass
  <2>1. CASE Settle \/ SettleFails
    BY <2>1, SettleCancelledKeeps DEF Settle, SettleFails
  <2>2. CASE ReadPosition
    BY <2>2, ReadPositionKeeps
  <2>3. CASE ReadOrders \/ ReadOrdersEarly \/ ReadOrdersFails
    BY <2>3, ReadOrdersKeeps
  <2>4. CASE \E r \in Rows : Confirm(r)
    BY <2>4, ConfirmKeeps
  <2>5. CASE MarketLookup \/ MarketLookupFails
    BY <2>5, MarketReadsKeeps DEF MarketLookup, MarketLookupFails
  <2>6. CASE Backfill \/ Recover \/ RecoverFails
    BY <2>6, BackfillKeeps, RecoverKeeps, RecoverFailsKeeps
  <2>7. CASE ReadPositionFails \/ BackfillFails \/ \E r \in Rows : ConfirmFails(r)
    BY <2>7, QuietKeeps
  <2>. QED  BY <1>3, <2>1, <2>2, <2>3, <2>4, <2>5, <2>6, <2>7 DEF Pass
<1>4. CASE Cancels
  BY <1>4, CancelLandsKeeps, CancelAnsweredKeeps, CancelReadBackKeeps, QuietKeeps DEF Cancels
<1>5. CASE Restart
  BY <1>5, RestartKeeps
<1>. QED  BY <1>1, <1>2, <1>3, <1>4, <1>5 DEF Next

\* The inductive invariant of the rows: an open row counts the executions booked and keeps
\* room for all its order made; a closed one's order has ended and nothing of it is to come.
THEOREM CursorInvariant == Spec => []CursorInv
<1>1. Init => CursorInv
  BY CursorStarts
<1>2. CursorInv /\ [Next]_vars => CursorInv'
  BY CursorSteps, CursorStutters
<1>. QED  BY <1>1, <1>2, PTL DEF Spec

\* Every variable of the rows' module keeps its type (reconcile.py, events.py, positions.py).
THEOREM RowsTyped == Spec => []TypeOK
<1>1. CursorInv => TypeOK
  <2>. SUFFICES ASSUME CursorInv
                PROVE  TypeOK
    OBVIOUS
  <2>1. row \in [Rows -> [open : BOOLEAN, qty : 0 .. Size, filled : 0 .. Size,
                          netted : 0 .. Size, flagged : BOOLEAN, known : BOOLEAN]]
    BY DEF CursorInv, RowsInv, RowsOk, Record
  <2>2. execs \in Seq(Rows \cup Sides) /\ Len(execs) <= MaxExecs
        /\ status \in [Rows -> {"live", "filled", "dead"}]
    BY DEF CursorInv, RowsInv, VenueInv
  <2>3. seen \subseteq Ids /\ lastOwn \in 0 .. Len(execs) /\ view \in -1 .. Len(execs)
        /\ endPush \subseteq Rows
    BY DEF CursorInv, RowsInv, SeenInv, EndInv
  <2>4. pushes \in Seq(Ids) /\ late \subseteq Ids /\ listed \subseteq late
        /\ unbooked \in [Rows -> 0 .. Size] /\ checked \subseteq Market
    BY DEF CursorInv, PushInv, NoteInv
  <2>. QED  BY <2>1, <2>2, <2>3, <2>4 DEF TypeOK, CursorInv, PassInv
<1>. QED  BY <1>1, CursorInvariant, PTL

\* Cursor and netted quantity together are the executions booked: the figure compared with
\* the venue's cumExecQty is true (venue_filled_qty).
THEOREM CursorIsBooked == Spec => []CursorMatches
<1>1. CursorInv => CursorMatches
  <2>. SUFFICES ASSUME CursorInv, NEW r \in Open
                PROVE  VenueFilled(row[r]) = Cardinality(seen \cap {e \in Ids : execs[e] = r})
    BY DEF CursorMatches
  <2>1. r \in Rows /\ row[r].open /\ RowOk(row[r], r, seen)
    BY DEF Open, CursorInv, RowsInv, RowsOk
  <2>2. OfRow(r) \cap seen = seen \cap {e \in Ids : execs[e] = r}
    BY DEF OfRow
  <2>. QED  BY <2>1, <2>2 DEF RowOk
<1>. QED  BY <1>1, CursorInvariant, PTL

\* An open row keeps room for every execution its order made and the run has not booked, in
\* whatever order cancels, pushes, reads, restarts and late executions come (set_filled).
THEOREM RoomIsKept == Spec => []RoomForOwed
<1>1. CursorInv => RoomForOwed
  <2>. SUFFICES ASSUME CursorInv, NEW r \in Open
                PROVE  row[r].qty - row[r].filled >= Cardinality(Unseen(r))
    BY DEF RoomForOwed
  <2>. DEFINE x == row[r]
              booked == Cardinality(OfRow(r) \cap seen)
              owed == Cardinality(Unseen(r))
  <2>1. r \in Rows /\ x.open /\ RowOk(x, r, seen) /\ VenueInv
    BY DEF Open, CursorInv, RowsInv, RowsOk
  <2>2. booked \in Nat /\ IsFiniteSet(OfRow(r)) /\ CumExec(r) = Cardinality(OfRow(r))
    <3>1. OfRow(r) \cap Ids = OfRow(r)
      BY DEF OfRow
    <3>. QED  BY <2>1, <3>1, Counted DEF VenueInv
  <2>3. Unseen(r) = OfRow(r) \ (OfRow(r) \cap seen)
    BY DEF Unseen, OfRow
  <2>4. owed = CumExec(r) - booked
    <3>1. (OfRow(r) \cap seen) \subseteq OfRow(r)
      OBVIOUS
    <3>2. OfRow(r) \cap (OfRow(r) \cap seen) = OfRow(r) \cap seen
      OBVIOUS
    <3>. QED  BY <2>2, <2>3, <3>2, FS_Difference
  <2>5. x.filled \in Nat /\ x.qty \in Nat /\ x.netted \in Nat /\ CumExec(r) \in Nat
    <3>1. CumExec(r) \in Nat
      BY <2>1, Counted DEF VenueInv
    <3>2. x \in Record
      BY <2>1 DEF RowOk
    <3>. HIDE DEF x
    <3>. QED  BY <3>1, <3>2 DEF Record
  <2>6. x.filled + x.netted = booked /\ CumExec(r) <= x.qty + x.netted
    BY <2>1 DEF RowOk, VenueFilled
  <2>. HIDE DEF x, booked, owed
  <2>7. x.qty - x.filled >= owed
    BY <2>2, <2>4, <2>5, <2>6
  <2>. QED  BY <2>7 DEF x, owed
<1>. QED  BY <1>1, CursorInvariant, PTL

(***************************************************************************)
(* Exposure: the run on one side, counted in executions.                   *)
(***************************************************************************)
Opened(S) == {e \in S : execs[e] \in Rows}
Reduced(S) == {e \in S : execs[e] \in Sides}

\* The rows own what is booked of the run's exposure.
Covers(rows, S) ==
    Cardinality(Opened(S)) <= Sum(rows, "buy") + Cardinality(Reduced(S))

OneSide == \A e \in Ids : execs[e] # "sell"

LEMMA OpenedCounts ==
  ASSUME VenueInv, NEW S \in SUBSET Ids
  PROVE  /\ IsFiniteSet(Opened(S)) /\ IsFiniteSet(Reduced(S))
         /\ Cardinality(Opened(S)) \in Nat /\ Cardinality(Reduced(S)) \in Nat
<1>1. Len(execs) \in Nat /\ Len(execs) \in Int /\ 1 \in Int
  BY DEF VenueInv
<1>2. IsFiniteSet(Ids)
  BY <1>1, FS_Interval DEF Ids
<1>3. Opened(S) \subseteq Ids /\ Reduced(S) \subseteq Ids
  BY DEF Opened, Reduced
<1>4. IsFiniteSet(Opened(S)) /\ IsFiniteSet(Reduced(S))
  BY <1>2, <1>3, FS_Subset
<1>. QED  BY <1>4, FS_CardinalityType

LEMMA OpenedOne ==
  ASSUME VenueInv, NEW S \in SUBSET Ids, NEW e \in Ids, e \notin S
  PROVE  /\ Cardinality(Opened(S \cup {e}))
              = IF execs[e] \in Rows THEN Cardinality(Opened(S)) + 1 ELSE Cardinality(Opened(S))
         /\ Cardinality(Reduced(S \cup {e}))
              = IF execs[e] \in Rows THEN Cardinality(Reduced(S)) ELSE Cardinality(Reduced(S)) + 1
<1>1. IsFiniteSet(Opened(S)) /\ IsFiniteSet(Reduced(S)) /\ e \notin Opened(S)
      /\ e \notin Reduced(S)
  BY OpenedCounts DEF Opened, Reduced
<1>2. execs[e] \in Rows \cup Sides /\ Rows \cap Sides = {}
  BY EntryRowsAssumption DEF VenueInv, Ids, Sides
<1>3. CASE execs[e] \in Rows
  <2>1. Opened(S \cup {e}) = Opened(S) \cup {e} /\ Reduced(S \cup {e}) = Reduced(S)
    BY <1>2, <1>3 DEF Opened, Reduced
  <2>. QED  BY <1>1, <1>3, <2>1, FS_AddElement
<1>4. CASE execs[e] \notin Rows
  <2>1. Opened(S \cup {e}) = Opened(S) /\ Reduced(S \cup {e}) = Reduced(S) \cup {e}
    BY <1>2, <1>4 DEF Opened, Reduced
  <2>. QED  BY <1>1, <1>4, <2>1, FS_AddElement
<1>. QED  BY <1>3, <1>4

\* The exposure of the one side is openings less reductions.
LEMMA HeldCounts ==
  ASSUME VenueInv, OneSide, Selling = {}, NEW n \in 0 .. Len(execs)
  PROVE  /\ 1 .. n \in SUBSET Ids
         /\ HeldAt("buy", n) = Cardinality(Opened(1 .. n)) - Cardinality(Reduced(1 .. n))
         /\ HeldAt("sell", n) <= 0
<1>1. Len(execs) \in Nat /\ 1 .. n \in SUBSET Ids /\ n \in Nat
  BY DEF VenueInv, Ids
<1>2. \A r \in Rows : SideOf(r) = "buy"
  BY DEF SideOf
<1>3. {e \in 1 .. n : execs[e] \in Rows /\ SideOf(execs[e]) = "buy"} = Opened(1 .. n)
  BY <1>2 DEF Opened
<1>4. \A e \in 1 .. n : execs[e] = "buy" <=> execs[e] \in Sides
  BY <1>1 DEF OneSide, Sides
<1>5. {e \in 1 .. n : execs[e] = "buy"} = Reduced(1 .. n)
  BY <1>4 DEF Reduced
<1>6. {e \in 1 .. n : execs[e] \in Rows /\ SideOf(execs[e]) = "sell"} = {}
  BY <1>2
<1>7. HeldAt("buy", n) = Cardinality(Opened(1 .. n)) - Cardinality(Reduced(1 .. n))
  BY <1>3, <1>5 DEF HeldAt, CountUpTo
<1>8. {e \in 1 .. n : execs[e] = "sell"} = {}
  BY <1>1 DEF OneSide
<1>9. HeldAt("sell", n) = 0
  <2>1. Cardinality({e \in 1 .. n : execs[e] \in Rows /\ SideOf(execs[e]) = "sell"}) = 0
    BY <1>6, FS_EmptySet
  <2>2. CountUpTo("sell", n) = 0
    BY <1>8, FS_EmptySet DEF CountUpTo
  <2>. QED  BY <2>1, <2>2 DEF HeldAt
<1>. QED  BY <1>1, <1>7, <1>9

LEMMA FlatCounts ==
  ASSUME VenueInv, OneSide, Selling = {}, NEW n \in 0 .. Len(execs), FlatAt(n)
  PROVE  Cardinality(Opened(1 .. n)) = Cardinality(Reduced(1 .. n))
<1>1. HeldAt("buy", n) = 0
  BY DEF FlatAt, Sides
<1>2. 1 .. n \in SUBSET Ids
      /\ HeldAt("buy", n) = Cardinality(Opened(1 .. n)) - Cardinality(Reduced(1 .. n))
  BY HeldCounts
<1>3. Cardinality(Opened(1 .. n)) \in Nat /\ Cardinality(Reduced(1 .. n)) \in Nat
  BY <1>2, OpenedCounts
<1>. QED  BY <1>1, <1>2, <1>3

\* Where as much was reduced as opened, any rows cover it.
LEMMA EvenCovers ==
  ASSUME VenueInv, NEW S \in SUBSET Ids,
         Cardinality(Opened(S)) <= Cardinality(Reduced(S)), NEW rows
  PROVE  Covers(rows, S)
<1>1. Cardinality(Opened(S)) \in Nat /\ Cardinality(Reduced(S)) \in Nat
      /\ Sum(rows, "buy") \in Nat
  BY OpenedCounts, UnitsFinite
<1>. QED  BY <1>1 DEF Covers

(***************************************************************************)
(* What the operations do to the units the rows own.                       *)
(***************************************************************************)
Owns(x, u) == x.open /\ u <= x.filled

LEMMA SameUnits ==
  ASSUME NEW rows, NEW others,
         \A r \in Rows : \A u \in 1 .. Size : Owns(rows[r], u) <=> Owns(others[r], u)
  PROVE  \A s : Sum(rows, s) = Sum(others, s)
<1>. SUFFICES ASSUME NEW s
              PROVE  Units(rows, s) = Units(others, s)
  BY DEF Sum
<1>. QED  BY DEF Units, Owns

\* The netting takes one unit of a row that owns any.
LEMMA NetTakesOne ==
  ASSUME NEW x \in Record, x.open, x.filled > 0, x.filled <= x.qty, NEW u \in 1 .. Size
  PROVE  Owns(NetEntryRow(x), u) <=> (Owns(x, u) /\ u # x.filled)
<1>1. Size \in Nat
  BY EntryRowsAssumption
<1>2. x.filled \in Nat /\ x.qty \in Nat
  BY <1>1 DEF Record
<1>3. CASE x.qty = 1
  <2>. DEFINE y == [x EXCEPT !.open = FALSE]
  <2>1. ~y.open /\ NetEntryRow(x) = y
    BY <1>3 DEF Record, NetEntryRow
  <2>2. x.filled = 1
    BY <1>2, <1>3
  <2>. HIDE DEF y
  <2>. QED  BY <1>1, <2>1, <2>2 DEF Owns
<1>4. CASE x.qty # 1
  <2>. DEFINE y == [x EXCEPT !.qty = @ - 1, !.filled = @ - 1, !.netted = @ + 1]
  <2>1. y.open /\ y.filled = x.filled - 1 /\ NetEntryRow(x) = y
    BY <1>4 DEF Record, NetEntryRow
  <2>. HIDE DEF y
  <2>. QED  BY <1>1, <1>2, <2>1 DEF Owns
<1>. QED  BY <1>3, <1>4

\* No row is on another side than "buy".
LEMMA OthersOwnNothing ==
  ASSUME Selling = {}, NEW rows, NEW s, s # "buy"
  PROVE  ReduceOwnership(rows, s) = rows
<1>1. Owning(rows, s) = {}
  BY DEF Owning, SideOf
<1>. QED  BY <1>1 DEF ReduceOwnership

LEMMA ReduceTakesOne ==
  ASSUME VenueInv, Selling = {}, NEW rows, NEW S, RowsOk(rows, S)
  PROVE  Sum(ReduceOwnership(rows, "buy"), "buy") >= Sum(rows, "buy") - 1
<1>1. CASE Owning(rows, "buy") = {}
  <2>1. ReduceOwnership(rows, "buy") = rows /\ Sum(rows, "buy") \in Nat
    BY <1>1, UnitsFinite DEF ReduceOwnership
  <2>. QED  BY <2>1
<1>2. CASE Owning(rows, "buy") # {}
  <2>. DEFINE oldest == CHOOSE r \in Owning(rows, "buy") : TRUE
              y == NetEntryRow(rows[oldest])
              reduced == ReduceOwnership(rows, "buy")
              gone == <<oldest, rows[oldest].filled>>
  <2>1. oldest \in Owning(rows, "buy")
    BY <1>2
  <2>2. reduced = [rows EXCEPT ![oldest] = y]
    BY <1>2 DEF ReduceOwnership
  <2>. HIDE DEF oldest, reduced
  <2>3. oldest \in Rows /\ rows[oldest].open /\ rows[oldest].filled > 0
        /\ SideOf(oldest) = "buy" /\ RowOk(rows[oldest], oldest, S) /\ rows \in [Rows -> Record]
    BY <2>1 DEF Owning, RowsOk
  <2>4. \A u \in 1 .. Size : Owns(y, u) <=> (Owns(rows[oldest], u) /\ u # rows[oldest].filled)
    BY <2>3, NetTakesOne DEF RowOk
  <2>. HIDE DEF y
  <2>5. \A r \in Rows : reduced[r] = IF r = oldest THEN y ELSE rows[r]
    BY <2>2, <2>3
  <2>6. Units(reduced, "buy") = Units(rows, "buy") \ {gone}
    BY <2>3, <2>4, <2>5 DEF Units, Owns
  <2>7. Sum(reduced, "buy") = Sum(rows, "buy")
        \/ Sum(reduced, "buy") = Sum(rows, "buy") - 1
    <3>1. IsFiniteSet(Units(rows, "buy"))
      BY UnitsFinite
    <3>2. CASE gone \in Units(rows, "buy")
      BY <2>6, <3>1, <3>2, FS_RemoveElement DEF Sum
    <3>3. CASE gone \notin Units(rows, "buy")
      <4>1. Units(reduced, "buy") = Units(rows, "buy")
        BY <2>6, <3>3
      <4>. QED  BY <4>1 DEF Sum
    <3>. QED  BY <3>2, <3>3
  <2>8. Sum(rows, "buy") \in Nat
    BY UnitsFinite
  <2>. QED  BY <2>7, <2>8 DEF reduced
<1>. QED  BY <1>1, <1>2

LEMMA FillAddsOne ==
  ASSUME VenueInv, Selling = {}, NEW rows, NEW S, RowsOk(rows, S), NEW e \in Ids, e \notin S,
         execs[e] \in Rows
  PROVE  Sum(BookExecution(rows, e), "buy") = Sum(rows, "buy") + 1
<1>. DEFINE r == execs[e]
            x == rows[r]
            y == FillRow(x)
            filled == BookExecution(rows, e)
            new == <<r, x.filled + 1>>
<1>1. execs[e] \notin Sides /\ rows \in [Rows -> Record] /\ RowOk(x, r, S) /\ Size \in Nat
  BY EntryRowsAssumption DEF Sides, RowsOk
<1>2. filled = [rows EXCEPT ![r] = y]
  BY <1>1 DEF BookExecution
<1>. HIDE DEF filled
<1>3. x.open /\ x.filled < x.qty
  BY <1>1, RoomForOne
<1>4. x.filled \in Nat /\ x.qty \in 0 .. Size /\ x \in Record
  BY <1>1 DEF Record
<1>5. y.open /\ y.filled = x.filled + 1
  BY <1>3, <1>4 DEF FillRow, Record
<1>6. x.filled + 1 \in 1 .. Size
  BY <1>1, <1>3, <1>4
<1>7. SideOf(r) = "buy"
  BY DEF SideOf
<1>. HIDE DEF x, y
<1>8. \A q \in Rows : filled[q] = IF q = r THEN y ELSE rows[q]
  BY <1>1, <1>2
<1>9. Units(filled, "buy") = Units(rows, "buy") \cup {new} /\ new \notin Units(rows, "buy")
  BY <1>1, <1>3, <1>4, <1>5, <1>6, <1>7, <1>8 DEF Units, x
<1>10. IsFiniteSet(Units(rows, "buy"))
  BY UnitsFinite
<1>. QED  BY <1>9, <1>10, FS_AddElement DEF Sum, filled

\* Booking an execution keeps the rows' cover.
LEMMA BookKeepsCover ==
  ASSUME VenueInv, OneSide, Selling = {}, NEW rows, NEW S \in SUBSET Ids, RowsOk(rows, S),
         NEW e \in Ids, e \notin S, Covers(rows, S)
  PROVE  Covers(BookExecution(rows, e), S \cup {e})
<1>1. Cardinality(Opened(S)) \in Nat /\ Cardinality(Reduced(S)) \in Nat
      /\ Sum(rows, "buy") \in Nat /\ Sum(BookExecution(rows, e), "buy") \in Nat
  BY OpenedCounts, UnitsFinite
<1>2. CASE execs[e] \in Rows
  <2>1. Sum(BookExecution(rows, e), "buy") = Sum(rows, "buy") + 1
    BY <1>2, FillAddsOne
  <2>2. Cardinality(Opened(S \cup {e})) = Cardinality(Opened(S)) + 1
        /\ Cardinality(Reduced(S \cup {e})) = Cardinality(Reduced(S))
    BY <1>2, OpenedOne
  <2>. QED  BY <1>1, <2>1, <2>2 DEF Covers
<1>3. CASE execs[e] \notin Rows
  <2>1. execs[e] = "buy"
    BY <1>3 DEF VenueInv, Ids, Sides, OneSide
  <2>2. BookExecution(rows, e) = ReduceOwnership(rows, "buy")
    BY <2>1 DEF BookExecution, Sides
  <2>3. Sum(BookExecution(rows, e), "buy") >= Sum(rows, "buy") - 1
    BY <2>2, ReduceTakesOne
  <2>4. Cardinality(Opened(S \cup {e})) = Cardinality(Opened(S))
        /\ Cardinality(Reduced(S \cup {e})) = Cardinality(Reduced(S)) + 1
    BY <1>3, OpenedOne
  <2>. QED  BY <1>1, <2>3, <2>4 DEF Covers
<1>. QED  BY <1>2, <1>3

LEMMA BookedCovers ==
  ASSUME VenueInv, OneSide, Selling = {}, seen \subseteq Ids, RowsOk(row, seen),
         Covers(row, seen), NEW entries \in SUBSET Ids, NEW barrier
  PROVE  Covers(Booked(entries, barrier).row, seen \cup entries)
<1>1. PICK F : BookedUpTo(entries, barrier, F)
  BY RowsAreLoose, BookedStepwise DEF VenueInv
<1>2. Len(execs) \in Nat /\ Ids = 1 .. Len(execs)
  BY DEF VenueInv, Ids
<1>3. \A k \in Nat : k <= Len(execs) => RowsOk(F[k].row, SeenUpTo(entries, k))
  <2>1. \A k \in 0 .. Len(execs) : AccountOk(entries, F[k], k)
    BY <1>1, BookedRows
  <2>2. \A k \in Nat : k <= Len(execs) => k \in 0 .. Len(execs)
    BY <1>2
  <2>. QED  BY <2>1, <2>2 DEF AccountOk
<1>. DEFINE G == {k \in Nat : k <= Len(execs) => Covers(F[k].row, SeenUpTo(entries, k))}
<1>4. 0 \in G
  <2>1. 1 .. 0 = {} /\ F[0].row = row
    BY <1>1 DEF BookedUpTo
  <2>2. SeenUpTo(entries, 0) = seen
    BY <2>1 DEF SeenUpTo
  <2>. QED  BY <2>1, <2>2
<1>5. ASSUME NEW k \in Ids, Covers(F[k - 1].row, SeenUpTo(entries, k - 1))
      PROVE  Covers(F[k].row, SeenUpTo(entries, k))
  <2>. DEFINE acc == F[k - 1]
              S == SeenUpTo(entries, k - 1)
  <2>1. RowsOk(acc.row, SeenUpTo(entries, k - 1))
    BY <1>2, <1>3
  <2>2. F[k] = BookOne(entries, barrier, acc, k)
    BY <1>1 DEF BookedUpTo
  <2>3. S \in SUBSET Ids
    BY DEF SeenUpTo
  <2>. HIDE DEF acc
  <2>4. CASE k \in entries \ seen
    <3>1. /\ BookOne(entries, barrier, acc, k) = [row |-> BookExecution(acc.row, k), last |-> k]
          /\ k \notin SeenUpTo(entries, k - 1)
          /\ SeenUpTo(entries, k) = SeenUpTo(entries, k - 1) \cup {k}
      BY <2>1, <2>4, BookOneStep
    <3>2. Covers(acc.row, S)
      BY <1>5 DEF acc
    <3>. HIDE DEF S
    <3>3. RowsOk(acc.row, S) /\ k \notin S
      BY <2>1, <3>1 DEF S
    <3>4. Covers(BookExecution(acc.row, k), S \cup {k})
      BY <2>3, <3>2, <3>3, BookKeepsCover
    <3>5. F[k].row = BookExecution(acc.row, k)
      BY <2>2, <3>1
    <3>. QED  BY <3>1, <3>4, <3>5 DEF S
  <2>5. CASE k \notin entries \ seen
    <3>1. BookOne(entries, barrier, acc, k) = acc
          /\ SeenUpTo(entries, k) = SeenUpTo(entries, k - 1)
      <4>1. 1 .. k = (1 .. (k - 1)) \cup {k}
        BY <1>2
      <4>. QED  BY <2>5, <4>1 DEF BookOne, SeenUpTo
    <3>. QED  BY <1>5, <2>2, <3>1 DEF acc
  <2>. QED  BY <2>4, <2>5
<1>6. ASSUME NEW j \in Nat, j \in G, j + 1 <= Len(execs)
      PROVE  Covers(F[j + 1].row, SeenUpTo(entries, j + 1))
  <2>1. j + 1 \in Ids /\ (j + 1) - 1 = j /\ j <= Len(execs)
    BY <1>2, <1>6
  <2>2. Covers(F[(j + 1) - 1].row, SeenUpTo(entries, (j + 1) - 1))
    BY <1>6, <2>1
  <2>. QED  BY <1>5, <2>1, <2>2
<1>7. \A j \in Nat : j \in G => j + 1 \in G
  BY <1>6
<1>8. \A k \in Nat : k \in G
  <2>. HIDE DEF G
  <2>. QED  BY <1>4, <1>7, EveryNat
<1>9. Covers(F[Len(execs)].row, SeenUpTo(entries, Len(execs)))
  BY <1>2, <1>8
<1>10. SeenUpTo(entries, Len(execs)) = seen \cup entries
  BY <1>2 DEF SeenUpTo
<1>. QED  BY <1>1, <1>9, <1>10 DEF BookedUpTo

\* The flat sweep drops no exposure: its view is no older than what is booked, which
\* explains it.
LEMMA SweptCovers ==
  ASSUME VenueInv, OneSide, Selling = {}, NEW rows, NEW S \in SUBSET Ids, Covers(rows, S),
         NEW at \in -1 .. Len(execs), NEW own \in Nat,
         \A e \in S : e <= own \/ e <= at
  PROVE  Covers(Swept(rows, at, own, S), S)
<1>1. CASE ~(DerivIsFlat(rows, at, own) /\ ~SweepWaits(at, S))
  <2>1. Swept(rows, at, own, S) = rows
    BY <1>1 DEF Swept
  <2>. QED  BY <2>1
<1>2. CASE DerivIsFlat(rows, at, own) /\ ~SweepWaits(at, S)
  <2>1. at >= own /\ at \in 0 .. Len(execs)
    BY <1>2 DEF DerivIsFlat, VenueInv
  <2>2. CASE Hedge
    <3>1. Sum(rows, "buy") = Sum(rows, "sell")
      BY <1>2, <2>2 DEF DerivIsFlat
    <3>2. Units(rows, "sell") = {}
      BY DEF Units, SideOf
    <3>3. Sum(rows, "buy") = 0
      BY <3>1, <3>2, FS_EmptySet DEF Sum
    <3>4. Cardinality(Opened(S)) <= Cardinality(Reduced(S))
      <4>1. Cardinality(Reduced(S)) \in Nat
        BY OpenedCounts
      <4>. QED  BY <3>3, <4>1 DEF Covers
    <3>. QED  BY <3>4, EvenCovers
  <2>3. CASE ~Hedge
    <3>1. FlatAt(at) /\ 1 .. at \subseteq S
      BY <1>2, <2>3 DEF DerivIsFlat, SweepWaits
    <3>2. S \subseteq 1 .. at
      <4>. SUFFICES ASSUME NEW e \in S
                    PROVE  e \in 1 .. at
        OBVIOUS
      <4>1. e \in Nat /\ e >= 1 /\ (e <= own \/ e <= at)
        BY DEF Ids, VenueInv
      <4>. QED  BY <2>1, <4>1 DEF VenueInv
    <3>3. S = 1 .. at
      BY <3>1, <3>2
    <3>4. Cardinality(Opened(S)) = Cardinality(Reduced(S))
      BY <2>1, <3>1, <3>3, FlatCounts
    <3>5. Cardinality(Opened(S)) \in Nat /\ Cardinality(Reduced(S)) \in Nat
      BY OpenedCounts
    <3>. QED  BY <3>4, <3>5, EvenCovers
  <2>. QED  BY <2>2, <2>3
<1>. QED  BY <1>1, <1>2

\* A retirement with the venue's figure leaves what the row owns.
LEMMA RetireKeepsUnits ==
  ASSUME NEW x \in Record, NEW cum \in Nat, NEW u \in 1 .. Size
  PROVE  Owns(RetireCancelled(x, cum), u) <=> Owns(x, u)
<1>1. Size \in Nat
  BY EntryRowsAssumption
<1>2. x.filled \in Nat /\ x.netted \in Nat
  BY <1>1 DEF Record
<1>. DEFINE executed == IF cum - x.netted > x.filled THEN cum - x.netted ELSE x.filled
<1>3. CASE ~x.open
  BY <1>3 DEF RetireCancelled
<1>4. CASE x.open /\ executed = 0
  <2>1. RetireCancelled(x, cum) = [x EXCEPT !.open = FALSE]
    BY <1>4 DEF RetireCancelled
  <2>2. ~RetireCancelled(x, cum).open
    BY <2>1 DEF Record
  <2>3. x.filled = 0
    BY <1>2, <1>4
  <2>. QED  BY <2>2, <2>3 DEF Owns
<1>5. CASE x.open /\ executed # 0
  <2>. DEFINE y == [x EXCEPT !.qty = executed, !.flagged = TRUE, !.known = TRUE]
  <2>1. RetireCancelled(x, cum) = y
    BY <1>5 DEF RetireCancelled
  <2>2. y.open = x.open /\ y.filled = x.filled
    BY DEF Record
  <2>. HIDE DEF y
  <2>. QED  BY <2>1, <2>2 DEF Owns
<1>. QED  BY <1>3, <1>4, <1>5

LEMMA SettleKeepsUnits ==
  ASSUME NEW x \in Record, NEW cum, NEW u \in 1 .. Size
  PROVE  /\ Owns(SettleFilled(x, cum), u) <=> Owns(x, u)
         /\ Owns(Flag(x), u) <=> Owns(x, u)
<1>1. SettleFilled(x, cum).open = x.open /\ SettleFilled(x, cum).filled = x.filled
  BY DEF SettleFilled, Record
<1>2. Flag(x).open = x.open /\ Flag(x).filled = x.filled
  BY DEF Flag, Record
<1>. QED  BY <1>1, <1>2 DEF Owns

\* The reducing of one unit after the other.
LEMMA ReducedSum ==
  ASSUME VenueInv, Selling = {}, NEW rows, NEW S, RowsOk(rows, S), NEW X, NEW sides \in Seq(X)
  PROVE  Sum(ReduceAll(rows, sides), "buy")
           >= Sum(rows, "buy") - Cardinality({k \in 1 .. Len(sides) : sides[k] = "buy"})
<1>1. PICK F : ReducedUpTo(rows, sides, F)
  BY RowsAreLoose, ReduceStepwise
<1>2. \A k \in Nat : k <= Len(sides) => RowsOk(F[k], S)
  BY <1>1, ReducingRows
<1>. DEFINE Taken(n) == {k \in 1 .. n : sides[k] = "buy"}
            G == {n \in Nat : n <= Len(sides) =>
                    Sum(F[n], "buy") >= Sum(rows, "buy") - Cardinality(Taken(n))}
<1>3. Len(sides) \in Nat
  OBVIOUS
<1>4. \A n \in Nat : IsFiniteSet(Taken(n)) /\ Cardinality(Taken(n)) \in Nat
  <2>. SUFFICES ASSUME NEW n \in Nat
                PROVE  IsFiniteSet(Taken(n)) /\ Cardinality(Taken(n)) \in Nat
    OBVIOUS
  <2>1. IsFiniteSet(1 .. n)
    BY FS_Interval
  <2>2. Taken(n) \subseteq 1 .. n
    OBVIOUS
  <2>. QED  BY <2>1, <2>2, FS_Subset, FS_CardinalityType
<1>5. \A R : Sum(R, "buy") \in Nat
  BY UnitsFinite
<1>6. 0 \in G
  <2>1. F[0] = rows
    BY <1>1 DEF ReducedUpTo
  <2>2. Cardinality(Taken(0)) \in Nat
    BY <1>4
  <2>3. Sum(rows, "buy") \in Nat
    BY <1>5
  <2>. HIDE DEF Taken
  <2>. QED  BY <2>1, <2>2, <2>3
<1>7. ASSUME NEW n \in Nat, n \in G, n + 1 <= Len(sides)
      PROVE  Sum(F[n + 1], "buy") >= Sum(rows, "buy") - Cardinality(Taken(n + 1))
  <2>. DEFINE k == n + 1
  <2>1. k \in 1 .. Len(sides) /\ k - 1 = n /\ n <= Len(sides)
    BY <1>3, <1>7
  <2>2. F[k] = ReduceOwnership(F[n], sides[k]) /\ RowsOk(F[n], S)
    BY <1>1, <1>2, <2>1 DEF ReducedUpTo
  <2>3. Sum(F[n], "buy") >= Sum(rows, "buy") - Cardinality(Taken(n))
    BY <1>7, <2>1
  <2>4. 1 .. k = (1 .. n) \cup {k} /\ k \notin 1 .. n /\ k \in Nat
    OBVIOUS
  <2>5. Cardinality(Taken(n)) \in Nat /\ Sum(F[n], "buy") \in Nat /\ Sum(F[k], "buy") \in Nat
        /\ Sum(rows, "buy") \in Nat
    BY <1>4, <1>5
  <2>. HIDE DEF k
  <2>6. CASE sides[k] = "buy"
    <3>1. Taken(k) = Taken(n) \cup {k} /\ k \notin Taken(n)
      BY <2>4, <2>6
    <3>2. Cardinality(Taken(k)) = Cardinality(Taken(n)) + 1
      <4>1. IsFiniteSet(Taken(n))
        BY <1>4
      <4>. HIDE DEF Taken
      <4>. QED  BY <3>1, <4>1, FS_AddElement
    <3>3. Sum(F[k], "buy") >= Sum(F[n], "buy") - 1
      BY <2>2, <2>6, ReduceTakesOne
    <3>. HIDE DEF Taken
    <3>. QED  BY <2>3, <2>5, <3>2, <3>3 DEF k
  <2>7. CASE sides[k] # "buy"
    <3>1. Taken(k) = Taken(n)
      BY <2>4, <2>7
    <3>2. F[k] = F[n]
      BY <2>2, <2>7, OthersOwnNothing
    <3>. HIDE DEF Taken
    <3>. QED  BY <2>3, <3>1, <3>2 DEF k
  <2>. QED  BY <2>6, <2>7
<1>8. \A n \in Nat : n \in G
  <2>1. \A n \in Nat : n \in G => n + 1 \in G
    BY <1>7
  <2>. HIDE DEF G
  <2>. QED  BY <1>6, <2>1, EveryNat
<1>9. Sum(F[Len(sides)], "buy") >= Sum(rows, "buy") - Cardinality(Taken(Len(sides)))
  BY <1>3, <1>8
<1>. QED  BY <1>1, <1>9 DEF ReducedUpTo

(***************************************************************************)
(* The cover of the rows at a restart.                                     *)
(***************************************************************************)
\* Booking openings alone opens, closes and nets nothing.
LEMMA OpeningsKeepRows ==
  ASSUME VenueInv, row \in LooseRows, NEW entries \in SUBSET Opened(Ids), NEW barrier,
         NEW r \in Rows
  PROVE  LET x == Booked(entries, barrier).row[r]
         IN  x.open = row[r].open /\ x.netted = row[r].netted
<1>1. PICK F : BookedUpTo(entries, barrier, F)
  BY BookedStepwise DEF VenueInv
<1>2. Len(execs) \in Nat /\ Ids = 1 .. Len(execs)
  BY DEF VenueInv, Ids
<1>. DEFINE Same(x) == x.open = row[r].open /\ x.netted = row[r].netted
            G == {k \in Nat : k <= Len(execs) => Same(F[k].row[r])}
<1>3. 0 \in G
  BY <1>1 DEF BookedUpTo
<1>4. ASSUME NEW j \in Nat, j \in G, j + 1 <= Len(execs)
      PROVE  Same(F[j + 1].row[r])
  <2>. DEFINE k == j + 1
              acc == F[j]
  <2>1. k \in Ids /\ k - 1 = j /\ j \in 0 .. Len(execs) /\ j <= Len(execs)
    BY <1>2, <1>4
  <2>2. acc \in Account /\ F[k] = BookOne(entries, barrier, acc, k) /\ Same(acc.row[r])
    BY <1>1, <1>4, <2>1 DEF BookedUpTo
  <2>. HIDE DEF acc, k
  <2>3. CASE F[k] = acc
    BY <2>2, <2>3 DEF k
  <2>4. CASE F[k] # acc
    <3>1. k \in entries /\ F[k].row = BookExecution(acc.row, k)
      BY <2>2, <2>4 DEF BookOne
    <3>2. execs[k] \in Rows /\ execs[k] \notin Sides
      BY <3>1, EntryRowsAssumption DEF Opened, Sides
    <3>3. F[k].row = [acc.row EXCEPT ![execs[k]] = FillRow(@)]
      BY <3>1, <3>2 DEF BookExecution
    <3>4. acc.row \in LooseRows /\ acc.row[r] \in LooseRow
      BY <2>2 DEF Account, LooseRows
    <3>5. FillRow(acc.row[r]).open = acc.row[r].open
          /\ FillRow(acc.row[r]).netted = acc.row[r].netted
      BY <3>4 DEF FillRow, LooseRow
    <3>6. F[k].row[r] = IF execs[k] = r THEN FillRow(acc.row[r]) ELSE acc.row[r]
      BY <3>2, <3>3, <3>4 DEF LooseRows
    <3>. QED  BY <2>2, <3>5, <3>6 DEF k
  <2>. QED  BY <2>3, <2>4
<1>5. \A k \in Nat : k \in G
  <2>1. \A j \in Nat : j \in G => j + 1 \in G
    BY <1>4
  <2>. HIDE DEF G
  <2>. QED  BY <1>3, <2>1, EveryNat
<1>6. Same(F[Len(execs)].row[r])
  BY <1>2, <1>5
<1>. QED  BY <1>1, <1>6 DEF BookedUpTo

\* The walked rows own what booking all openings would make them own.
LEMMA WalkedUnits ==
  ASSUME RowsInv, ~FlatAt(Len(execs))
  PROVE  Sum(Walked, "buy") = Sum(Booked(Opened(Ids), FALSE).row, "buy")
<1>. USE DEF RowsInv
<1>. DEFINE rows == Booked(Opened(Ids), FALSE).row
            S == seen \cup Opened(Ids)
<1>1. Opened(Ids) \in SUBSET Ids /\ Opened(Ids) \in SUBSET Opened(Ids)
  BY DEF Opened
<1>2. RowsOk(rows, S)
  BY <1>1, BookedAll DEF SeenInv
<1>3. \A r \in Rows : rows[r].open = row[r].open /\ rows[r].netted = row[r].netted
  BY <1>1, RowsAreLoose, OpeningsKeepRows
<1>. HIDE DEF rows
<1>4. \A r \in Rows : Kept[r] = row[r]
  BY DEF Kept, Orphans
<1>5. ASSUME NEW r \in Rows, NEW u \in 1 .. Size
      PROVE  Owns(Walked[r], u) <=> Owns(rows[r], u)
  <2>1. CASE ~row[r].open
    <3>1. Walked[r] = row[r]
      BY <1>4, <2>1 DEF Walked
    <3>. QED  BY <1>3, <2>1, <3>1 DEF Owns
  <2>2. CASE row[r].open
    <3>1. RowOk(Walked[r], r, Ids) /\ RowOk(rows[r], r, S)
      BY <1>2, WalkedRows DEF RowsOk
    <3>2. OfRow(r) \subseteq S /\ OfRow(r) \subseteq Ids
      BY DEF OfRow, Opened
    <3>3. Cardinality(OfRow(r) \cap S) = CumExec(r) /\ Cardinality(OfRow(r) \cap Ids) = CumExec(r)
      BY <3>2, Counted DEF VenueInv
    <3>4. rows[r].open /\ rows[r].netted = row[r].netted
      BY <1>3, <2>2
    <3>5. Walked[r] = Baselined(row[r], CumExec(r)) /\ row[r] \in Record
      BY <1>4, <2>2 DEF Walked, RowsOk
    <3>6. Walked[r].open /\ Walked[r].netted = row[r].netted
      BY <2>2, <3>5 DEF Baselined, Record
    <3>7. rows[r].filled + rows[r].netted = CumExec(r)
          /\ Walked[r].filled + Walked[r].netted = CumExec(r)
      BY <3>1, <3>3, <3>4, <3>6 DEF RowOk, VenueFilled
    <3>8. rows[r].filled \in Nat /\ Walked[r].filled \in Nat /\ row[r].netted \in Nat
      BY <3>1, <3>5 DEF RowOk, Record
    <3>9. rows[r].filled = Walked[r].filled
      BY <3>4, <3>6, <3>7, <3>8
    <3>. QED  BY <3>4, <3>6, <3>9 DEF Owns
  <2>. QED  BY <2>1, <2>2
<1>. QED  BY <1>5, SameUnits DEF rows

LEMMA ClampedCovers ==
  ASSUME VenueInv, OneSide, Selling = {}, NEW rows, RowsOk(rows, Ids), Covers(rows, Ids)
  PROVE  Covers(Clamped(rows), Ids)
<1>. DEFINE n == Excess(rows, "buy")
            sides == [k \in 1 .. n |-> "buy"]
            clamped == Clamp(rows, "buy")
            m == Excess(clamped, "sell")
            others == [k \in 1 .. m |-> "sell"]
<1>1. n \in Nat /\ m \in Nat /\ Sum(rows, "buy") \in Nat /\ Sum(clamped, "buy") \in Nat
      /\ Sum(Clamped(rows), "buy") \in Nat
  BY ExcessIsNat, UnitsFinite
<1>2. Ids \in SUBSET Ids /\ Len(execs) \in 0 .. Len(execs) /\ Ids = 1 .. Len(execs)
  BY DEF VenueInv, Ids
<1>3. Cardinality(Opened(Ids)) \in Nat /\ Cardinality(Reduced(Ids)) \in Nat
  BY <1>2, OpenedCounts
<1>4. Held("buy") = Cardinality(Opened(Ids)) - Cardinality(Reduced(Ids))
  BY <1>2, HeldCounts DEF Held
<1>. HIDE DEF n, clamped, m
<1>5. Sum(clamped, "buy") >= Sum(rows, "buy") - n
  <2>1. sides \in Seq({"buy"}) /\ Len(sides) = n
    BY <1>1
  <2>2. {k \in 1 .. n : sides[k] = "buy"} = 1 .. n
    OBVIOUS
  <2>3. Cardinality(1 .. n) = n
    <3>1. n \in Int /\ 1 \in Int
      BY <1>1
    <3>. QED  BY <1>1, <3>1, FS_Interval
  <2>. HIDE DEF sides
  <2>4. clamped = ReduceAll(rows, sides)
    BY DEF clamped, Clamp, sides, n
  <2>. QED  BY <2>1, <2>2, <2>3, <2>4, ReducedSum
<1>6. RowsOk(clamped, Ids)
  BY ClampRows DEF clamped
<1>7. Sum(Clamped(rows), "buy") >= Sum(clamped, "buy")
  <2>1. others \in Seq({"sell"}) /\ Len(others) = m
    BY <1>1
  <2>2. {k \in 1 .. m : others[k] = "buy"} = {}
    OBVIOUS
  <2>. HIDE DEF others
  <2>3. Clamped(rows) = ReduceAll(clamped, others)
    BY DEF Clamped, Clamp, others, m, clamped
  <2>4. Sum(ReduceAll(clamped, others), "buy") >= Sum(clamped, "buy") - 0
    BY <1>6, <2>1, <2>2, ReducedSum, FS_EmptySet
  <2>. QED  BY <1>1, <2>3, <2>4
<1>8. n = 0 \/ Sum(rows, "buy") - n = Held("buy")
  BY <1>1, <1>3, <1>4 DEF n, Excess
<1>. QED  BY <1>1, <1>3, <1>4, <1>5, <1>7, <1>8 DEF Covers

LEMMA NettedCovers ==
  ASSUME VenueInv, OneSide, Selling = {}, NEW rows, RowsOk(rows, Ids), seen \subseteq Ids,
         Covers(rows, seen \cup Opened(Ids))
  PROVE  Covers(NetUnbooked(rows), Ids)
<1>. DEFINE sides == [e \in Ids |-> IF e \in Reductions \ seen THEN execs[e] ELSE "none"]
            taken == {k \in 1 .. Len(sides) : sides[k] = "buy"}
            S == seen \cup Opened(Ids)
            netted == NetUnbooked(rows)
<1>1. Len(execs) \in Nat /\ Ids = 1 .. Len(execs) /\ \A e \in Ids : execs[e] \in Rows \cup Sides
  BY DEF VenueInv, Ids
<1>2. \A e \in Reductions : execs[e] \in Sides /\ execs[e] = "buy"
  BY DEF Reductions, OneSide, Sides
<1>3. sides \in Seq(Sides \cup {"none"}) /\ Len(sides) = Len(execs)
      /\ \A e \in Ids : sides[e] = IF e \in Reductions \ seen THEN execs[e] ELSE "none"
  BY <1>1, <1>2
<1>. HIDE DEF sides
<1>4. taken = Reductions \ seen
  BY <1>1, <1>2, <1>3 DEF Reductions
<1>5. Sum(netted, "buy") >= Sum(rows, "buy") - Cardinality(taken)
  BY <1>3, ReducedSum DEF NetUnbooked, sides
<1>6. S \in SUBSET Ids /\ Ids \in SUBSET Ids
  BY DEF Opened
<1>7. Opened(S) = Opened(Ids) /\ Reduced(S) = Reductions \cap seen /\ Reduced(Ids) = Reductions
  <2>1. \A e \in Ids : execs[e] \in Rows => execs[e] \notin Sides
    BY EntryRowsAssumption DEF Sides
  <2>. QED  BY <2>1 DEF Opened, Reduced, Reductions
<1>8. IsFiniteSet(Reductions) /\ Cardinality(Reductions) \in Nat
      /\ Cardinality(Reductions \cap seen) \in Nat /\ Cardinality(Opened(Ids)) \in Nat
  BY <1>6, <1>7, OpenedCounts
<1>9. Cardinality(Reductions \ seen) = Cardinality(Reductions) - Cardinality(Reductions \cap seen)
  BY <1>8, FS_Difference
<1>10. Sum(rows, "buy") \in Nat /\ Sum(netted, "buy") \in Nat
  BY UnitsFinite
<1>11. Cardinality(Opened(Ids)) <= Sum(rows, "buy") + Cardinality(Reductions \cap seen)
  BY <1>7 DEF Covers
<1>. HIDE DEF netted, taken
<1>12. Cardinality(Opened(Ids)) <= Sum(netted, "buy") + Cardinality(Reductions)
  BY <1>4, <1>5, <1>8, <1>9, <1>10, <1>11
<1>. QED  BY <1>7, <1>12 DEF Covers, netted

LEMMA RestartCovers ==
  ASSUME RowsInv, OneSide, Selling = {}, Covers(row, seen)
  PROVE  Covers(Clamped(NetUnbooked(Walked)), Ids)
<1>. USE DEF RowsInv
<1>1. CASE FlatAt(Len(execs))
  <2>1. Ids = 1 .. Len(execs) /\ Len(execs) \in 0 .. Len(execs) /\ Ids \in SUBSET Ids
    BY DEF VenueInv, Ids
  <2>2. Cardinality(Opened(Ids)) = Cardinality(Reduced(Ids))
    BY <1>1, <2>1, FlatCounts
  <2>3. Cardinality(Opened(Ids)) \in Nat /\ Cardinality(Reduced(Ids)) \in Nat
    BY <2>1, OpenedCounts
  <2>. QED  BY <2>1, <2>2, <2>3, EvenCovers
<1>2. CASE ~FlatAt(Len(execs))
  <2>1. Opened(Ids) \in SUBSET Ids
    BY DEF Opened
  <2>2. Covers(Booked(Opened(Ids), FALSE).row, seen \cup Opened(Ids))
    BY <2>1, BookedCovers DEF SeenInv
  <2>3. Covers(Walked, seen \cup Opened(Ids))
    BY <1>2, <2>2, WalkedUnits DEF Covers
  <2>4. Covers(NetUnbooked(Walked), Ids)
    BY <2>3, WalkedRows, NettedCovers DEF SeenInv
  <2>5. RowsOk(NetUnbooked(Walked), Ids)
    BY WalkedRows, NetUnbookedRows
  <2>. QED  BY <2>4, <2>5, ClampedCovers
<1>. QED  BY <1>1, <1>2

(***************************************************************************)
(* The inductive invariant of the exposure.                                *)
(***************************************************************************)
\* Nothing is held and nothing can be opened any more.
Over == (\A r \in Rows : status[r] # "live") /\ Held("buy") <= 0

\* What is booked is no newer than the last own fill or the view.
SeenEarly == \A e \in seen : e <= lastOwn \/ e <= view

CoverInv == Covers(row, seen) \/ (BlindClose /\ Over)
HoldInv == OneSide /\ SeenEarly /\ CoverInv

\* The run has one side, and rows end blindly only where there is one row.
Alone == Selling = {} /\ (BlindClose => \A r, q \in Rows : r = q)

LEMMA RunHolds ==
  ASSUME RowsInv, HoldInv, UNCHANGED <<execs, status>>, SeenEarly',
         Covers(row, seen) => Covers(row', seen') \/ (BlindClose /\ Over)
  PROVE  HoldInv'
<1>1. Ids' = Ids
  BY DEF Ids
<1>2. OneSide'
  BY <1>1 DEF HoldInv, OneSide
<1>3. Over => Over'
  BY DEF Over, Held, HeldAt, CountUpTo
<1>4. Covers(row', seen') => Covers(row, seen)'
  BY DEF Covers, Opened, Reduced
<1>. QED  BY <1>2, <1>3, <1>4 DEF HoldInv, CoverInv

LEMMA QuietHolds ==
  ASSUME RowsInv, HoldInv, UNCHANGED <<execs, status, row, seen, lastOwn, view>>
  PROVE  HoldInv'
BY RunHolds DEF SeenEarly, HoldInv

\* What is appended to the executions changes no count of the earlier ones.
LEMMA LaterCovers ==
  ASSUME RowsInv, NEW x \in Rows \cup Sides, execs' = Append(execs, x),
         UNCHANGED <<row, seen>>, Covers(row, seen)
  PROVE  Covers(row, seen)'
<1>1. Len(execs) \in Nat /\ \A e \in 1 .. Len(execs) : execs'[e] = execs[e]
  BY DEF RowsInv, VenueInv
<1>2. \A e \in seen : execs'[e] = execs[e]
  BY <1>1 DEF RowsInv, SeenInv, Ids
<1>3. Opened(seen)' = Opened(seen) /\ Reduced(seen)' = Reduced(seen)
  BY <1>2 DEF Opened, Reduced
<1>. QED  BY <1>3 DEF Covers, Sum, Units

LEMMA VenueHolds ==
  ASSUME RowsInv, HoldInv, Selling = {},
         \/ \E r \in Rows : Execute(r)
         \/ \E s \in Sides : Reduce(s)
  PROVE  HoldInv'
<1>. USE DEF RowsInv, HoldInv
<1>1. UNCHANGED <<row, seen, lastOwn, view>>
  BY DEF Execute, Reduce, bookVars, noteVars
<1>2. Held("sell") <= 0
  BY HeldCounts DEF Held, VenueInv
<1>3. ~Over
  <2>1. CASE \E r \in Rows : Execute(r)
    BY <2>1 DEF Over, Execute
  <2>2. CASE \E s \in Sides : Reduce(s)
    <3>1. Held("buy") > 0
      <4>1. PICK s \in Sides : Held(s) > 0
        BY <2>2 DEF Reduce
      <4>2. Held("buy") \in Int /\ Held("sell") \in Int
        BY HeldIsInt DEF Held, VenueInv
      <4>. QED  BY <1>2, <4>1, <4>2 DEF Sides
    <3>2. Held("buy") \in Int
      BY HeldIsInt DEF Held, VenueInv
    <3>. QED  BY <3>1, <3>2 DEF Over
  <2>. QED  BY <2>1, <2>2
<1>4. PICK x \in Rows \cup Sides : execs' = Append(execs, x) /\ x # "sell"
  <2>1. CASE \E r \in Rows : Execute(r)
    <3>1. "sell" \notin Rows
      BY EntryRowsAssumption
    <3>. QED  BY <2>1, <3>1 DEF Execute
  <2>2. CASE \E s \in Sides : Reduce(s)
    <3>1. PICK s \in Sides : Held(s) > 0 /\ execs' = Append(execs, s)
      BY <2>2 DEF Reduce
    <3>2. Held("sell") \in Int
      BY HeldIsInt DEF Held, VenueInv
    <3>3. s # "sell"
      BY <1>2, <3>1, <3>2
    <3>. QED  BY <3>1, <3>3
  <2>. QED  BY <2>1, <2>2
<1>5. Covers(row, seen)'
  BY <1>1, <1>3, <1>4, LaterCovers DEF CoverInv
<1>6. OneSide'
  <2>1. Len(execs) \in Nat /\ execs \in Seq(Rows \cup Sides)
    BY DEF VenueInv
  <2>2. Ids' = Ids \cup {Len(execs) + 1}
    BY <1>4, OneMore
  <2>3. execs'[Len(execs) + 1] = x /\ \A e \in 1 .. Len(execs) : execs'[e] = execs[e]
    BY <1>4, <2>1
  <2>. QED  BY <1>4, <2>2, <2>3 DEF OneSide, Ids
<1>7. SeenEarly'
  BY <1>1 DEF SeenEarly
<1>. QED  BY <1>5, <1>6, <1>7 DEF CoverInv

LEMMA EndsHolds ==
  ASSUME RowsInv, HoldInv, NEW r \in Rows, status[r] = "live",
         UNCHANGED <<execs, row, seen, lastOwn, view>>
  PROVE  HoldInv'
<1>1. Covers(row, seen)
  BY DEF HoldInv, CoverInv, Over
<1>2. Covers(row, seen)'
  BY <1>1 DEF Covers, Opened, Reduced, Sum, Units
<1>3. OneSide' /\ SeenEarly'
  BY DEF HoldInv, OneSide, SeenEarly, Ids
<1>. QED  BY <1>2, <1>3 DEF HoldInv, CoverInv

LEMMA BookAndSweepHolds ==
  ASSUME RowsInv, HoldInv, Alone, NEW entries \in SUBSET Ids, NEW barrier,
         BookAndSweep(entries, barrier), UNCHANGED <<execs, status, view>>
  PROVE  HoldInv'
<1>. USE DEF RowsInv
<1>. DEFINE result == Booked(entries, barrier)
            own == IF result.last > lastOwn THEN result.last ELSE lastOwn
            S == seen \cup entries
<1>1. seen' = S /\ lastOwn' = own
      /\ row' = IF result.last = 0 THEN result.row ELSE Swept(result.row, view, own, seen')
  BY DEF BookAndSweep
<1>2. /\ RowsOk(result.row, S) /\ result.last \in 0 .. Len(execs)
      /\ \A e \in entries \ seen : e <= result.last
  BY BookedAll DEF SeenInv
<1>3. Covers(row, seen) => Covers(result.row, S)
  BY BookedCovers DEF HoldInv, Alone, SeenInv
<1>. HIDE DEF result
<1>4. own \in 0 .. Len(execs) /\ own \in Nat /\ own >= lastOwn /\ own >= result.last
  BY <1>2 DEF SeenInv
<1>. HIDE DEF own
<1>5. S \in SUBSET Ids /\ view \in -1 .. Len(execs)
  BY DEF SeenInv
<1>6. \A e \in S : e <= own \/ e <= view
  <2>. SUFFICES ASSUME NEW e \in S
                PROVE  e <= own \/ e <= view
    OBVIOUS
  <2>1. e \in Nat /\ lastOwn \in Nat /\ result.last \in Nat /\ own \in Nat
    BY <1>2, <1>4, <1>5 DEF Ids, SeenInv, VenueInv
  <2>2. e <= result.last \/ e <= lastOwn \/ e <= view
    BY <1>2 DEF HoldInv, SeenEarly
  <2>. QED  BY <1>4, <2>1, <2>2
<1>7. SeenEarly'
  BY <1>1, <1>6 DEF SeenEarly
<1>. HIDE DEF S
<1>8. Covers(row, seen) => Covers(row', S)
  <2>. SUFFICES ASSUME Covers(row, seen)
                PROVE  Covers(row', S)
    OBVIOUS
  <2>1. Covers(result.row, S)
    BY <1>3
  <2>2. Covers(Swept(result.row, view, own, S), S)
    BY <1>4, <1>5, <1>6, <2>1, SweptCovers DEF HoldInv, Alone
  <2>. QED  BY <1>1, <2>1, <2>2
<1>. QED  BY <1>1, <1>7, <1>8, RunHolds

\* A view no older than the last one is taken, and the rows are swept after.
LEMMA SweepHolds ==
  ASSUME RowsInv, HoldInv, Alone, view' \in -1 .. Len(execs), view' >= view,
         row' = Swept(row, view', lastOwn, seen), UNCHANGED <<execs, status, seen, lastOwn>>
  PROVE  HoldInv'
<1>. USE DEF RowsInv
<1>1. \A e \in seen : e <= lastOwn \/ e <= view'
  <2>. SUFFICES ASSUME NEW e \in seen
                PROVE  e <= lastOwn \/ e <= view'
    OBVIOUS
  <2>1. e \in Nat /\ view \in Int /\ view' \in Int /\ (e <= lastOwn \/ e <= view)
    BY DEF HoldInv, SeenEarly, SeenInv, Ids, VenueInv
  <2>. QED  BY <2>1
<1>2. seen \in SUBSET Ids /\ lastOwn \in Nat
  BY DEF SeenInv, VenueInv
<1>3. Covers(row, seen) => Covers(row', seen)
  <2>. SUFFICES ASSUME Covers(row, seen)
                PROVE  Covers(Swept(row, view', lastOwn, seen), seen)
    OBVIOUS
  <2>. DEFINE at == view'
  <2>1. at \in -1 .. Len(execs) /\ \A e \in seen : e <= lastOwn \/ e <= at
    BY <1>1
  <2>. HIDE DEF at
  <2>2. Covers(Swept(row, at, lastOwn, seen), seen)
    BY <1>2, <2>1, SweptCovers DEF HoldInv, Alone
  <2>. QED  BY <2>2 DEF at
<1>4. SeenEarly'
  BY <1>1 DEF SeenEarly
<1>. QED  BY <1>3, <1>4, RunHolds

LEMMA SameSumHolds ==
  ASSUME RowsInv, HoldInv, UNCHANGED <<execs, status, seen, lastOwn, view>>,
         Sum(row', "buy") = Sum(row, "buy")
  PROVE  HoldInv'
BY RunHolds DEF SeenEarly, HoldInv, Covers

LEMMA RetireFoundHolds ==
  ASSUME RowsInv, HoldInv, NEW found, RetireFound(found),
         UNCHANGED <<execs, status, seen, lastOwn, view>>
  PROVE  HoldInv'
<1>1. row' = [r \in Rows |-> IF r \in found THEN RetireCancelled(row[r], CumExec(r))
                             ELSE row[r]]
  BY DEF RetireFound
<1>2. ASSUME NEW r \in Rows, NEW u \in 1 .. Size
      PROVE  Owns(row'[r], u) <=> Owns(row[r], u)
  <2>1. row[r] \in Record /\ CumExec(r) \in Nat
    BY Counted DEF RowsInv, RowsOk, VenueInv
  <2>. QED  BY <1>1, <2>1, RetireKeepsUnits
<1>3. Sum(row', "buy") = Sum(row, "buy")
  BY <1>2, SameUnits
<1>. QED  BY <1>3, SameSumHolds

\* The settled rows go with a flat position: with it goes no exposure, as long as what
\* reduced it is booked, or the one row's order has ended.
LEMMA ConfirmPositionHolds ==
  ASSUME RowsInv, HoldInv, Alone, NEW r \in Rows, Settled(r), ConfirmPosition(r),
         UNCHANGED <<execs, status, seen, lastOwn, view>>
  PROVE  HoldInv'
<1>. USE DEF RowsInv
<1>1. CASE ~FlatAt(Len(execs))
  <2>1. row' = row
    BY <1>1 DEF ConfirmPosition
  <2>. QED  BY <2>1, QuietHolds
<1>2. CASE FlatAt(Len(execs))
  <2>1. Ids = 1 .. Len(execs) /\ Len(execs) \in 0 .. Len(execs) /\ Ids \in SUBSET Ids
    BY DEF VenueInv, Ids
  <2>2. CASE Reductions \subseteq seen
    <3>1. Cardinality(Opened(Ids)) = Cardinality(Reduced(Ids))
      BY <1>2, <2>1, FlatCounts DEF HoldInv, Alone
    <3>2. Reduced(seen) = Reduced(Ids) /\ Opened(seen) \subseteq Opened(Ids)
      BY <2>2 DEF Reduced, Opened, Reductions, SeenInv
    <3>3. Cardinality(Opened(seen)) <= Cardinality(Opened(Ids))
      BY <2>1, <3>2, OpenedCounts, FS_Subset
    <3>4. Covers(row', seen)
      <4>. DEFINE rows == row'
      <4>1. seen \in SUBSET Ids /\ Cardinality(Opened(seen)) <= Cardinality(Reduced(seen))
        BY <3>1, <3>2, <3>3 DEF SeenInv
      <4>2. \A others : Covers(others, seen)
        BY <4>1, EvenCovers
      <4>. QED  BY <4>2
    <3>. QED  BY <3>4, RunHolds DEF SeenEarly, HoldInv
  <2>3. CASE BlindClose
    <3>1. status[r] # "live"
      <4>1. RowOk(row[r], r, seen)
        BY DEF RowsOk
      <4>2. row[r].filled >= row[r].qty
        BY DEF Settled
      <4>. QED  BY <4>1, <4>2, FullIsDone DEF RowOk
    <3>2. \A q \in Rows : status[q] # "live"
      BY <2>3, <3>1 DEF Alone
    <3>3. Held("buy") = 0
      BY <1>2 DEF FlatAt, Held, Sides
    <3>4. Over
      BY <3>2, <3>3 DEF Over
    <3>. QED  BY <2>3, <3>4, RunHolds DEF SeenEarly, HoldInv
  <2>4. BlindClose \/ Reductions \subseteq seen
    BY <1>2 DEF ConfirmPosition
  <2>. QED  BY <2>2, <2>3, <2>4
<1>. QED  BY <1>1, <1>2

\* One row changes and owns what it did.
LEMMA OneRowHolds ==
  ASSUME RowsInv, HoldInv, NEW r \in Rows, NEW x, row' = [row EXCEPT ![r] = x],
         \A u \in 1 .. Size : Owns(x, u) <=> Owns(row[r], u),
         UNCHANGED <<execs, status, seen, lastOwn, view>>
  PROVE  HoldInv'
<1>1. \A q \in Rows : row'[q] = IF q = r THEN x ELSE row[q]
  BY DEF RowsInv, RowsOk
<1>2. Sum(row', "buy") = Sum(row, "buy")
  BY <1>1, SameUnits
<1>. QED  BY <1>2, SameSumHolds

LEMMA ConfirmOrderHolds ==
  ASSUME RowsInv, HoldInv, NEW r \in Rows, ConfirmOrder(r),
         UNCHANGED <<execs, status, seen, lastOwn, view>>
  PROVE  HoldInv'
<1>1. RowOk(row[r], r, seen) /\ row \in [Rows -> Record] /\ row[r] \in Record
  BY DEF RowsInv, RowsOk
<1>2. VenueFilled(row[r]) \in Nat
  <2>1. row[r].filled \in Nat /\ row[r].netted \in Nat
    BY <1>1 DEF Record
  <2>. QED  BY <2>1 DEF VenueFilled
<1>3. PICK x : /\ row' = [row EXCEPT ![r] = x]
               /\ \/ x = RetireCancelled(row[r], VenueFilled(row[r]))
                  \/ x = SettleFilled(row[r], CumExec(r))
                  \/ x = row[r]
  <2>. DEFINE x == CASE CancelConfirmed(r)    -> RetireCancelled(row[r], VenueFilled(row[r]))
                     [] status[r] = "filled"  -> SettleFilled(row[r], CumExec(r))
                     [] OTHER                 -> row[r]
  <2>1. row' = [row EXCEPT ![r] = x]
    BY <1>1 DEF ConfirmOrder
  <2>2. \/ x = RetireCancelled(row[r], VenueFilled(row[r]))
        \/ x = SettleFilled(row[r], CumExec(r))
        \/ x = row[r]
    OBVIOUS
  <2>. HIDE DEF x
  <2>. QED  BY <2>1, <2>2
<1>4. \A u \in 1 .. Size : Owns(x, u) <=> Owns(row[r], u)
  BY <1>1, <1>2, <1>3, RetireKeepsUnits, SettleKeepsUnits
<1>. QED  BY <1>3, <1>4, OneRowHolds

LEMMA ConfirmHolds ==
  ASSUME RowsInv, HoldInv, Alone, NEW r \in Rows, Confirm(r)
  PROVE  HoldInv'
<1>1. UNCHANGED <<execs, status, seen, lastOwn, view>>
  BY DEF Confirm, venueVars
<1>2. CASE Settled(r)
  <2>1. ConfirmPosition(r)
    BY <1>2 DEF Confirm
  <2>. QED  BY <1>1, <1>2, <2>1, ConfirmPositionHolds
<1>3. CASE ~Settled(r)
  <2>1. ConfirmOrder(r)
    BY <1>3 DEF Confirm
  <2>. QED  BY <1>1, <2>1, ConfirmOrderHolds
<1>. QED  BY <1>2, <1>3

LEMMA RecoverHolds ==
  ASSUME CursorInv, HoldInv, Alone, Recover
  PROVE  HoldInv'
<1>. USE DEF CursorInv, RowsInv
<1>. DEFINE result == Booked(Recovered, TRUE)
            own == IF result.last > lastOwn THEN result.last ELSE lastOwn
            S == seen \cup Recovered
<1>1. seen' = S /\ lastOwn' = own /\ row' = Swept(result.row, view, own, seen')
  BY DEF Recover
<1>2. UNCHANGED <<execs, status, view>>
  BY DEF Recover, venueVars
<1>3. Recovered \in SUBSET Ids
  BY DEF Recovered, Shown, PushInv
<1>4. /\ RowsOk(result.row, S) /\ result.last \in 0 .. Len(execs)
      /\ \A e \in Recovered \ seen : e <= result.last
  BY <1>3, BookedAll DEF SeenInv
<1>5. Covers(row, seen) => Covers(result.row, S)
  BY <1>3, BookedCovers DEF HoldInv, Alone, SeenInv
<1>. HIDE DEF result
<1>6. own \in Nat /\ own >= lastOwn /\ own >= result.last
  BY <1>4 DEF SeenInv, VenueInv
<1>. HIDE DEF own
<1>7. S \in SUBSET Ids /\ view \in -1 .. Len(execs)
  BY <1>3 DEF SeenInv
<1>8. \A e \in S : e <= own \/ e <= view
  <2>. SUFFICES ASSUME NEW e \in S
                PROVE  e <= own \/ e <= view
    OBVIOUS
  <2>1. e \in Nat /\ lastOwn \in Nat /\ result.last \in Nat /\ own \in Nat
    BY <1>4, <1>6, <1>7 DEF Ids, SeenInv, VenueInv
  <2>2. e <= result.last \/ e <= lastOwn \/ e <= view
    BY <1>4 DEF HoldInv, SeenEarly
  <2>. QED  BY <1>6, <2>1, <2>2
<1>9. SeenEarly'
  BY <1>1, <1>2, <1>8 DEF SeenEarly
<1>. HIDE DEF S
<1>10. Covers(row, seen) => Covers(row', S)
  <2>. SUFFICES ASSUME Covers(row, seen)
                PROVE  Covers(Swept(result.row, view, own, S), S)
    BY <1>1
  <2>. QED  BY <1>5, <1>6, <1>7, <1>8, SweptCovers DEF HoldInv, Alone
<1>. QED  BY <1>1, <1>2, <1>9, <1>10, RunHolds

LEMMA CancelAnsweredHolds ==
  ASSUME RowsInv, HoldInv, NEW r \in Rows, CancelAnswered(r)
  PROVE  HoldInv'
<1>1. UNCHANGED <<execs, status, seen, lastOwn, view>>
  BY DEF CancelAnswered, venueVars, noteVars
<1>2. row' = [row EXCEPT ![r] = Flag(row[r])] /\ row[r] \in Record
  BY DEF CancelAnswered, RowsInv, RowsOk
<1>3. \A u \in 1 .. Size : Owns(Flag(row[r]), u) <=> Owns(row[r], u)
  BY <1>2, SettleKeepsUnits
<1>. QED  BY <1>1, <1>2, <1>3, OneRowHolds

LEMMA RestartHolds ==
  ASSUME RowsInv, HoldInv, Alone, Restart
  PROVE  HoldInv'
<1>1. row' = Clamped(NetUnbooked(Walked))
  BY DEF Restart, Walked, Kept
<1>2. seen' = Ids /\ lastOwn' = 0 /\ view' = Len(execs) /\ UNCHANGED <<execs, status>>
  BY DEF Restart, venueVars
<1>3. SeenEarly'
  BY <1>2 DEF SeenEarly, Ids, RowsInv, VenueInv
<1>4. Covers(row, seen) => Covers(row', seen')
  BY <1>1, <1>2, RestartCovers DEF HoldInv, Alone
<1>. QED  BY <1>2, <1>3, <1>4, RunHolds

LEMMA HoldSteps ==
  ASSUME CursorInv, HoldInv, Alone, [Next]_vars
  PROVE  HoldInv'
<1>. USE DEF CursorInv
<1>1. CASE Venue
  <2>1. CASE (\E r \in Rows : Execute(r)) \/ (\E s \in Sides : Reduce(s))
    BY <2>1, VenueHolds DEF Alone
  <2>2. CASE \E r \in Rows : VenueCancel(r)
    BY <2>2, EndsHolds DEF VenueCancel, bookVars, noteVars
  <2>3. CASE \E e \in Ids : Index(e)
    BY <2>3, QuietHolds DEF Index, bookVars, noteVars
  <2>. QED  BY <1>1, <2>1, <2>2, <2>3 DEF Venue
<1>2. CASE Pushes
  <2>1. CASE HandleExecution
    <3>1. {Head(pushes)} \in SUBSET Ids
      <4>1. pushes # <<>> /\ pushes \in Seq(Ids)
        BY <2>1 DEF HandleExecution, PushInv
      <4>. HIDE DEF Ids
      <4>. QED  BY <4>1
    <3>. QED  BY <2>1, <3>1, BookAndSweepHolds DEF HandleExecution, venueVars, noteVars
  <2>2. CASE \E r \in Rows : HandleEnd(r)
    BY <2>2, RetireFoundHolds DEF HandleEnd, venueVars
  <2>3. CASE HandlePosition
    <3>1. PICK at \in 1 .. Len(execs) : at >= view /\ view' = at
                                        /\ row' = Swept(row, at, lastOwn, seen)
      BY <2>3 DEF HandlePosition
    <3>2. view' \in -1 .. Len(execs) /\ view' >= view
      BY <3>1 DEF RowsInv, VenueInv
    <3>. QED  BY <2>3, <3>1, <3>2, SweepHolds DEF HandlePosition, venueVars
  <2>. QED  BY <1>2, <2>1, <2>2, <2>3 DEF Pushes
<1>3. CASE Pass
  <2>1. CASE Settle \/ SettleFails
    BY <2>1, RetireFoundHolds DEF Settle, SettleFails, SettleCancelled, venueVars
  <2>2. CASE ReadPosition
    <3>1. view' \in -1 .. Len(execs) /\ view' >= view
      BY <2>2 DEF ReadPosition, RowsInv, VenueInv, SeenInv
    <3>. QED  BY <2>2, <3>1, SweepHolds DEF ReadPosition, venueVars
  <2>3. CASE \/ ReadOrders \/ ReadOrdersEarly \/ ReadOrdersFails \/ ReadPositionFails
             \/ BackfillFails \/ MarketLookup \/ MarketLookupFails
             \/ \E r \in Rows : ConfirmFails(r)
    BY <2>3, QuietHolds DEF ReadOrders, ReadOrdersEarly, ReadOrdersFails, ReadPositionFails,
       BackfillFails, MarketLookup, MarketLookupFails, MarketReads, ConfirmFails, venueVars,
       bookVars, noteVars
  <2>4. CASE \E r \in Rows : Confirm(r)
    BY <2>4, ConfirmHolds
  <2>5. CASE Backfill
    <3>1. Ids \ late \in SUBSET Ids
      OBVIOUS
    <3>. QED  BY <2>5, <3>1, BookAndSweepHolds DEF Backfill, venueVars, noteVars
  <2>6. CASE Recover
    BY <2>6, RecoverHolds
  <2>7. CASE RecoverFails
    <3>1. view' = view /\ view' \in -1 .. Len(execs) /\ view' >= view
      BY <2>7 DEF RecoverFails, noteVars, RowsInv, VenueInv, SeenInv
    <3>. QED  BY <2>7, <3>1, SweepHolds DEF RecoverFails, venueVars
  <2>. QED  BY <1>3, <2>1, <2>2, <2>3, <2>4, <2>5, <2>6, <2>7 DEF Pass
<1>4. CASE Cancels
  <2>1. CASE \E r \in Rows : CancelLands(r)
    BY <2>1, EndsHolds DEF CancelLands, bookVars, noteVars
  <2>2. CASE \E r \in Rows : CancelNotFound(r)
    BY <2>2, QuietHolds DEF CancelNotFound, venueVars, bookVars, noteVars
  <2>3. CASE \E r \in Rows : CancelAnswered(r)
    BY <2>3, CancelAnsweredHolds
  <2>4. CASE \E r \in Rows : CancelReadBack(r)
    BY <2>4, RetireFoundHolds, QuietHolds DEF CancelReadBack, venueVars
  <2>. QED  BY <1>4, <2>1, <2>2, <2>3, <2>4 DEF Cancels
<1>5. CASE Restart
  BY <1>5, RestartHolds
<1>6. CASE UNCHANGED vars
  BY <1>6, QuietHolds DEF vars, venueVars, bookVars, noteVars
<1>. QED  BY <1>1, <1>2, <1>3, <1>4, <1>5, <1>6 DEF Next

LEMMA HoldStarts ==
  ASSUME Init
  PROVE  HoldInv
<1>1. Ids = {}
  BY DEF Init, Ids
<1>2. Opened({}) = {} /\ Reduced({}) = {} /\ seen = {}
  BY DEF Init, Opened, Reduced
<1>3. Sum(row, "buy") \in Nat
  BY UnitsFinite
<1>4. Covers(row, seen)
  BY <1>2, <1>3, FS_EmptySet DEF Covers
<1>. QED  BY <1>1, <1>2, <1>4 DEF HoldInv, OneSide, SeenEarly, CoverInv

\* What the venue holds of the run is owned by open rows or still to be booked.
LEMMA HoldCovers ==
  ASSUME CursorInv, HoldInv, Alone
  PROVE  OwnedCoversHeld
<1>. USE DEF CursorInv, RowsInv
<1>. DEFINE owed(s) == {e \in Ids \ seen : execs[e] \in Rows /\ SideOf(execs[e]) = s}
<1>1. Ids \in SUBSET Ids /\ Len(execs) \in 0 .. Len(execs) /\ Ids = 1 .. Len(execs)
      /\ Ids \ seen \in SUBSET Ids /\ seen \in SUBSET Ids
  BY DEF VenueInv, Ids, SeenInv
<1>2. Held("buy") = Cardinality(Opened(Ids)) - Cardinality(Reduced(Ids)) /\ Held("sell") <= 0
  BY <1>1, HeldCounts DEF Held, HoldInv, Alone
<1>3. owed("buy") = Opened(Ids \ seen)
  BY DEF Opened, SideOf, Alone
<1>4. owed("sell") \subseteq Opened(Ids \ seen)
  BY DEF Opened
<1>5. Cardinality(owed("buy")) \in Nat /\ Cardinality(owed("sell")) \in Nat
  <2>. HIDE DEF owed
  <2>. QED  BY <1>1, <1>3, <1>4, OpenedCounts, FS_Subset, FS_CardinalityType
<1>6. \A s : Sum(row, s) \in Nat
  BY UnitsFinite
<1>7. Held("sell") \in Int
  BY HeldIsInt DEF Held, VenueInv
<1>8. Held("sell") <= Sum(row, "sell") + Cardinality(owed("sell"))
  <2>. HIDE DEF owed
  <2>. QED  BY <1>2, <1>5, <1>6, <1>7
<1>9. Held("buy") <= Sum(row, "buy") + Cardinality(owed("buy"))
  <2>1. CASE Covers(row, seen)
    <3>. DEFINE O == Cardinality(Opened(Ids))
                R == Cardinality(Reduced(Ids))
                o == Cardinality(Opened(seen))
                q == Cardinality(Reduced(seen))
                w == Cardinality(Opened(Ids \ seen))
    <3>1. O \in Nat /\ R \in Nat /\ o \in Nat /\ q \in Nat /\ w \in Nat
      BY <1>1, OpenedCounts
    <3>2. O = o + w
      <4>1. Opened(Ids \ seen) = Opened(Ids) \ Opened(seen)
            /\ Opened(Ids) \cap Opened(seen) = Opened(seen)
        BY DEF Opened, SeenInv
      <4>2. IsFiniteSet(Opened(Ids))
        BY <1>1, OpenedCounts
      <4>3. w = O - o
        BY <4>1, <4>2, FS_Difference
      <4>. HIDE DEF O, o, w
      <4>. QED  BY <3>1, <4>3
    <3>3. q <= R
      <4>1. Reduced(seen) \subseteq Reduced(Ids)
        BY DEF Reduced, SeenInv
      <4>. QED  BY <1>1, <4>1, OpenedCounts, FS_Subset
    <3>4. o <= Sum(row, "buy") + q
      BY <2>1 DEF Covers
    <3>5. Held("buy") = O - R /\ Cardinality(owed("buy")) = w
      BY <1>2, <1>3
    <3>. HIDE DEF O, R, o, q, w, owed
    <3>. QED  BY <1>6, <3>1, <3>2, <3>3, <3>4, <3>5
  <2>2. CASE Over
    <3>1. Held("buy") \in Int /\ Held("buy") <= 0
      BY <2>2, HeldIsInt DEF Over, Held, VenueInv
    <3>. HIDE DEF owed
    <3>. QED  BY <1>5, <1>6, <3>1
  <2>. QED  BY <2>1, <2>2 DEF HoldInv, CoverInv
<1>. QED  BY <1>8, <1>9 DEF OwnedCoversHeld, Sides

\* No retirement, no cut quantity, no sweep and no restart drops exposure, in whatever order
\* cancels, pushes, reads and late executions arrive: on one leg, with one entry, or with
\* any number of them as long as no flat position ends rows before what reduced it is booked
\* (_retire_cancelled_row, _close_entry_rows_when_flat, _settle_filled_row, _net_entry_row).
THEOREM ExposureIsOwned ==
  ASSUME Selling = {}, BlindClose => \A r, q \in Rows : r = q
  PROVE  Spec => []OwnedCoversHeld
<1>1. Alone
  BY DEF Alone
<1>2. Init => HoldInv
  BY HoldStarts
<1>3. CursorInv /\ HoldInv /\ [Next]_vars => HoldInv'
  BY <1>1, HoldSteps
<1>4. CursorInv /\ HoldInv => OwnedCoversHeld
  BY <1>1, HoldCovers
<1>. QED  BY <1>2, <1>3, <1>4, CursorInvariant, PTL DEF Spec
===============================================================================
