------------------------- MODULE ProtectionProofs --------------------------
(***************************************************************************)
(* The protection of a position for every value of the constants: the     *)
(* stop of the position with its ownership rows (TradingStop), and the     *)
(* run's share of a hedge leg (LegLedger, HedgeLeg).                       *)
(*                                                                         *)
(* TradingStop.  Whatever lies beyond the code, LegInv (types and bounds)  *)
(* and OwnerInv (the ownership rows) are kept, and they give               *)
(* ExitsAreOwned.  The journal rests on an equation: while the run holds   *)
(* something, the journal is what it holds plus its part of the executions *)
(* that are not handled yet (BookInv).  An execution is booked when rows   *)
(* live at it are on record and it is not refused as a partial of what     *)
(* they cover (CoverInv), which rests on what a stop may fill between two  *)
(* row writes (FiringInv).  What the engine counts on is owned and on the  *)
(* position (TrustInv).                                                    *)
(*                                                                         *)
(* HedgeLeg.  RecordInv is inductive: the ledger is well formed, no        *)
(* execution that is still to come is on it, and BoundsOk holds of a       *)
(* started ledger: the share is within the leg and the journal, and the    *)
(* room left for a late fill of the run's own is within the rest of the    *)
(* leg.  The walk of a round leaves the leg's bound aside (Passed, Within) *)
(* and the cap at its end restores it.                                     *)
(*                                                                         *)
(* The last part compares the ledger with the true history (ExactInv):     *)
(* until a give-up it is exact at its cursor (Exact), and what it holds    *)
(* together with what is still to come is every execution beyond (Whole).  *)
(* A view whose sum fits misses none of them (NothingMissing), so a walk   *)
(* onto it takes the true steps (Walked) and reports what they took        *)
(* (Fair).  Exactness is stated of values (PluginExact), since the         *)
(* handlers work on records, and carried over to the variables last.       *)
(***************************************************************************)
EXTENDS TradingStop, HedgeLeg, FiniteSetTheorems, SequenceTheorems, WellFoundedInduction, TLAPS

(***************************************************************************)
(* The inductive invariant.                                                *)
(***************************************************************************)
Execution == [order : Execs, qty : 1 .. MaxLeg + MaxForeign, part : 0 .. MaxLeg]

\* The types, part by part, and what bounds the figures.
VenueInv ==
    /\ run \in Nat /\ run <= Qty * spent.entries /\ foreign \in 0 .. MaxForeign
    /\ stop \in Rows \cup {None} /\ wire \in Rows \cup {None}
    /\ firing \in Nat /\ firing <= Len(execs)
    /\ firing # 0 => Leg > 0 /\ Len(execs) < MaxExecs

LogInv ==
    /\ execs \in Seq(Execution) /\ Len(execs) <= MaxExecs
    /\ \A i \in Known : execs[i].part <= execs[i].qty

RowInv ==
    /\ own \in [Rows -> {"none", "active", "released"}]
    /\ born \in [Rows -> Nat] /\ shut \in [Rows -> Nat]
    /\ \A r \in Rows : born[r] <= Len(execs) /\ shut[r] <= Len(execs)

BooksInv ==
    /\ journal \in Nat /\ journal <= Qty * spent.entries
    /\ claim \in [Execs -> 0 .. MaxLeg]
    /\ handled \subseteq Known /\ trail \subseteq handled

Calling == {"posted", "reread", "retry", "confirm"}

CallInv ==
    /\ pc \in Calling \cup {"idle", "escalated", "clear", "down"}
    /\ cur \in Rows \cup {None} /\ sup \subseteq Rows
    /\ prior \in {"none", "active", "released"}
    /\ since \in Nat /\ since <= Len(execs)
    /\ pc \in Calling \cup {"clear"} => cur \in Rows

EngInv ==
    /\ entered \subseteq Exits /\ trusts \subseteq Exits
    /\ spent \in [entries : 0 .. MaxEntries, faults : 0 .. MaxFaults, crashes : 0 .. MaxCrashes]

LegInv == VenueInv /\ LogInv /\ RowInv /\ BooksInv /\ CallInv /\ EngInv

\* No exit has two active owners; the stop of the position, and an attach that may still
\* land, have one.  A call that is answered with a refusal finds the row it replaced.
OwnerInv ==
    /\ \A r, q \in Active : r[1] = q[1] => r = q
    /\ \A r \in {stop, wire} \ {None} : OwnersOf(r[1]) # {}
    /\ firing # 0 \/ Leg = 0 => stop = None
    /\ pc = "clear" => wire = None /\ own[cur] = "active"
    /\ pc \in Calling =>
         /\ own[cur] = "active" /\ sup \subseteq Rows \ {cur}
         /\ \A q \in sup : q[1] = cur[1]
         /\ \A q, r \in sup : q = r
         /\ prior \in {"none", "active"} /\ (prior = "active" => sup = {})
    /\ pc = "posted" /\ prior = "none" /\ sup = {} =>
         \A r \in {stop, wire} \ {None} : r[1] # cur[1]

\* Executions of fired stops that the process has not handled, and the run's part of them.
Unhandled == Known \ handled
Part == [i \in Known |-> execs[i].part]
Owed == SumOver(Part, Unhandled)

\* The rows that were live at execution i.
Covers(i, r) == born[r] < i /\ (own[r] = "active" \/ (own[r] = "released" /\ i <= shut[r]))
Cover(i) == {r \in Rows : Covers(i, r)}

\* While a stop fills no row is written or released.  Between two stops the run holds its
\* entries whole, everything is handled, and every owner is of one of them.
FiringInv ==
    /\ firing # 0 => since < Len(execs) /\ Active # {} /\ Cardinality(Active) <= 1
    /\ run > 0 /\ firing = 0 =>
         /\ Unhandled = {} /\ run = Qty * Cardinality(entered)
         /\ \A r \in Active : r[1] \in entered

\* Every execution not handled yet has rows that were live at it, and one of the run that
\* several rows share is large enough for all of them.
CoverInv ==
    /\ pc = "posted" /\ prior = "none" => born[cur] = since
    /\ \A i \in Unhandled : Cover(i) # {}
    /\ pc = "down" => \A i \in Unhandled : \E r \in Active : born[r] < i
    /\ \A i \in Unhandled : execs[i].part > 0 =>
         Cardinality(Cover(i)) <= 1 \/ execs[i].qty >= Qty * Cardinality(Cover(i))

\* The journal is the run's part and what is still owed it; once the venue holds nothing of
\* the run it may be less, for an execution is handled before one that came before it.
BookInv ==
    /\ journal <= run + Owed
    /\ run > 0 => journal = run + Owed /\ \A i \in Unhandled : execs[i].part = execs[i].qty
    /\ journal = 0 => entered = {}
    /\ run > 0 => \A i \in handled \ trail : \A r \in Active : born[r] >= i

\* What the engine counts on is owned, and is on the position while the run holds something.
TrustInv ==
    /\ \A x \in trusts : OwnersOf(x) # {}
    /\ pc = "clear" => trusts \subseteq {cur[1]}
    /\ pc = "posted" /\ prior = "none" /\ sup = {} => cur[1] \notin trusts
    /\ run > 0 /\ firing = 0 /\ trusts # {} => stop # None

ShareInv == LegInv /\ OwnerInv /\ FiringInv /\ CoverInv /\ BookInv
StopInv == ShareInv /\ TrustInv

\* Induction over the natural numbers, as a statement about a set of them.
LEMMA EveryNat ==
  ASSUME NEW G, 0 \in G, \A n \in Nat : n \in G => n + 1 \in G
  PROVE  \A n \in Nat : n \in G
<1>. DEFINE Bad == {n \in Nat : n \notin G}
<1>1. SUFFICES ASSUME Bad # {}
               PROVE  FALSE
  OBVIOUS
<1>2. PICK m \in Bad : \A k \in Bad : ~(<<k, m>> \in OpToRel(<, Nat))
  <2>1. Bad \subseteq Nat
    OBVIOUS
  <2>. HIDE DEF Bad
  <2>. QED  BY <1>1, <2>1, WFMin, NatLessThanWellFounded
<1>3. ASSUME NEW k \in Nat, NEW n \in Nat, k < n
      PROVE  <<k, n>> \in OpToRel(<, Nat)
  BY <1>3, Zenon DEF OpToRel
<1>4. \A k \in Bad : ~(k < m)
  BY <1>2, <1>3
<1>5. m \in Nat /\ m # 0 /\ m \notin G
  OBVIOUS
<1>6. m - 1 \in Nat /\ m - 1 < m
  BY <1>5
<1>7. m - 1 \in G
  BY <1>4, <1>6
<1>. QED  BY <1>5, <1>6, <1>7

(***************************************************************************)
(* Sums over a finite set.                                                 *)
(***************************************************************************)
Picked(s) == CHOOSE x \in s : TRUE
Step(f, s, g) == IF s = {} THEN 0 ELSE f[Picked(s)] + g[s \ {Picked(s)}]
Sums(f, S, g) == g = [s \in SUBSET S |-> Step(f, s, g)]
Partial(f, S) == CHOOSE g : Sums(f, S, g)

\* The fold, as the recursive function on the subsets it is built from.
LEMMA SumIsPartial ==
  ASSUME NEW f, NEW S
  PROVE  SumOver(f, S) = Partial(f, S)[S]
BY DEF SumOver, MapThenSumSet, MapThenFoldSet, Partial, Sums, Step, Picked

\* That function exists: level by level of the size of its arguments.
LEMMA PartialExists ==
  ASSUME NEW f, NEW S, IsFiniteSet(S)
  PROVE  Sums(f, S, Partial(f, S))
<1>. DEFINE D(n) == {s \in SUBSET S : Cardinality(s) <= n}
            On(n, g) == g = [s \in D(n) |-> Step(f, s, g)]
            G == {n \in Nat : \E g : On(n, g)}
<1>1. \A s \in SUBSET S : IsFiniteSet(s) /\ Cardinality(s) \in Nat
  BY FS_Subset, FS_CardinalityType
<1>2. 0 \in G
  <2>. DEFINE g == [s \in D(0) |-> 0]
  <2>1. \A s \in D(0) : s = {}
    BY <1>1, FS_EmptySet
  <2>2. \A s \in D(0) : Step(f, s, g) = 0
    BY <2>1 DEF Step
  <2>3. On(0, g)
    BY <2>2
  <2>. QED  BY <2>3
<1>3. ASSUME NEW n \in Nat, n \in G
      PROVE  n + 1 \in G
  <2>1. PICK g : On(n, g)
    BY <1>3
  <2>. DEFINE h == [s \in D(n + 1) |-> IF s \in D(n) THEN g[s] ELSE Step(f, s, g)]
  <2>2. \A s \in D(n + 1) : s # {} => s \ {Picked(s)} \in D(n)
    <3>. SUFFICES ASSUME NEW s \in D(n + 1), s # {}
                  PROVE  s \ {Picked(s)} \in D(n)
      OBVIOUS
    <3>1. Picked(s) \in s
      BY DEF Picked
    <3>2. Cardinality(s \ {Picked(s)}) = Cardinality(s) - 1
      BY <1>1, <3>1, FS_RemoveElement
    <3>. QED  BY <1>1, <3>2
  <2>3. D(n) \subseteq D(n + 1)
    BY <1>1
  <2>4. \A s \in D(n + 1) : Step(f, s, h) = Step(f, s, g)
    BY <2>2, <2>3 DEF Step
  <2>5. \A s \in D(n) : g[s] = Step(f, s, g)
    BY <2>1
  <2>6. \A s \in D(n + 1) : h[s] = Step(f, s, h)
    BY <2>4, <2>5
  <2>7. On(n + 1, h)
    BY <2>6
  <2>. HIDE DEF On, h
  <2>. QED  BY <2>7
<1>4. \E g : On(Cardinality(S), g)
  <2>. HIDE DEF G
  <2>1. \A n \in Nat : n \in G
    BY <1>2, <1>3, EveryNat
  <2>. QED  BY <2>1, FS_CardinalityType DEF G
<1>5. D(Cardinality(S)) = SUBSET S
  BY <1>1, FS_Subset
<1>6. \E g : Sums(f, S, g)
  BY <1>4, <1>5 DEF Sums
<1>. QED  BY <1>6 DEF Partial

\* Whichever element is put aside, the rest adds up.
LEMMA PartialStep ==
  ASSUME NEW f, NEW S, IsFiniteSet(S), \A i \in S : f[i] \in Int, NEW g, Sums(f, S, g)
  PROVE  \A s \in SUBSET S : /\ g[s] \in Int
                             /\ \A y \in s : g[s] = f[y] + g[s \ {y}]
<1>. DEFINE Good(s) == g[s] \in Int /\ \A y \in s : g[s] = f[y] + g[s \ {y}]
            G == {n \in Nat : \A s \in SUBSET S : Cardinality(s) <= n => Good(s)}
<1>1. \A s \in SUBSET S : IsFiniteSet(s) /\ Cardinality(s) \in Nat
  BY FS_Subset, FS_CardinalityType
<1>2. \A s \in SUBSET S : g[s] = Step(f, s, g)
  BY DEF Sums
<1>3. g[{}] = 0
  BY <1>2 DEF Step
<1>4. ASSUME NEW s \in SUBSET S, NEW y \in s
      PROVE  Cardinality(s \ {y}) = Cardinality(s) - 1
  BY <1>1, FS_RemoveElement
<1>5. 0 \in G
  <2>1. \A s \in SUBSET S : Cardinality(s) <= 0 => s = {}
    BY <1>1, FS_EmptySet
  <2>2. Good({})
    BY <1>3
  <2>. HIDE DEF Good
  <2>. QED  BY <2>1, <2>2
<1>6. ASSUME NEW n \in Nat, n \in G, NEW s \in SUBSET S, Cardinality(s) <= n + 1
      PROVE  Good(s)
  <2>1. CASE s = {}
    BY <1>3, <2>1
  <2>2. CASE s # {}
    <3>. DEFINE x == Picked(s)
    <3>1. x \in s
      BY <2>2 DEF Picked
    <3>2. g[s] = f[x] + g[s \ {x}]
      BY <1>2, <2>2 DEF Step
    <3>3. \A y \in s : Good(s \ {y})
      <4>. SUFFICES ASSUME NEW y \in s
                    PROVE  Good(s \ {y})
        OBVIOUS
      <4>1. s \ {y} \in SUBSET S /\ Cardinality(s \ {y}) <= n
        BY <1>1, <1>4, <1>6
      <4>. QED  BY <1>6, <4>1
    <3>. HIDE DEF x
    <3>4. g[s] \in Int
      <4>1. f[x] \in Int /\ g[s \ {x}] \in Int
        BY <3>1, <3>3
      <4>. QED  BY <3>2, <4>1
    <3>5. ASSUME NEW y \in s, y # x
          PROVE  g[s] = f[y] + g[s \ {y}]
      <4>. DEFINE u == (s \ {x}) \ {y}
      <4>1. u = (s \ {y}) \ {x} /\ y \in s \ {x} /\ x \in s \ {y} /\ u \in SUBSET S
        BY <3>1, <3>5
      <4>2. g[s \ {x}] = f[y] + g[u] /\ g[s \ {y}] = f[x] + g[u]
        BY <3>1, <3>3, <4>1
      <4>3. g[u] \in Int
        <5>1. Cardinality(u) <= n
          <6>1. Cardinality(u) = Cardinality(s \ {x}) - 1
            BY <1>4, <4>1, s \ {x} \in SUBSET S
          <6>. QED  BY <1>1, <1>4, <1>6, <3>1, <6>1
        <5>. QED  BY <1>6, <4>1, <5>1
      <4>. HIDE DEF u
      <4>. QED  BY <3>1, <3>2, <4>2, <4>3
    <3>. QED  BY <3>2, <3>4, <3>5
  <2>. QED  BY <2>1, <2>2
<1>. HIDE DEF Good
<1>7. ASSUME NEW n \in Nat, n \in G
      PROVE  n + 1 \in G
  BY <1>6, <1>7
<1>. HIDE DEF G
<1>8. \A n \in Nat : n \in G
  BY <1>5, <1>7, EveryNat
<1>9. \A s \in SUBSET S : Good(s)
  <2>. SUFFICES ASSUME NEW s \in SUBSET S
                PROVE  Good(s)
    OBVIOUS
  <2>1. Cardinality(s) \in G /\ Cardinality(s) <= Cardinality(s)
    BY <1>1, <1>8
  <2>. QED  BY <2>1 DEF G
<1>. QED  BY <1>9 DEF Good

\* The sum does not depend on the set it is a part of.
LEMMA PartialAgree ==
  ASSUME NEW f, NEW S, IsFiniteSet(S), \A i \in S : f[i] \in Int, NEW T \in SUBSET S,
         NEW g, Sums(f, S, g), NEW h, Sums(f, T, h)
  PROVE  g[T] = h[T]
<1>. DEFINE k == [s \in SUBSET T |-> g[s]]
            G == {n \in Nat : \A s \in SUBSET T : Cardinality(s) <= n => g[s] = h[s]}
<1>1. \A s \in SUBSET T : IsFiniteSet(s) /\ Cardinality(s) \in Nat
  BY FS_Subset, FS_CardinalityType
<1>2. \A s \in SUBSET T : g[s] = Step(f, s, g) /\ h[s] = Step(f, s, h)
  BY DEF Sums
<1>3. 0 \in G
  <2>1. \A s \in SUBSET T : Cardinality(s) <= 0 => s = {}
    BY <1>1, FS_EmptySet
  <2>2. g[{}] = 0 /\ h[{}] = 0
    BY <1>2 DEF Step
  <2>. QED  BY <2>1, <2>2
<1>4. ASSUME NEW n \in Nat, n \in G, NEW s \in SUBSET T, Cardinality(s) <= n + 1
      PROVE  g[s] = h[s]
  <2>1. CASE s = {}
    BY <1>2, <2>1 DEF Step
  <2>2. CASE s # {}
    <3>1. Picked(s) \in s
      BY <2>2 DEF Picked
    <3>2. Cardinality(s \ {Picked(s)}) <= n
      BY <1>1, <1>4, <3>1, FS_RemoveElement
    <3>3. g[s \ {Picked(s)}] = h[s \ {Picked(s)}]
      BY <1>4, <3>2
    <3>. QED  BY <1>2, <2>2, <3>3 DEF Step
  <2>. QED  BY <2>1, <2>2
<1>5. ASSUME NEW n \in Nat, n \in G
      PROVE  n + 1 \in G
  BY <1>4, <1>5
<1>. HIDE DEF G
<1>6. \A n \in Nat : n \in G
  BY <1>3, <1>5, EveryNat
<1>7. Cardinality(T) \in G /\ Cardinality(T) <= Cardinality(T)
  BY <1>1, <1>6
<1>. QED  BY <1>7 DEF G

\* Nothing adds up to nothing.
LEMMA SumEmpty ==
  ASSUME NEW f
  PROVE  SumOver(f, {}) = 0
<1>1. Sums(f, {}, Partial(f, {}))
  BY PartialExists, FS_EmptySet
<1>2. Partial(f, {})[{}] = 0
  BY <1>1 DEF Sums, Step
<1>. QED  BY <1>2, SumIsPartial

\* Integers add up to an integer.
LEMMA SumInt ==
  ASSUME NEW f, NEW S, IsFiniteSet(S), \A i \in S : f[i] \in Int
  PROVE  SumOver(f, S) \in Int
BY SumIsPartial, PartialExists, PartialStep

\* An element more adds its figure.
LEMMA SumRemove ==
  ASSUME NEW f, NEW S, IsFiniteSet(S), \A i \in S : f[i] \in Int, NEW y \in S
  PROVE  SumOver(f, S) = f[y] + SumOver(f, S \ {y})
<1>1. /\ Sums(f, S, Partial(f, S))
      /\ Sums(f, S \ {y}, Partial(f, S \ {y}))
  BY PartialExists, FS_RemoveElement
<1>2. Partial(f, S)[S] = f[y] + Partial(f, S)[S \ {y}]
  BY <1>1, PartialStep
<1>3. Partial(f, S)[S \ {y}] = Partial(f, S \ {y})[S \ {y}]
  BY <1>1, PartialAgree
<1>. QED  BY <1>2, <1>3, SumIsPartial

\* More elements of larger figures add up to no less.
LEMMA SumGrows ==
  ASSUME NEW f, NEW h, NEW S, NEW T, IsFiniteSet(T), S \subseteq T,
         \A i \in T : h[i] \in Nat, \A i \in S : f[i] \in Int /\ f[i] <= h[i]
  PROVE  SumOver(f, S) \in Int /\ SumOver(h, T) \in Nat /\ SumOver(f, S) <= SumOver(h, T)
<1>. DEFINE Good(t) == /\ SumOver(h, t) \in Nat
                       /\ SumOver(f, S \cap t) <= SumOver(h, t)
            G == {n \in Nat : \A t \in SUBSET T : Cardinality(t) <= n => Good(t)}
<1>1. \A t \in SUBSET T : IsFiniteSet(t) /\ Cardinality(t) \in Nat
  BY FS_Subset, FS_CardinalityType
<1>2. \A t \in SUBSET T : SumOver(h, t) \in Int /\ SumOver(f, S \cap t) \in Int
  <2>. SUFFICES ASSUME NEW t \in SUBSET T
                PROVE  SumOver(h, t) \in Int /\ SumOver(f, S \cap t) \in Int
    OBVIOUS
  <2>1. IsFiniteSet(t) /\ IsFiniteSet(S \cap t)
    BY <1>1, FS_Subset, S \cap t \in SUBSET T
  <2>2. /\ \A i \in t : h[i] \in Int
        /\ \A i \in S \cap t : f[i] \in Int
    OBVIOUS
  <2>. QED  BY <2>1, <2>2, SumInt
<1>3. 0 \in G
  <2>1. \A t \in SUBSET T : Cardinality(t) <= 0 => t = {}
    BY <1>1, FS_EmptySet
  <2>2. SumOver(h, {}) = 0 /\ SumOver(f, S \cap {}) = 0
    BY SumEmpty
  <2>3. Good({})
    BY <2>2
  <2>. HIDE DEF Good
  <2>. QED  BY <2>1, <2>3
<1>4. ASSUME NEW n \in Nat, n \in G, NEW t \in SUBSET T, Cardinality(t) <= n + 1
      PROVE  Good(t)
  <2>1. CASE t = {}
    <3>1. SumOver(h, {}) = 0 /\ SumOver(f, S \cap {}) = 0
      BY SumEmpty
    <3>. QED  BY <2>1, <3>1
  <2>2. CASE t # {}
    <3>1. PICK y \in t : TRUE
      BY <2>2
    <3>. DEFINE u == t \ {y}
    <3>2. u \in SUBSET T /\ Cardinality(u) <= n
      BY <1>1, <1>4, <3>1, FS_RemoveElement
    <3>3. Good(u)
      BY <1>4, <3>2
    <3>4. SumOver(h, t) = h[y] + SumOver(h, u)
      <4>1. \A i \in t : h[i] \in Int
        OBVIOUS
      <4>. QED  BY <1>1, <3>1, <4>1, SumRemove
    <3>5. h[y] \in Nat
      BY <3>1
    <3>6. CASE y \in S
      <4>1. (S \cap t) \ {y} = S \cap u /\ y \in S \cap t /\ IsFiniteSet(S \cap t)
        BY <1>1, <3>1, <3>6, FS_Subset, S \cap t \in SUBSET T
      <4>2. \A i \in S \cap t : f[i] \in Int
        OBVIOUS
      <4>. HIDE DEF u
      <4>3. SumOver(f, S \cap t) = f[y] + SumOver(f, S \cap u)
        BY <4>1, <4>2, SumRemove
      <4>4. f[y] \in Int /\ f[y] <= h[y]
        BY <3>6
      <4>. QED  BY <1>2, <3>2, <3>3, <3>4, <3>5, <4>3, <4>4
    <3>7. CASE y \notin S
      <4>1. S \cap t = S \cap u
        BY <3>7
      <4>2. SumOver(f, S \cap t) <= SumOver(h, u)
        BY <3>3, <4>1
      <4>3. SumOver(h, u) \in Nat /\ SumOver(f, S \cap t) \in Int
        BY <1>2, <3>3
      <4>. HIDE DEF u
      <4>. QED  BY <3>4, <3>5, <4>2, <4>3
    <3>. QED  BY <3>6, <3>7
  <2>. QED  BY <2>1, <2>2
<1>. HIDE DEF Good
<1>5. ASSUME NEW n \in Nat, n \in G
      PROVE  n + 1 \in G
  BY <1>4, <1>5
<1>. HIDE DEF G
<1>6. \A n \in Nat : n \in G
  BY <1>3, <1>5, EveryNat
<1>7. Cardinality(T) \in G /\ Cardinality(T) <= Cardinality(T)
  BY <1>1, <1>6
<1>8. Good(T)
  BY <1>7 DEF G
<1>9. S \cap T = S
  OBVIOUS
<1>. QED  BY <1>2, <1>8, <1>9 DEF Good

(***************************************************************************)
(* Types.                                                                  *)
(***************************************************************************)
\* What the minimum of two figures is.
LEMMA LeastOfTwo ==
  ASSUME NEW a \in Int, NEW b \in Int
  PROVE  Min({a, b}) = IF a <= b THEN a ELSE b
<1>1. \A m : m = (IF a <= b THEN a ELSE b) => m \in {a, b} /\ \A y \in {a, b} : m <= y
  OBVIOUS
<1>2. \A m \in {a, b} : (\A y \in {a, b} : m <= y) => m = IF a <= b THEN a ELSE b
  OBVIOUS
<1>. QED  BY <1>1, <1>2 DEF Min

\* What the maximum of two figures is.
LEMMA LargestOfTwo ==
  ASSUME NEW a \in Int, NEW b \in Int
  PROVE  Max({a, b}) = IF a >= b THEN a ELSE b
<1>1. \A m : m = (IF a >= b THEN a ELSE b) => m \in {a, b} /\ \A y \in {a, b} : m >= y
  OBVIOUS
<1>2. \A m \in {a, b} : (\A y \in {a, b} : m >= y) => m = IF a >= b THEN a ELSE b
  OBVIOUS
<1>. QED  BY <1>1, <1>2 DEF Max

\* The bounds as numbers.
LEMMA Bounds ==
  ASSUME NEW n \in 0 .. MaxEntries
  PROVE  /\ Qty \in Nat \ {0} /\ MaxLeg \in Nat /\ MaxForeign \in Nat /\ MaxExecs \in Nat
         /\ MaxEntries \in Nat /\ MaxFaults \in Nat /\ MaxCrashes \in Nat
         /\ Qty * n \in Nat /\ Qty * n <= MaxLeg
         /\ Qty * (n + 1) = Qty * n + Qty
<1>1. /\ Qty \in Nat \ {0} /\ MaxForeign \in Nat /\ MaxExecs \in Nat
      /\ MaxEntries \in Nat /\ MaxFaults \in Nat /\ MaxCrashes \in Nat
  BY StopAssumption
<1>2. \A q \in Nat, m \in Nat : \A k \in 0 .. m : q * k <= m * q /\ q * k \in Nat
  OBVIOUS
<1>3. \A q \in Nat, k \in Nat : q * (k + 1) = q * k + q
  OBVIOUS
<1>. QED  BY <1>1, <1>2, <1>3 DEF MaxLeg

\* The figures as numbers.
LEMMA LegTypes ==
  ASSUME LegInv
  PROVE  /\ run \in Nat /\ foreign \in 0 .. MaxForeign /\ foreign \in Nat /\ journal \in Nat
         /\ execs \in Seq(Execution) /\ Len(execs) \in Nat /\ Known \subseteq Execs
         /\ Known = 1 .. Len(execs)
         /\ \A i \in Known : /\ execs[i].qty \in Nat \ {0} /\ execs[i].part \in Nat
                             /\ execs[i].part <= execs[i].qty
         /\ MaxLeg \in Nat /\ Qty \in Nat \ {0} /\ run <= MaxLeg /\ journal <= MaxLeg
         /\ MaxExecs \in Nat /\ Len(execs) <= MaxExecs
         /\ firing \in Nat /\ firing <= Len(execs) /\ since \in Nat /\ since <= Len(execs)
         /\ handled \subseteq Known /\ trail \subseteq handled
         /\ \A r \in Rows : /\ born[r] \in Nat /\ shut[r] \in Nat
                            /\ born[r] <= Len(execs) /\ shut[r] <= Len(execs)
<1>1. spent.entries \in 0 .. MaxEntries
  BY DEF LegInv, EngInv
<1>2. /\ MaxLeg \in Nat /\ Qty \in Nat \ {0} /\ MaxForeign \in Nat /\ MaxExecs \in Nat
      /\ Qty * spent.entries \in Nat /\ Qty * spent.entries <= MaxLeg
  BY <1>1, Bounds
<1>3. execs \in Seq(Execution) /\ Len(execs) <= MaxExecs
  BY DEF LegInv, LogInv
<1>4. Len(execs) \in Nat
  BY <1>3
<1>5. Known \subseteq Execs
  BY <1>2, <1>3, <1>4 DEF Known, Execs
<1>6. \A i \in Known : execs[i] \in Execution
  BY <1>3 DEF Known
<1>7. \A i \in Known : /\ execs[i].qty \in Nat \ {0} /\ execs[i].part \in Nat
                       /\ execs[i].part <= execs[i].qty
  BY <1>2, <1>6 DEF Execution, LegInv, LogInv
<1>8. run \in Nat /\ foreign \in 0 .. MaxForeign /\ run <= MaxLeg
  BY <1>2 DEF LegInv, VenueInv
<1>9. journal \in Nat /\ journal <= MaxLeg
  BY <1>2 DEF LegInv, BooksInv
<1>10. firing \in Nat /\ firing <= Len(execs)
  BY DEF LegInv, VenueInv
<1>11. since \in Nat /\ since <= Len(execs)
  BY DEF LegInv, CallInv
<1>12. handled \subseteq Known /\ trail \subseteq handled
  BY DEF LegInv, BooksInv
<1>13. \A r \in Rows : /\ born[r] \in Nat /\ shut[r] \in Nat
                       /\ born[r] <= Len(execs) /\ shut[r] <= Len(execs)
  BY DEF LegInv, RowInv
<1>14. foreign \in Nat
  BY <1>2, <1>8
<1>. QED
  BY <1>2, <1>3, <1>4, <1>5, <1>7, <1>8, <1>9, <1>10, <1>11, <1>12, <1>13, <1>14 DEF Known

\* The invariant is stronger than the types.
LEMMA LegIsTyped ==
  ASSUME LegInv
  PROVE  TypeOK
<1>1. /\ run \in 0 .. MaxLeg /\ journal \in 0 .. MaxLeg /\ firing \in 0 .. MaxExecs
      /\ since \in 0 .. MaxExecs
  BY LegTypes
<1>2. born \in [Rows -> 0 .. MaxExecs] /\ shut \in [Rows -> 0 .. MaxExecs]
  <2>1. /\ born \in [Rows -> Nat] /\ shut \in [Rows -> Nat]
    BY DEF LegInv, RowInv
  <2>2. \A r \in Rows : born[r] \in 0 .. MaxExecs /\ shut[r] \in 0 .. MaxExecs
    BY LegTypes
  <2>. QED  BY <2>1, <2>2
<1>3. trail \subseteq Execs /\ handled \subseteq Execs
  BY LegTypes
<1>4. execs \in Seq([order : Execs, qty : 1 .. MaxLeg + MaxForeign, part : 0 .. MaxLeg])
  BY DEF LegInv, LogInv, Execution
<1>. QED
  BY <1>1, <1>2, <1>3, <1>4
     DEF TypeOK, LegInv, VenueInv, RowInv, BooksInv, CallInv, Calling, EngInv

\* The bounds that mention the entries so far.
LEMMA EntryBounds ==
  ASSUME LegInv
  PROVE  /\ spent.entries \in Nat /\ spent.entries <= MaxEntries
         /\ Qty * spent.entries \in Nat /\ Qty * spent.entries <= MaxLeg
         /\ Qty * (spent.entries + 1) = Qty * spent.entries + Qty
<1>1. spent.entries \in 0 .. MaxEntries
  BY DEF LegInv, EngInv
<1>2. MaxEntries \in Nat
  BY StopAssumption
<1>. QED  BY <1>1, <1>2, Bounds

\* It holds before any order.
LEMMA LegStarts ==
  ASSUME Init
  PROVE  LegInv
<1>1. MaxLeg \in Nat /\ Qty * 0 = 0 /\ MaxExecs \in Nat
  BY Bounds, StopAssumption, 0 \in 0 .. MaxEntries
<1>2. execs \in Seq(Execution) /\ Len(execs) = 0
  BY DEF Init
<1>. QED
  BY <1>1, <1>2, StopAssumption
     DEF Init, LegInv, VenueInv, LogInv, RowInv, BooksInv, CallInv, Calling, EngInv, Known

\* What an execution of q does, part of it the run's.
Took(order, q, part) ==
    /\ part = (IF q <= run THEN q ELSE run)
    /\ q = Leg \/ (Len(execs) + 1 < MaxExecs /\ (Cardinality(Active) <= 1 \/ "pieces" \in Beyond))
    /\ execs' \in Seq(Execution) /\ Len(execs') = Len(execs) + 1
    /\ \A i \in Known : execs'[i] = execs[i]
    /\ execs'[Len(execs) + 1] = [order |-> order, qty |-> q, part |-> part]
    /\ run' = run - part /\ foreign' = foreign - (q - part)
    /\ foreign' \in 0 .. MaxForeign /\ run' \in Nat
    /\ firing' = IF q = Leg THEN 0 ELSE order
    /\ q = Leg => run' = 0 /\ foreign' = 0
    /\ q # Leg => run' + foreign' > 0

\* A stop that executes takes the run's part first.
LEMMA OneExecution ==
  ASSUME LegInv, NEW order \in Execs, Executes(order), Leg > 0, Len(execs) < MaxExecs
  PROVE  \E q \in 1 .. Leg : \E part \in 0 .. run : Took(order, q, part)
<1>1. /\ run \in Nat /\ foreign \in 0 .. MaxForeign /\ execs \in Seq(Execution)
      /\ Len(execs) \in Nat /\ Known = 1 .. Len(execs) /\ MaxLeg \in Nat /\ run <= MaxLeg
  BY LegTypes
<1>2. MaxForeign \in Nat
  BY StopAssumption
<1>3. PICK q \in 1 .. Leg :
        /\ q = Leg \/ (Len(execs) + 1 < MaxExecs /\ (Cardinality(Active) <= 1 \/ "pieces" \in Beyond))
        /\ execs' = Append(execs, [order |-> order, qty |-> q, part |-> Min({q, run})])
        /\ run' = run - Min({q, run}) /\ foreign' = foreign - (q - Min({q, run}))
        /\ firing' = IF q = Leg THEN 0 ELSE order
  BY DEF Executes
<1>4. q \in Nat \ {0} /\ q <= run + foreign
  BY <1>1, <1>3 DEF Leg
<1>5. Min({q, run}) = IF q <= run THEN q ELSE run
  BY <1>1, <1>4, LeastOfTwo
<1>. DEFINE part == IF q <= run THEN q ELSE run
            new == [order |-> order, qty |-> q, part |-> part]
<1>6. part \in 0 .. run
  BY <1>1, <1>4
<1>7. new \in Execution
  BY <1>1, <1>2, <1>4, <1>6 DEF Execution, Execs
<1>8. execs' = Append(execs, new)
  BY <1>3, <1>5
<1>. HIDE DEF new
<1>9. /\ execs' \in Seq(Execution) /\ Len(execs') = Len(execs) + 1
      /\ \A i \in Known : execs'[i] = execs[i]
      /\ execs'[Len(execs) + 1] = new
  BY <1>1, <1>7, <1>8
<1>10. /\ run' = run - part /\ foreign' = foreign - (q - part)
       /\ foreign' \in 0 .. MaxForeign /\ run' \in Nat
       /\ q = Leg => run' = 0 /\ foreign' = 0
       /\ q # Leg => run' + foreign' > 0
  BY <1>1, <1>2, <1>3, <1>4, <1>5 DEF Leg
<1>. QED  BY <1>3, <1>6, <1>9, <1>10 DEF new, Took

\* A stop that fires, or fires on, keeps the figures in range.
LEMMA LegExecutes ==
  ASSUME LegInv, Fire \/ FireFills
  PROVE  LegInv'
<1>1. PICK order \in Execs : /\ Executes(order) /\ order <= Len(execs) + 1 /\ order # 0
                             /\ Leg > 0 /\ Len(execs) < MaxExecs
  <2>1. CASE Fire
    BY <2>1, LegTypes DEF Fire, Execs
  <2>2. CASE FireFills
    BY <2>2, LegTypes DEF FireFills, Execs, LegInv, VenueInv
  <2>. QED  BY <2>1, <2>2
<1>2. PICK q \in 1 .. Leg : \E part \in 0 .. run : Took(order, q, part)
  BY <1>1, OneExecution
<1>3. PICK part \in 0 .. run : Took(order, q, part)
  BY <1>2
<1>4. UNCHANGED <<wire, rowVars, bookVars, callVars, engVars, pc, spent>> /\ stop' \in {stop, None}
  BY DEF Fire, FireFills
<1>5. Known' = Known \cup {Len(execs) + 1}
  <2>1. Len(execs) \in Nat /\ Len(execs') = Len(execs) + 1
    BY <1>3, LegTypes DEF Took
  <2>. QED  BY <2>1 DEF Known
<1>6. LogInv'
  <2>1. execs'[Len(execs) + 1].part <= execs'[Len(execs) + 1].qty
    BY <1>3, LegTypes DEF Took
  <2>2. \A i \in Known' : execs'[i].part <= execs'[i].qty
    BY <1>3, <1>5, <2>1, LegTypes DEF Took
  <2>. QED  BY <1>1, <1>3, <2>2, LegTypes DEF LogInv, Took
<1>7. VenueInv'
  <2>1. run' \in Nat /\ run' <= run /\ firing' \in {0, order}
    BY <1>3, LegTypes DEF Took
  <2>2. firing' # 0 => Leg' > 0 /\ Len(execs') < MaxExecs
    BY <1>3, LegTypes DEF Took, Leg
  <2>3. firing' \in Nat /\ firing' <= Len(execs')
    BY <1>1, <1>3, <2>1, LegTypes DEF Took, Execs
  <2>4. run' <= Qty * spent.entries
    BY <2>1, EntryBounds, LegTypes DEF LegInv, VenueInv
  <2>. QED  BY <1>3, <1>4, <2>1, <2>2, <2>3, <2>4 DEF LegInv, VenueInv, Took
<1>8. RowInv' /\ CallInv'
  <2>1. Len(execs') = Len(execs) + 1
    BY <1>3 DEF Took
  <2>2. \A r \in Rows : born[r] <= Len(execs') /\ shut[r] <= Len(execs')
    BY <2>1, LegTypes
  <2>3. since <= Len(execs')
    BY <2>1, LegTypes
  <2>. QED  BY <1>4, <2>2, <2>3 DEF LegInv, RowInv, CallInv, rowVars, callVars
<1>9. BooksInv' /\ EngInv'
  BY <1>4, <1>5 DEF LegInv, BooksInv, EngInv, bookVars, engVars
<1>. QED  BY <1>6, <1>7, <1>8, <1>9 DEF LegInv

Counts == [entries : 0 .. MaxEntries, faults : 0 .. MaxFaults, crashes : 0 .. MaxCrashes]

\* A fault is counted within its bound.
LEMMA FaultCounted ==
  ASSUME LegInv, Fault
  PROVE  spent' \in Counts /\ spent'.entries = spent.entries
<1>1. MaxFaults \in Nat /\ spent \in Counts
  BY StopAssumption DEF LegInv, EngInv, Counts
<1>2. spent.faults + 1 \in 0 .. MaxFaults
  BY <1>1 DEF Fault, Counts
<1>. QED  BY <1>1, <1>2 DEF Fault, Counts

\* Released rows are rows.
LEMMA ReleaseTyped ==
  ASSUME LegInv, NEW rs, Release(rs)
  PROVE  /\ own' \in [Rows -> {"none", "active", "released"}]
         /\ born' \in [Rows -> Nat] /\ shut' \in [Rows -> Nat]
         /\ \A r \in Rows : born'[r] <= Len(execs) /\ shut'[r] <= Len(execs)
<1>1. \A r \in Rows : shut'[r] \in Nat /\ shut'[r] <= Len(execs)
  BY LegTypes DEF Release
<1>. QED  BY <1>1, LegTypes DEF Release, LegInv, RowInv

\* Steps that leave the executions, the books and the firing stop alone.
LEMMA LegKept ==
  ASSUME LegInv, UNCHANGED <<execs, firing, claim, handled, trail>>, spent'.entries = spent.entries,
         run' \in Nat, run' <= run, foreign' \in 0 .. MaxForeign, firing # 0 => Leg' > 0,
         journal' \in Nat, journal' <= journal,
         {stop', wire'} \subseteq Rows \cup {None},
         own' \in [Rows -> {"none", "active", "released"}],
         born' \in [Rows -> Nat], shut' \in [Rows -> Nat],
         \A r \in Rows : born'[r] <= Len(execs) /\ shut'[r] <= Len(execs),
         CallInv', EngInv'
  PROVE  LegInv'
<1>1. VenueInv'
  <2>1. run' <= Qty * spent'.entries
    BY EntryBounds, LegTypes DEF LegInv, VenueInv
  <2>. QED  BY <2>1 DEF LegInv, VenueInv
<1>2. LogInv'
  BY DEF LegInv, LogInv, Known
<1>3. RowInv'
  BY DEF RowInv
<1>4. BooksInv'
  <2>1. journal' <= Qty * spent'.entries
    BY EntryBounds, LegTypes DEF LegInv, BooksInv
  <2>. QED  BY <2>1 DEF LegInv, BooksInv, Known
<1>. QED  BY <1>1, <1>2, <1>3, <1>4 DEF LegInv

\* The steps without an execution, an entry or an attribution.
LEMMA LegOthers ==
  ASSUME LegInv,
         \/ UNCHANGED vars
         \/ ForeignTrade
         \/ LateLand
         \/ AttachLands
         \/ AttachQuarantined
         \/ AttachMoot
         \/ AttachRefused
         \/ AttachAmbiguous
         \/ Reread
         \/ RereadFails
         \/ RetryLands
         \/ RetryFails
         \/ DefensiveFlatten
         \/ ClearDone
         \/ ClearFails
         \/ Crash
  PROVE  LegInv'
<1>. USE LegTypes, StopAssumption DEF venueVars, rowVars, bookVars, callVars, engVars
<1>1. CASE UNCHANGED vars
  BY <1>1 DEF vars, LegInv, VenueInv, LogInv, RowInv, BooksInv, CallInv, EngInv, Leg, Known
<1>2. CASE ForeignTrade
  <2>1. UNCHANGED <<execs, firing, claim, handled, trail>> /\ spent'.entries = spent.entries
    BY <1>2 DEF ForeignTrade, LegInv, EngInv
  <2>2. /\ run' \in Nat /\ run' <= run /\ foreign' \in 0 .. MaxForeign
        /\ journal' \in Nat /\ journal' <= journal
        /\ firing # 0 => Leg' > 0
    BY <1>2 DEF ForeignTrade, LegInv, VenueInv, Leg
  <2>3. {stop', wire'} \subseteq Rows \cup {None}
    BY <1>2 DEF ForeignTrade, LegInv, VenueInv, CallInv, Calling
  <2>4. /\ own' \in [Rows -> {"none", "active", "released"}]
        /\ born' \in [Rows -> Nat] /\ shut' \in [Rows -> Nat]
        /\ \A r \in Rows : born'[r] <= Len(execs) /\ shut'[r] <= Len(execs)
    BY <1>2 DEF ForeignTrade, LegInv, RowInv, CallInv, Calling
  <2>5. CallInv'
    BY <1>2, <2>1 DEF ForeignTrade, LegInv, CallInv, Calling
  <2>6. EngInv'
    BY <1>2 DEF ForeignTrade, LegInv, EngInv, CallInv, Calling, Rows
  <2>. QED  BY <2>1, <2>2, <2>3, <2>4, <2>5, <2>6, LegKept
<1>3. CASE LateLand
  <2>1. UNCHANGED <<execs, firing, claim, handled, trail>> /\ spent'.entries = spent.entries
    BY <1>3 DEF LateLand, LegInv, EngInv
  <2>2. /\ run' \in Nat /\ run' <= run /\ foreign' \in 0 .. MaxForeign
        /\ journal' \in Nat /\ journal' <= journal
        /\ firing # 0 => Leg' > 0
    BY <1>3 DEF LateLand, LegInv, VenueInv, Leg
  <2>3. {stop', wire'} \subseteq Rows \cup {None}
    BY <1>3 DEF LateLand, LegInv, VenueInv, CallInv, Calling
  <2>4. /\ own' \in [Rows -> {"none", "active", "released"}]
        /\ born' \in [Rows -> Nat] /\ shut' \in [Rows -> Nat]
        /\ \A r \in Rows : born'[r] <= Len(execs) /\ shut'[r] <= Len(execs)
    BY <1>3 DEF LateLand, LegInv, RowInv, CallInv, Calling
  <2>5. CallInv'
    BY <1>3, <2>1 DEF LateLand, LegInv, CallInv, Calling
  <2>6. EngInv'
    BY <1>3 DEF LateLand, LegInv, EngInv, CallInv, Calling, Rows
  <2>. QED  BY <2>1, <2>2, <2>3, <2>4, <2>5, <2>6, LegKept
<1>4. CASE AttachLands
  <2>1. UNCHANGED <<execs, firing, claim, handled, trail>> /\ spent'.entries = spent.entries
    BY <1>4 DEF AttachLands, Return, CanWrite, LegInv, EngInv
  <2>2. /\ run' \in Nat /\ run' <= run /\ foreign' \in 0 .. MaxForeign
        /\ journal' \in Nat /\ journal' <= journal
        /\ firing # 0 => Leg' > 0
    BY <1>4 DEF AttachLands, Return, CanWrite, LegInv, VenueInv, Leg
  <2>3. {stop', wire'} \subseteq Rows \cup {None}
    BY <1>4 DEF AttachLands, Return, CanWrite, LegInv, VenueInv, CallInv, Calling
  <2>4. /\ own' \in [Rows -> {"none", "active", "released"}]
        /\ born' \in [Rows -> Nat] /\ shut' \in [Rows -> Nat]
        /\ \A r \in Rows : born'[r] <= Len(execs) /\ shut'[r] <= Len(execs)
    BY <1>4 DEF AttachLands, Return, CanWrite, LegInv, RowInv, CallInv, Calling
  <2>5. CallInv'
    BY <1>4, <2>1 DEF AttachLands, Return, CanWrite, LegInv, CallInv, Calling
  <2>6. EngInv'
    BY <1>4 DEF AttachLands, Return, CanWrite, LegInv, EngInv, CallInv, Calling, Rows
  <2>. QED  BY <2>1, <2>2, <2>3, <2>4, <2>5, <2>6, LegKept
<1>5. CASE AttachQuarantined
  <2>1. UNCHANGED <<execs, firing, claim, handled, trail>> /\ spent'.entries = spent.entries
    BY <1>5 DEF AttachQuarantined, Fault, Restore, LegInv, EngInv
  <2>2. /\ run' \in Nat /\ run' <= run /\ foreign' \in 0 .. MaxForeign
        /\ journal' \in Nat /\ journal' <= journal
        /\ firing # 0 => Leg' > 0
    BY <1>5 DEF AttachQuarantined, Fault, Restore, LegInv, VenueInv, Leg
  <2>3. {stop', wire'} \subseteq Rows \cup {None}
    BY <1>5 DEF AttachQuarantined, Fault, Restore, LegInv, VenueInv, CallInv, Calling
  <2>4. /\ own' \in [Rows -> {"none", "active", "released"}]
        /\ born' \in [Rows -> Nat] /\ shut' \in [Rows -> Nat]
        /\ \A r \in Rows : born'[r] <= Len(execs) /\ shut'[r] <= Len(execs)
    BY <1>5 DEF AttachQuarantined, Fault, Restore, LegInv, RowInv, CallInv, Calling
  <2>5. CallInv'
    BY <1>5, <2>1 DEF AttachQuarantined, Fault, Restore, LegInv, CallInv, Calling
  <2>6. EngInv'
    <3>1. spent' \in Counts
      BY <1>5, FaultCounted DEF AttachQuarantined, LegInv, EngInv, Counts
    <3>. QED  BY <1>5, <3>1 DEF AttachQuarantined, Counts, LegInv, EngInv, CallInv, Calling, Rows
  <2>. QED  BY <2>1, <2>2, <2>3, <2>4, <2>5, <2>6, LegKept
<1>6. CASE AttachMoot
  <2>1. UNCHANGED <<execs, firing, claim, handled, trail>> /\ spent'.entries = spent.entries
    BY <1>6 DEF AttachMoot, Release, LegInv, EngInv
  <2>2. /\ run' \in Nat /\ run' <= run /\ foreign' \in 0 .. MaxForeign
        /\ journal' \in Nat /\ journal' <= journal
        /\ firing # 0 => Leg' > 0
    BY <1>6 DEF AttachMoot, Release, LegInv, VenueInv, Leg
  <2>3. {stop', wire'} \subseteq Rows \cup {None}
    BY <1>6 DEF AttachMoot, Release, LegInv, VenueInv, CallInv, Calling
  <2>4. /\ own' \in [Rows -> {"none", "active", "released"}]
        /\ born' \in [Rows -> Nat] /\ shut' \in [Rows -> Nat]
        /\ \A r \in Rows : born'[r] <= Len(execs) /\ shut'[r] <= Len(execs)
    BY <1>6, ReleaseTyped DEF AttachMoot
  <2>5. CallInv'
    BY <1>6, <2>1 DEF AttachMoot, Release, LegInv, CallInv, Calling
  <2>6. EngInv'
    BY <1>6 DEF AttachMoot, Release, LegInv, EngInv, CallInv, Calling, Rows
  <2>. QED  BY <2>1, <2>2, <2>3, <2>4, <2>5, <2>6, LegKept
<1>7. CASE AttachRefused
  <2>1. UNCHANGED <<execs, firing, claim, handled, trail>> /\ spent'.entries = spent.entries
    BY <1>7 DEF AttachRefused, Fault, Restore, Return, LegInv, EngInv
  <2>2. /\ run' \in Nat /\ run' <= run /\ foreign' \in 0 .. MaxForeign
        /\ journal' \in Nat /\ journal' <= journal
        /\ firing # 0 => Leg' > 0
    BY <1>7 DEF AttachRefused, Fault, Restore, Return, LegInv, VenueInv, Leg
  <2>3. {stop', wire'} \subseteq Rows \cup {None}
    BY <1>7 DEF AttachRefused, Fault, Restore, Return, LegInv, VenueInv, CallInv, Calling
  <2>4. /\ own' \in [Rows -> {"none", "active", "released"}]
        /\ born' \in [Rows -> Nat] /\ shut' \in [Rows -> Nat]
        /\ \A r \in Rows : born'[r] <= Len(execs) /\ shut'[r] <= Len(execs)
    BY <1>7 DEF AttachRefused, Fault, Restore, Return, LegInv, RowInv, CallInv, Calling
  <2>5. CallInv'
    BY <1>7, <2>1 DEF AttachRefused, Fault, Restore, Return, LegInv, CallInv, Calling
  <2>6. EngInv'
    <3>1. spent' \in Counts
      BY <1>7, FaultCounted DEF AttachRefused, Return, LegInv, EngInv, Counts
    <3>. QED  BY <1>7, <3>1 DEF AttachRefused, Return, Counts, LegInv, EngInv, CallInv, Calling, Rows
  <2>. QED  BY <2>1, <2>2, <2>3, <2>4, <2>5, <2>6, LegKept
<1>8. CASE AttachAmbiguous
  <2>1. UNCHANGED <<execs, firing, claim, handled, trail>> /\ spent'.entries = spent.entries
    BY <1>8 DEF AttachAmbiguous, Fault, Ambiguous, CanWrite, LegInv, EngInv
  <2>2. /\ run' \in Nat /\ run' <= run /\ foreign' \in 0 .. MaxForeign
        /\ journal' \in Nat /\ journal' <= journal
        /\ firing # 0 => Leg' > 0
    BY <1>8 DEF AttachAmbiguous, Fault, Ambiguous, CanWrite, LegInv, VenueInv, Leg
  <2>3. {stop', wire'} \subseteq Rows \cup {None}
    BY <1>8 DEF AttachAmbiguous, Fault, Ambiguous, CanWrite, LegInv, VenueInv, CallInv, Calling
  <2>4. /\ own' \in [Rows -> {"none", "active", "released"}]
        /\ born' \in [Rows -> Nat] /\ shut' \in [Rows -> Nat]
        /\ \A r \in Rows : born'[r] <= Len(execs) /\ shut'[r] <= Len(execs)
    BY <1>8 DEF AttachAmbiguous, Fault, Ambiguous, CanWrite, LegInv, RowInv, CallInv, Calling
  <2>5. CallInv'
    BY <1>8, <2>1 DEF AttachAmbiguous, Fault, Ambiguous, CanWrite, LegInv, CallInv, Calling
  <2>6. EngInv'
    <3>1. spent' \in Counts
      BY <1>8, FaultCounted DEF AttachAmbiguous, LegInv, EngInv, Counts
    <3>. QED  BY <1>8, <3>1 DEF AttachAmbiguous, Counts, LegInv, EngInv, CallInv, Calling, Rows
  <2>. QED  BY <2>1, <2>2, <2>3, <2>4, <2>5, <2>6, LegKept
<1>9. CASE Reread
  <2>1. UNCHANGED <<execs, firing, claim, handled, trail>> /\ spent'.entries = spent.entries
    BY <1>9 DEF Reread, Return, LegInv, EngInv
  <2>2. /\ run' \in Nat /\ run' <= run /\ foreign' \in 0 .. MaxForeign
        /\ journal' \in Nat /\ journal' <= journal
        /\ firing # 0 => Leg' > 0
    BY <1>9 DEF Reread, Return, LegInv, VenueInv, Leg
  <2>3. {stop', wire'} \subseteq Rows \cup {None}
    BY <1>9 DEF Reread, Return, LegInv, VenueInv, CallInv, Calling
  <2>4. /\ own' \in [Rows -> {"none", "active", "released"}]
        /\ born' \in [Rows -> Nat] /\ shut' \in [Rows -> Nat]
        /\ \A r \in Rows : born'[r] <= Len(execs) /\ shut'[r] <= Len(execs)
    BY <1>9 DEF Reread, Return, LegInv, RowInv, CallInv, Calling
  <2>5. CallInv'
    BY <1>9, <2>1 DEF Reread, Return, LegInv, CallInv, Calling
  <2>6. EngInv'
    BY <1>9 DEF Reread, Return, LegInv, EngInv, CallInv, Calling, Rows
  <2>. QED  BY <2>1, <2>2, <2>3, <2>4, <2>5, <2>6, LegKept
<1>10. CASE RereadFails
  <2>1. UNCHANGED <<execs, firing, claim, handled, trail>> /\ spent'.entries = spent.entries
    BY <1>10 DEF RereadFails, Fault, Return, LegInv, EngInv
  <2>2. /\ run' \in Nat /\ run' <= run /\ foreign' \in 0 .. MaxForeign
        /\ journal' \in Nat /\ journal' <= journal
        /\ firing # 0 => Leg' > 0
    BY <1>10 DEF RereadFails, Fault, Return, LegInv, VenueInv, Leg
  <2>3. {stop', wire'} \subseteq Rows \cup {None}
    BY <1>10 DEF RereadFails, Fault, Return, LegInv, VenueInv, CallInv, Calling
  <2>4. /\ own' \in [Rows -> {"none", "active", "released"}]
        /\ born' \in [Rows -> Nat] /\ shut' \in [Rows -> Nat]
        /\ \A r \in Rows : born'[r] <= Len(execs) /\ shut'[r] <= Len(execs)
    BY <1>10 DEF RereadFails, Fault, Return, LegInv, RowInv, CallInv, Calling
  <2>5. CallInv'
    BY <1>10, <2>1 DEF RereadFails, Fault, Return, LegInv, CallInv, Calling
  <2>6. EngInv'
    <3>1. spent' \in Counts
      BY <1>10, FaultCounted DEF RereadFails, Return, LegInv, EngInv, Counts
    <3>. QED  BY <1>10, <3>1 DEF RereadFails, Return, Counts, LegInv, EngInv, CallInv, Calling, Rows
  <2>. QED  BY <2>1, <2>2, <2>3, <2>4, <2>5, <2>6, LegKept
<1>11. CASE RetryLands
  <2>1. UNCHANGED <<execs, firing, claim, handled, trail>> /\ spent'.entries = spent.entries
    BY <1>11 DEF RetryLands, CanWrite, LegInv, EngInv
  <2>2. /\ run' \in Nat /\ run' <= run /\ foreign' \in 0 .. MaxForeign
        /\ journal' \in Nat /\ journal' <= journal
        /\ firing # 0 => Leg' > 0
    BY <1>11 DEF RetryLands, CanWrite, LegInv, VenueInv, Leg
  <2>3. {stop', wire'} \subseteq Rows \cup {None}
    BY <1>11 DEF RetryLands, CanWrite, LegInv, VenueInv, CallInv, Calling
  <2>4. /\ own' \in [Rows -> {"none", "active", "released"}]
        /\ born' \in [Rows -> Nat] /\ shut' \in [Rows -> Nat]
        /\ \A r \in Rows : born'[r] <= Len(execs) /\ shut'[r] <= Len(execs)
    BY <1>11 DEF RetryLands, CanWrite, LegInv, RowInv, CallInv, Calling
  <2>5. CallInv'
    BY <1>11, <2>1 DEF RetryLands, CanWrite, LegInv, CallInv, Calling
  <2>6. EngInv'
    BY <1>11 DEF RetryLands, CanWrite, LegInv, EngInv, CallInv, Calling, Rows
  <2>. QED  BY <2>1, <2>2, <2>3, <2>4, <2>5, <2>6, LegKept
<1>12. CASE RetryFails
  <2>1. UNCHANGED <<execs, firing, claim, handled, trail>> /\ spent'.entries = spent.entries
    BY <1>12 DEF RetryFails, Fault, Return, Ambiguous, CanWrite, RetryUnresolved, LegInv, EngInv
  <2>2. /\ run' \in Nat /\ run' <= run /\ foreign' \in 0 .. MaxForeign
        /\ journal' \in Nat /\ journal' <= journal
        /\ firing # 0 => Leg' > 0
    BY <1>12 DEF RetryFails, Fault, Return, Ambiguous, CanWrite, RetryUnresolved, LegInv, VenueInv, Leg
  <2>3. {stop', wire'} \subseteq Rows \cup {None}
    BY <1>12 DEF RetryFails, Fault, Return, Ambiguous, CanWrite, RetryUnresolved, LegInv, VenueInv, CallInv, Calling
  <2>4. /\ own' \in [Rows -> {"none", "active", "released"}]
        /\ born' \in [Rows -> Nat] /\ shut' \in [Rows -> Nat]
        /\ \A r \in Rows : born'[r] <= Len(execs) /\ shut'[r] <= Len(execs)
    BY <1>12 DEF RetryFails, Fault, Return, Ambiguous, CanWrite, RetryUnresolved, LegInv, RowInv, CallInv, Calling
  <2>5. CallInv'
    BY <1>12, <2>1 DEF RetryFails, Fault, Return, Ambiguous, CanWrite, RetryUnresolved, LegInv, CallInv, Calling
  <2>6. EngInv'
    <3>1. spent' \in Counts
      BY <1>12, FaultCounted DEF RetryFails, Return, LegInv, EngInv, Counts
    <3>. QED  BY <1>12, <3>1 DEF RetryFails, Return, Counts, LegInv, EngInv, CallInv, Calling, Rows
  <2>. QED  BY <2>1, <2>2, <2>3, <2>4, <2>5, <2>6, LegKept
<1>13. CASE DefensiveFlatten
  <2>1. UNCHANGED <<execs, firing, claim, handled, trail>> /\ spent'.entries = spent.entries
    BY <1>13 DEF DefensiveFlatten, LegInv, EngInv
  <2>2. /\ run' \in Nat /\ run' <= run /\ foreign' \in 0 .. MaxForeign
        /\ journal' \in Nat /\ journal' <= journal
        /\ firing # 0 => Leg' > 0
    BY <1>13 DEF DefensiveFlatten, LegInv, VenueInv, Leg
  <2>3. {stop', wire'} \subseteq Rows \cup {None}
    BY <1>13 DEF DefensiveFlatten, LegInv, VenueInv, CallInv, Calling
  <2>4. /\ own' \in [Rows -> {"none", "active", "released"}]
        /\ born' \in [Rows -> Nat] /\ shut' \in [Rows -> Nat]
        /\ \A r \in Rows : born'[r] <= Len(execs) /\ shut'[r] <= Len(execs)
    BY <1>13 DEF DefensiveFlatten, LegInv, RowInv, CallInv, Calling
  <2>5. CallInv'
    BY <1>13, <2>1 DEF DefensiveFlatten, LegInv, CallInv, Calling
  <2>6. EngInv'
    BY <1>13 DEF DefensiveFlatten, LegInv, EngInv, CallInv, Calling, Rows
  <2>. QED  BY <2>1, <2>2, <2>3, <2>4, <2>5, <2>6, LegKept
<1>14. CASE ClearDone
  <2>1. UNCHANGED <<execs, firing, claim, handled, trail>> /\ spent'.entries = spent.entries
    BY <1>14 DEF ClearDone, Release, LegInv, EngInv
  <2>2. /\ run' \in Nat /\ run' <= run /\ foreign' \in 0 .. MaxForeign
        /\ journal' \in Nat /\ journal' <= journal
        /\ firing # 0 => Leg' > 0
    BY <1>14 DEF ClearDone, Release, LegInv, VenueInv, Leg
  <2>3. {stop', wire'} \subseteq Rows \cup {None}
    BY <1>14 DEF ClearDone, Release, LegInv, VenueInv, CallInv, Calling
  <2>4. /\ own' \in [Rows -> {"none", "active", "released"}]
        /\ born' \in [Rows -> Nat] /\ shut' \in [Rows -> Nat]
        /\ \A r \in Rows : born'[r] <= Len(execs) /\ shut'[r] <= Len(execs)
    BY <1>14, ReleaseTyped DEF ClearDone
  <2>5. CallInv'
    BY <1>14, <2>1 DEF ClearDone, Release, LegInv, CallInv, Calling
  <2>6. EngInv'
    BY <1>14 DEF ClearDone, Release, LegInv, EngInv, CallInv, Calling, Rows
  <2>. QED  BY <2>1, <2>2, <2>3, <2>4, <2>5, <2>6, LegKept
<1>15. CASE ClearFails
  <2>1. UNCHANGED <<execs, firing, claim, handled, trail>> /\ spent'.entries = spent.entries
    BY <1>15 DEF ClearFails, Fault, LegInv, EngInv
  <2>2. /\ run' \in Nat /\ run' <= run /\ foreign' \in 0 .. MaxForeign
        /\ journal' \in Nat /\ journal' <= journal
        /\ firing # 0 => Leg' > 0
    BY <1>15 DEF ClearFails, Fault, LegInv, VenueInv, Leg
  <2>3. {stop', wire'} \subseteq Rows \cup {None}
    BY <1>15 DEF ClearFails, Fault, LegInv, VenueInv, CallInv, Calling
  <2>4. /\ own' \in [Rows -> {"none", "active", "released"}]
        /\ born' \in [Rows -> Nat] /\ shut' \in [Rows -> Nat]
        /\ \A r \in Rows : born'[r] <= Len(execs) /\ shut'[r] <= Len(execs)
    BY <1>15 DEF ClearFails, Fault, LegInv, RowInv, CallInv, Calling
  <2>5. CallInv'
    BY <1>15, <2>1 DEF ClearFails, Fault, LegInv, CallInv, Calling
  <2>6. EngInv'
    <3>1. spent' \in Counts
      BY <1>15, FaultCounted DEF ClearFails, LegInv, EngInv, Counts
    <3>. QED  BY <1>15, <3>1 DEF ClearFails, Counts, LegInv, EngInv, CallInv, Calling, Rows
  <2>. QED  BY <2>1, <2>2, <2>3, <2>4, <2>5, <2>6, LegKept
<1>16. CASE Crash
  <2>1. UNCHANGED <<execs, firing, claim, handled, trail>> /\ spent'.entries = spent.entries
    BY <1>16 DEF Crash, LegInv, EngInv
  <2>2. /\ run' \in Nat /\ run' <= run /\ foreign' \in 0 .. MaxForeign
        /\ journal' \in Nat /\ journal' <= journal
        /\ firing # 0 => Leg' > 0
    BY <1>16 DEF Crash, LegInv, VenueInv, Leg
  <2>3. {stop', wire'} \subseteq Rows \cup {None}
    BY <1>16 DEF Crash, LegInv, VenueInv, CallInv, Calling
  <2>4. /\ own' \in [Rows -> {"none", "active", "released"}]
        /\ born' \in [Rows -> Nat] /\ shut' \in [Rows -> Nat]
        /\ \A r \in Rows : born'[r] <= Len(execs) /\ shut'[r] <= Len(execs)
    BY <1>16 DEF Crash, LegInv, RowInv, CallInv, Calling
  <2>5. CallInv'
    BY <1>16, <2>1 DEF Crash, LegInv, CallInv, Calling
  <2>6. EngInv'
    <3>1. spent.crashes + 1 \in 0 .. MaxCrashes /\ spent \in Counts
      BY <1>16 DEF Crash, LegInv, EngInv, Counts
    <3>2. spent' \in Counts
      BY <1>16, <3>1 DEF Crash, Counts
    <3>. QED  BY <1>16, <3>2 DEF Crash, LegInv, EngInv, Counts
  <2>. QED  BY <2>1, <2>2, <2>3, <2>4, <2>5, <2>6, LegKept
<1>. QED  BY <1>1, <1>2, <1>3, <1>4, <1>5, <1>6, <1>7, <1>8, <1>9, <1>10, <1>11, <1>12, <1>13, <1>14, <1>15, <1>16

\* An entry keeps the figures in range.
LEMMA LegEnter ==
  ASSUME LegInv, NEW x \in Exits, Enter(x)
  PROVE  LegInv'
<1>1. /\ spent.entries + 1 \in 0 .. MaxEntries /\ spent \in Counts /\ spent'.entries = spent.entries + 1
      /\ spent' \in Counts
  <2>1. spent \in Counts /\ MaxEntries \in Nat
    BY StopAssumption DEF LegInv, EngInv, Counts
  <2>. QED  BY <2>1 DEF Enter, Counts
<1>2. run' \in Nat /\ run' <= Qty * spent'.entries /\ journal' \in Nat /\ journal' <= Qty * spent'.entries
  <2>1. run' = run + Qty /\ journal' = journal + Qty
    BY DEF Enter
  <2>2. run <= Qty * spent.entries /\ journal <= Qty * spent.entries
    BY DEF LegInv, VenueInv, BooksInv
  <2>3. Qty * spent'.entries = Qty * spent.entries + Qty /\ Qty * spent.entries \in Nat
    BY <1>1, EntryBounds
  <2>. QED  BY <2>1, <2>2, <2>3, LegTypes
<1>3. VenueInv'
  BY <1>2 DEF Enter, LegInv, VenueInv
<1>4. LogInv' /\ RowInv' /\ CallInv'
  BY DEF Enter, LegInv, LogInv, RowInv, CallInv, Known, rowVars, callVars
<1>5. BooksInv'
  BY <1>2 DEF Enter, LegInv, BooksInv, Known
<1>6. EngInv'
  BY <1>1 DEF Enter, LegInv, EngInv, Counts
<1>. QED  BY <1>3, <1>4, <1>5, <1>6 DEF LegInv

\* So does the beginning of an attach.
LEMMA LegAttach ==
  ASSUME LegInv, NEW x \in Exits, NEW r \in Rows, Attach(x, r)
  PROVE  LegInv'
<1>1. /\ own' \in [Rows -> {"none", "active", "released"}]
      /\ born' \in [Rows -> Nat] /\ shut' \in [Rows -> Nat]
      /\ \A q \in Rows : born'[q] <= Len(execs) /\ shut'[q] <= Len(execs)
  <2>1. own' \in [Rows -> {"none", "active", "released"}]
    BY DEF Attach, HandOver, LegInv, RowInv
  <2>2. \A q \in Rows : shut'[q] \in Nat /\ shut'[q] <= Len(execs)
    BY LegTypes DEF Attach, HandOver
  <2>3. shut' \in [Rows -> Nat]
    BY <2>2 DEF Attach, HandOver
  <2>4. born' \in [Rows -> Nat] /\ \A q \in Rows : born'[q] <= Len(execs)
    BY LegTypes DEF Attach, LegInv, RowInv
  <2>. QED  BY <2>1, <2>2, <2>3, <2>4
<1>2. VenueInv' /\ LogInv' /\ RowInv'
  BY <1>1 DEF Attach, LegInv, VenueInv, LogInv, RowInv, Known, Leg, venueVars
<1>3. BooksInv' /\ EngInv'
  BY DEF Attach, LegInv, BooksInv, EngInv, Known, bookVars, engVars, venueVars
<1>4. CallInv'
  BY LegTypes DEF Attach, CallInv, Calling, OwnersOf, Active, LegInv, RowInv, venueVars
<1>. QED  BY <1>2, <1>3, <1>4 DEF LegInv

\* So does the beginning of a clear.
LEMMA LegClear ==
  ASSUME LegInv, NEW x \in Exits, Clear(x)
  PROVE  LegInv'
<1>1. cur' \in Rows
  BY DEF Clear, OwnersOf, Active
<1>2. VenueInv' /\ LogInv' /\ RowInv'
  BY DEF Clear, LegInv, VenueInv, LogInv, RowInv, Known, Leg, rowVars
<1>3. BooksInv' /\ EngInv'
  BY DEF Clear, LegInv, BooksInv, EngInv, Known, bookVars, engVars
<1>4. CallInv'
  BY <1>1 DEF Clear, LegInv, CallInv, Calling
<1>. QED  BY <1>2, <1>3, <1>4 DEF LegInv

\* What an attribution takes of the journal.
LEMMA PartTaken ==
  ASSUME LegInv, NEW i \in Known
  PROVE  /\ OwnPart(i) = IF execs[i].qty <= journal THEN execs[i].qty ELSE journal
         /\ OwnPart(i) \in 0 .. journal
         /\ journal - OwnPart(i) \in Nat
<1>1. execs[i].qty \in Nat /\ journal \in Nat
  BY LegTypes
<1>2. OwnPart(i) = IF execs[i].qty <= journal THEN execs[i].qty ELSE journal
  BY <1>1, LeastOfTwo DEF OwnPart
<1>. QED  BY <1>1, <1>2

\* So does an execution that is handled.
LEMMA LegHandle ==
  ASSUME LegInv, NEW i \in Execs, Handle(i)
  PROVE  LegInv'
<1>1. i \in Known /\ OwnPart(i) \in 0 .. journal /\ journal - OwnPart(i) \in Nat
  BY PartTaken DEF Handle
<1>. HIDE DEF OwnPart, Attributed
<1>2. /\ handled' = handled \cup {i} /\ trail' \subseteq trail \cup {i}
      /\ journal' \in Nat /\ journal' <= journal /\ claim' \in [Execs -> 0 .. MaxLeg]
  <2>1. journal \in Nat /\ MaxLeg \in Nat /\ journal <= MaxLeg
    BY LegTypes
  <2>2. claim \in [Execs -> 0 .. MaxLeg]
    BY DEF LegInv, BooksInv
  <2>3. CASE Attributed(i)
    <3>1. /\ handled' = handled \cup {i} /\ trail' = trail \cup {i}
          /\ journal' = journal - OwnPart(i) /\ claim' = [claim EXCEPT ![i] = OwnPart(i)]
      BY <2>3 DEF Handle
    <3>2. OwnPart(i) \in 0 .. MaxLeg
      BY <1>1, <2>1
    <3>. QED  BY <1>1, <2>1, <2>2, <3>1, <3>2
  <2>4. CASE ~Attributed(i)
    BY <2>1, <2>2, <2>4 DEF Handle
  <2>. QED  BY <2>3, <2>4
<1>3. entered' \subseteq Exits /\ trusts' \subseteq Exits
  BY DEF Handle, LegInv, EngInv, engVars
<1>4. VenueInv' /\ LogInv' /\ RowInv' /\ CallInv'
  BY DEF Handle, LegInv, VenueInv, LogInv, RowInv, CallInv, Known, Leg, venueVars, rowVars, callVars
<1>5. BooksInv'
  <2>1. journal' <= Qty * spent.entries
    BY <1>2, EntryBounds, LegTypes DEF LegInv, BooksInv
  <2>2. trail' \subseteq handled' /\ handled' \subseteq Known'
    BY <1>1, <1>2, LegTypes DEF Handle, venueVars, Known
  <2>. QED  BY <1>2, <2>1, <2>2 DEF Handle, BooksInv
<1>6. EngInv'
  BY <1>3 DEF Handle, LegInv, EngInv
<1>. QED  BY <1>4, <1>5, <1>6 DEF LegInv

(***************************************************************************)
(* The adoption.                                                           *)
(***************************************************************************)
Executed == [i \in Known |-> execs[i].qty]
Left(S) == LET rest == journal - SumOver(Executed, S) IN IF rest >= 0 THEN rest ELSE 0

\* The venue has executed finitely often.
LEMMA KnownFinite ==
  ASSUME LegInv, NEW S \in SUBSET Known
  PROVE  IsFiniteSet(S)
<1>1. Known = 1 .. Len(execs) /\ Len(execs) \in Int
  BY LegTypes
<1>2. IsFiniteSet(Known)
  BY <1>1, FS_Interval
<1>. QED  BY <1>2, FS_Subset

\* What a netting leaves of the journal.
LEMMA LeftOver ==
  ASSUME LegInv, NEW S \in SUBSET Known
  PROVE  /\ SumOver(Executed, S) \in Nat
         /\ Max({0, journal - SumOver(Executed, S)}) = Left(S)
         /\ Left(S) \in 0 .. journal
<1>1. IsFiniteSet(S) /\ \A i \in S : Executed[i] \in Nat
  BY KnownFinite, LegTypes DEF Executed
<1>2. SumOver(Executed, S) \in Nat
  BY <1>1, SumGrows, S \subseteq S
<1>3. journal \in Nat
  BY LegTypes
<1>. DEFINE sum == SumOver(Executed, S)
<1>. HIDE DEF sum
<1>4. Max({0, journal - sum}) = IF 0 >= journal - sum THEN 0 ELSE journal - sum
  BY <1>2, <1>3, LargestOfTwo DEF sum
<1>5. /\ (IF 0 >= journal - sum THEN 0 ELSE journal - sum) = IF journal - sum >= 0 THEN journal - sum ELSE 0
      /\ (IF journal - sum >= 0 THEN journal - sum ELSE 0) \in 0 .. journal
  BY <1>2, <1>3 DEF sum
<1>. QED  BY <1>2, <1>4, <1>5 DEF Left, sum

\* The claims and the journal the adoption leaves.
LEMMA RestartFigures ==
  ASSUME LegInv, Restart
  PROVE  \E wm \in 0 .. Len(execs) :
           /\ 1 .. wm \subseteq handled
           /\ journal' = (IF Left(Unbooked(wm)) <= Leg THEN Left(Unbooked(wm)) ELSE Leg)
           /\ claim' \in [Execs -> 0 .. MaxLeg]
           /\ trail' = trail \cup Unbooked(wm)
           /\ entered' = IF journal' = 0 THEN {}
                         ELSE entered \ {r[1] : r \in {q \in Active : \E i \in Unbooked(wm) : born[q] < i}}
           /\ Unbooked(wm) \in SUBSET Known
<1>1. PICK wm \in 0 .. Len(execs) :
        /\ 1 .. wm \subseteq handled
        /\ claim' = [i \in Execs |-> IF i \in Unbooked(wm)
                       THEN Min({Executed[i], Max({0, journal - SumOver(Executed, {j \in Unbooked(wm) : j < i})})})
                       ELSE claim[i]]
        /\ journal' = Min({Max({0, journal - SumOver(Executed, Unbooked(wm))}), Leg})
        /\ trail' = trail \cup Unbooked(wm)
        /\ entered' = IF journal' = 0 THEN {}
                      ELSE entered \ {r[1] : r \in {q \in Active : \E i \in Unbooked(wm) : born[q] < i}}
  BY Zenon DEF Restart, Executed
<1>2. Unbooked(wm) \in SUBSET Known
  BY DEF Unbooked
<1>3. journal' = IF Left(Unbooked(wm)) <= Leg THEN Left(Unbooked(wm)) ELSE Leg
  <2>1. Left(Unbooked(wm)) \in Int /\ Leg \in Int
    <3>1. Left(Unbooked(wm)) \in 0 .. journal
      BY <1>2, LeftOver
    <3>2. journal \in Nat /\ Leg \in Nat
      BY LegTypes DEF Leg
    <3>. QED  BY <3>1, <3>2
  <2>. QED  BY <1>1, <1>2, <2>1, LeftOver, LeastOfTwo
<1>4. ASSUME NEW i \in Execs
      PROVE  claim'[i] \in 0 .. MaxLeg
  <2>1. CASE i \in Unbooked(wm)
    <3>. DEFINE before == {j \in Unbooked(wm) : j < i}
    <3>1. before \in SUBSET Known
      BY <1>2
    <3>2. claim'[i] = Min({Executed[i], Left(before)})
      BY <1>1, <2>1, <3>1, LeftOver
    <3>3. Left(before) \in 0 .. journal /\ Executed[i] \in Nat /\ journal \in Nat /\ journal <= MaxLeg /\ MaxLeg \in Nat
      BY <1>2, <2>1, <3>1, LeftOver, LegTypes DEF Executed
    <3>. HIDE DEF before
    <3>4. claim'[i] = IF Executed[i] <= Left(before) THEN Executed[i] ELSE Left(before)
      BY <3>2, <3>3, LeastOfTwo
    <3>. QED  BY <3>3, <3>4
  <2>2. CASE i \notin Unbooked(wm)
    BY <1>1, <2>2 DEF LegInv, BooksInv
  <2>. QED  BY <2>1, <2>2
<1>5. claim' \in [Execs -> 0 .. MaxLeg]
  BY <1>1, <1>4
<1>. QED  BY <1>1, <1>2, <1>3, <1>5

\* The adoption keeps the figures in range.
LEMMA LegRestart ==
  ASSUME LegInv, Restart
  PROVE  LegInv'
<1>1. PICK wm \in 0 .. Len(execs) :
           /\ 1 .. wm \subseteq handled
           /\ journal' = (IF Left(Unbooked(wm)) <= Leg THEN Left(Unbooked(wm)) ELSE Leg)
           /\ claim' \in [Execs -> 0 .. MaxLeg]
           /\ trail' = trail \cup Unbooked(wm)
           /\ entered' = IF journal' = 0 THEN {}
                         ELSE entered \ {r[1] : r \in {q \in Active : \E i \in Unbooked(wm) : born[q] < i}}
           /\ Unbooked(wm) \in SUBSET Known
  BY RestartFigures
<1>2. handled' = Known /\ pc' = "idle" /\ UNCHANGED <<venueVars, rowVars, callVars, trusts, spent>>
  BY DEF Restart
<1>3. journal' \in Nat /\ journal' <= journal
  <2>1. Left(Unbooked(wm)) \in 0 .. journal /\ journal \in Nat /\ Leg \in Nat
    <3>1. Left(Unbooked(wm)) \in 0 .. journal
      BY <1>1, LeftOver
    <3>2. journal \in Nat /\ Leg \in Nat
      BY LegTypes DEF Leg
    <3>. QED  BY <3>1, <3>2
  <2>. QED  BY <1>1, <2>1
<1>4. VenueInv' /\ LogInv' /\ RowInv' /\ CallInv'
  BY <1>2 DEF LegInv, VenueInv, LogInv, RowInv, CallInv, Calling, Known, Leg, venueVars, rowVars, callVars
<1>5. BooksInv'
  <2>1. journal' <= Qty * spent.entries
    BY <1>3, EntryBounds, LegTypes DEF LegInv, BooksInv
  <2>2. trail' \subseteq handled' /\ handled' \subseteq Known'
    BY <1>1, <1>2, LegTypes DEF venueVars, Known
  <2>. QED  BY <1>1, <1>2, <1>3, <2>1, <2>2 DEF BooksInv
<1>6. EngInv'
  BY <1>1, <1>2 DEF LegInv, EngInv
<1>. QED  BY <1>4, <1>5, <1>6 DEF LegInv

\* Every step keeps the figures in range.
LEMMA LegStep ==
  ASSUME LegInv, [Next]_vars
  PROVE  LegInv'
BY LegExecutes, LegOthers, LegEnter, LegAttach, LegClear, LegHandle, LegRestart
   DEF Next, Venue, Attaching, Clearing

(***************************************************************************)
(* What is owed.                                                           *)
(***************************************************************************)
\* What is owed is a number; with nothing to handle it is nothing.
LEMMA OwedTyped ==
  ASSUME LegInv
  PROVE  /\ IsFiniteSet(Unhandled) /\ Unhandled \subseteq Known
         /\ \A i \in Unhandled : Part[i] \in Nat /\ Part[i] = execs[i].part
         /\ Owed \in Nat
         /\ Unhandled = {} => Owed = 0
<1>1. IsFiniteSet(Unhandled) /\ Unhandled \subseteq Known
  BY KnownFinite DEF Unhandled
<1>2. \A i \in Unhandled : Part[i] \in Nat /\ Part[i] = execs[i].part
  BY <1>1, LegTypes DEF Part
<1>3. Owed \in Nat
  BY <1>1, <1>2, SumGrows, Unhandled \subseteq Unhandled DEF Owed
<1>4. Unhandled = {} => Owed = 0
  BY SumEmpty DEF Owed
<1>. QED  BY <1>1, <1>2, <1>3, <1>4

\* Figures that agree add up to the same.
LEMMA SumSame ==
  ASSUME NEW f, NEW h, NEW S, IsFiniteSet(S), \A i \in S : f[i] \in Nat /\ h[i] = f[i]
  PROVE  SumOver(f, S) = SumOver(h, S)
<1>1. SumOver(f, S) <= SumOver(h, S) /\ SumOver(f, S) \in Int
  BY SumGrows, S \subseteq S
<1>2. SumOver(h, S) <= SumOver(f, S) /\ SumOver(h, S) \in Int
  BY SumGrows, S \subseteq S
<1>. QED  BY <1>1, <1>2

\* An execution adds the run's part of it to what is owed.
LEMMA OwedGrows ==
  ASSUME LegInv, NEW order, NEW q, NEW part \in 0 .. run, Took(order, q, part), handled' = handled
  PROVE  /\ Unhandled' = Unhandled \cup {Len(execs) + 1} /\ Len(execs) + 1 \notin Unhandled
         /\ \A i \in Unhandled : execs'[i] = execs[i]
         /\ Owed' = Owed + part
<1>. DEFINE n == Len(execs) + 1
<1>1. Known' = Known \cup {n} /\ n \notin Known /\ n \in Nat
  <2>1. Len(execs) \in Nat /\ Len(execs') = Len(execs) + 1
    BY LegTypes DEF Took
  <2>. QED  BY <2>1 DEF Known
<1>2. Unhandled' = Unhandled \cup {n} /\ n \notin Unhandled /\ Unhandled \subseteq Known
  BY <1>1, LegTypes DEF Unhandled
<1>3. \A i \in Unhandled : execs'[i] = execs[i]
  BY <1>2 DEF Took
<1>4. IsFiniteSet(Unhandled) /\ IsFiniteSet(Unhandled') /\ \A i \in Unhandled : Part[i] \in Nat
  <2>1. IsFiniteSet(Unhandled)
    BY OwedTyped
  <2>. QED  BY <1>2, <2>1, FS_AddElement, OwedTyped
<1>5. Part'[n] = part /\ part \in Nat /\ \A i \in Unhandled : Part'[i] = Part[i]
  <2>1. part \in Nat
    BY LegTypes
  <2>2. execs'[n].part = part
    BY DEF Took
  <2>3. Part' = [i \in Known' |-> execs'[i].part]
    BY DEF Part
  <2>. HIDE DEF n
  <2>4. Part'[n] = part
    BY <1>1, <2>2, <2>3
  <2>5. \A i \in Unhandled : Part'[i] = Part[i]
    BY <1>1, <1>2, <1>3, <2>3 DEF Part
  <2>. QED  BY <2>1, <2>4, <2>5
<1>6. \A i \in Unhandled' : Part'[i] \in Int
  BY <1>2, <1>4, <1>5
<1>7. SumOver(Part', Unhandled') = Part'[n] + SumOver(Part', Unhandled' \ {n})
  BY <1>2, <1>4, <1>6, SumRemove
<1>8. Unhandled' \ {n} = Unhandled
  BY <1>2
<1>9. SumOver(Part', Unhandled) = SumOver(Part, Unhandled)
  BY <1>4, <1>5, SumSame
<1>. QED
  <2>1. Owed' = SumOver(Part', Unhandled') /\ Owed = SumOver(Part, Unhandled) /\ Owed \in Nat
    BY OwedTyped DEF Owed
  <2>2. Owed' = part + Owed
    BY <1>5, <1>7, <1>8, <1>9, <2>1
  <2>. QED  BY <1>2, <1>3, <1>5, <2>1, <2>2

\* One that is handled takes its part away.
LEMMA OwedShrinks ==
  ASSUME LegInv, NEW i \in Unhandled, handled' = handled \cup {i}, execs' = execs
  PROVE  /\ Unhandled' = Unhandled \ {i}
         /\ Owed = execs[i].part + Owed' /\ Owed' \in Nat
<1>1. Unhandled' = Unhandled \ {i} /\ Part' = Part
  BY DEF Unhandled, Part, Known
<1>2. /\ IsFiniteSet(Unhandled) /\ \A j \in Unhandled : Part[j] \in Nat /\ Part[i] = execs[i].part
  BY OwedTyped
<1>3. SumOver(Part, Unhandled) = Part[i] + SumOver(Part, Unhandled \ {i})
  <2>1. \A j \in Unhandled : Part[j] \in Int
    BY <1>2
  <2>. QED  BY <1>2, <2>1, SumRemove
<1>4. SumOver(Part, Unhandled \ {i}) \in Nat
  <2>1. IsFiniteSet(Unhandled \ {i}) /\ Unhandled \ {i} \subseteq Unhandled \ {i}
    BY <1>2, FS_RemoveElement
  <2>2. \A j \in Unhandled \ {i} : Part[j] \in Nat /\ Part[j] \in Int /\ Part[j] <= Part[j]
    BY <1>2
  <2>. QED  BY <2>1, <2>2, SumGrows
<1>5. Owed' = SumOver(Part, Unhandled \ {i})
  BY <1>1 DEF Owed
<1>. QED  BY <1>1, <1>2, <1>3, <1>4, <1>5 DEF Owed

(***************************************************************************)
(* Owners.                                                                 *)
(***************************************************************************)
\* A refusal puts the ownership back: the row it replaced, or its own, or none.
LEMMA RestoreOwners ==
  ASSUME LegInv, OwnerInv, pc = "posted", Restore, UNCHANGED <<stop, wire>>
  PROVE  /\ \A r, q \in Active' : r[1] = q[1] => r = q
         /\ \A r \in {stop, wire} \ {None} : OwnersOf(r[1])' # {}
<1>. USE DEF OwnersOf, Active, Calling
<1>1. /\ cur \in Rows /\ own[cur] = "active" /\ sup \subseteq Rows \ {cur}
      /\ \A q \in sup : q[1] = cur[1]
      /\ \A q, r \in sup : q = r
      /\ prior \in {"none", "active"} /\ (prior = "active" => sup = {})
      /\ \A r, q \in Active : r[1] = q[1] => r = q
      /\ \A r \in {stop, wire} \ {None} : r \in Rows /\ OwnersOf(r[1]) # {}
  BY DEF OwnerInv, LegInv, CallInv, VenueInv
<1>2. CASE prior = "active"
  <2>1. own' = own
    BY <1>1, <1>2 DEF Restore, LegInv, RowInv
  <2>. QED  BY <1>1, <2>1
<1>3. CASE prior = "none"
  <2>1. Active' = (Active \ {cur}) \cup sup
    BY <1>1, <1>3 DEF Restore
  <2>2. \A r \in Active : r[1] = cur[1] => r = cur
    BY <1>1
  <2>3. \A r, q \in Active' : r[1] = q[1] => r = q
    BY <1>1, <2>1, <2>2
  <2>4. ASSUME NEW r \in {stop, wire} \ {None}
        PROVE  OwnersOf(r[1])' # {}
    <3>1. CASE r[1] = cur[1]
      <4>1. sup # {}
        BY <1>3, <3>1 DEF OwnerInv
      <4>. QED  BY <1>1, <2>1, <3>1, <4>1
    <3>2. CASE r[1] # cur[1]
      <4>1. PICK q \in Active : q[1] = r[1]
        BY <1>1
      <4>. QED  BY <2>1, <3>2, <4>1
    <3>. QED  BY <3>1, <3>2
  <2>. QED  BY <2>3, <2>4
<1>. QED  BY <1>1, <1>2, <1>3

\* Every step keeps one owner for an exit, and one for a stop.
LEMMA OwnerStep ==
  ASSUME LegInv, OwnerInv, [Next]_vars
  PROVE  OwnerInv'
<1>. USE LegTypes DEF OwnerInv, OwnersOf, Active, Calling, Leg, venueVars, rowVars, bookVars, callVars, engVars, LegInv, CallInv, VenueInv
<1>1. CASE UNCHANGED vars
  BY <1>1 DEF vars
<1>2. CASE ForeignTrade
  <2>1. /\ UNCHANGED <<wire, rowVars, callVars, pc, run>> /\ stop' \in {stop, None} /\ firing' = 0
        /\ Leg' = 0 => stop' = None
    BY <1>2 DEF ForeignTrade
  <2>. QED  BY <2>1
<1>3. CASE LateLand
  BY <1>3 DEF LateLand
<1>4. CASE Fire
  BY <1>4 DEF Fire
<1>5. CASE FireFills
  BY <1>5 DEF FireFills
<1>6. CASE AttachLands
  BY <1>6 DEF AttachLands, Return, CanWrite
<1>7. CASE AttachQuarantined
  <2>1. UNCHANGED <<stop, wire, firing, run, foreign>> /\ pc = "posted" /\ Restore /\ pc' = "idle"
    BY <1>7 DEF AttachQuarantined
  <2>. QED  BY <2>1, RestoreOwners
<1>8. CASE AttachMoot
  BY <1>8 DEF AttachMoot, Release
<1>9. CASE AttachRefused
  <2>1. UNCHANGED <<stop, wire, firing, run, foreign>> /\ pc = "posted" /\ Restore /\ pc' = "escalated"
    BY <1>9 DEF AttachRefused, Return
  <2>. QED  BY <2>1, RestoreOwners
<1>10. CASE AttachAmbiguous
  BY <1>10 DEF AttachAmbiguous, Fault, Ambiguous, CanWrite
<1>11. CASE Reread
  BY <1>11 DEF Reread, Return
<1>12. CASE RereadFails
  BY <1>12 DEF RereadFails, Fault, Return
<1>13. CASE RetryLands
  BY <1>13 DEF RetryLands, CanWrite
<1>14. CASE RetryFails
  BY <1>14 DEF RetryFails, Fault, Return, Ambiguous, CanWrite, RetryUnresolved
<1>15. CASE DefensiveFlatten
  BY <1>15 DEF DefensiveFlatten
<1>16. CASE ClearDone
  BY <1>16 DEF ClearDone, Release
<1>17. CASE ClearFails
  BY <1>17 DEF ClearFails, Fault
<1>18. CASE Crash
  BY <1>18 DEF Crash
<1>19. ASSUME NEW x \in Exits, Enter(x)
      PROVE  OwnerInv'
  BY <1>19 DEF Enter
<1>20. ASSUME NEW x \in Exits, Clear(x)
      PROVE  OwnerInv'
  BY <1>20 DEF Clear
<1>21. ASSUME NEW i \in Execs, Handle(i)
      PROVE  OwnerInv'
  BY <1>21 DEF Handle
<1>22. CASE Restart
  BY <1>22 DEF Restart
<1>23. ASSUME NEW x \in Exits, NEW r \in Rows, Attach(x, r)
       PROVE  OwnerInv'
  <2>1. /\ r[1] = x /\ own[r] # "released" /\ cur' = r /\ sup' = OwnersOf(x) \ {r}
        /\ prior' = own[r] /\ pc' = "posted"
        /\ UNCHANGED <<run, foreign, stop, firing, wire>>
    BY <1>23 DEF Attach
  <2>2. own' = [q \in Rows |-> IF q = r THEN "active"
                              ELSE IF q \in OwnersOf(x) THEN "released" ELSE own[q]]
    BY <1>23, Zenon DEF Attach, HandOver
  <2>3. own[r] \in {"none", "active"}
    BY <2>1 DEF RowInv
  <2>4. Active' = {q \in Active : q[1] # x} \cup {r}
    BY <2>2
  <2>5. \A p, q \in Active' : p[1] = q[1] => p = q
    BY <2>1, <2>4
  <2>6. \A q \in {stop, wire} \ {None} : OwnersOf(q[1])' # {}
    <3>. SUFFICES ASSUME NEW q \in {stop, wire} \ {None}
                  PROVE  OwnersOf(q[1])' # {}
      OBVIOUS
    <3>1. PICK p \in Active : p[1] = q[1]
      OBVIOUS
    <3>. QED  BY <2>1, <2>4, <3>1
  <2>7. /\ sup' \subseteq Rows \ {r} /\ \A q \in sup' : q[1] = x
        /\ \A p, q \in sup' : p = q
        /\ prior' = "active" => sup' = {}
    BY <2>1
  <2>8. prior' = "none" /\ sup' = {} => \A q \in {stop, wire} \ {None} : q[1] # x
    <3>. SUFFICES ASSUME prior' = "none", sup' = {}
                  PROVE  \A q \in {stop, wire} \ {None} : q[1] # x
      OBVIOUS
    <3>1. OwnersOf(x) = {}
      BY <2>1
    <3>. QED  BY <3>1
  <2>9. own'[r] = "active"
    BY <2>2
  <2>. QED  BY <2>1, <2>3, <2>5, <2>6, <2>7, <2>8, <2>9
<1>. QED
  BY <1>1, <1>2, <1>3, <1>4, <1>5, <1>6, <1>7, <1>8, <1>9, <1>10, <1>11, <1>12, <1>13, <1>14,
     <1>15, <1>16, <1>17, <1>18, <1>19, <1>20, <1>21, <1>22, <1>23
     DEF Next, Venue, Attaching, Clearing

\* There is none at first.
LEMMA OwnerInit ==
  ASSUME Init
  PROVE  OwnerInv
BY DEF Init, OwnerInv, Active, OwnersOf, Calling, Leg

\* Whatever the process is doing when it stops: no exit has two active ownership rows, and
\* one whose stop the position carries, or may still get, has one.  The ownership
\* transactions alone show it, whatever the engine, the venue and the channels do.
THEOREM ExitsAreOwned == Spec => []OneActiveOwner
<1>1. Init => LegInv /\ OwnerInv
  BY LegStarts, OwnerInit
<1>2. LegInv /\ OwnerInv /\ [Next]_vars => (LegInv /\ OwnerInv)'
  BY LegStep, OwnerStep
<1>3. LegInv /\ OwnerInv => OneActiveOwner
  <2>. SUFFICES ASSUME LegInv, OwnerInv
                PROVE  OneActiveOwner
    OBVIOUS
  <2>1. ASSUME NEW x \in Exits
        PROVE  Cardinality(OwnersOf(x)) <= 1
    <3>1. CASE OwnersOf(x) = {}
      BY <3>1, FS_EmptySet
    <3>2. CASE OwnersOf(x) # {}
      <4>1. PICK r \in OwnersOf(x) : TRUE
        BY <3>2
      <4>2. OwnersOf(x) = {r}
        BY <4>1 DEF OwnersOf, OwnerInv
      <4>3. Cardinality(OwnersOf(x)) = 1
        BY <4>2, FS_Singleton
      <4>. QED  BY <4>3
    <3>. QED  BY <3>1, <3>2
  <2>. QED  BY <2>1 DEF OneActiveOwner, OwnerInv
<1>. QED  BY <1>1, <1>2, <1>3, PTL DEF Spec

\* Every figure of the module stays in its range.
THEOREM StopTypeCorrect == Spec => []TypeOK
<1>1. Init => LegInv
  BY LegStarts
<1>2. LegInv /\ [Next]_vars => LegInv'
  BY LegStep
<1>3. LegInv => TypeOK
  BY LegIsTyped
<1>. QED  BY <1>1, <1>2, <1>3, PTL DEF Spec

(***************************************************************************)
(* Steps that write rows or release them: no stop fills meanwhile, and     *)
(* what proves the executions on their way stays.                          *)
(***************************************************************************)
\* What such a step does to the proofs of the executions under way.
RowsKept ==
    /\ \A i \in Unhandled : Cover(i)' = Cover(i)
    /\ \A r \in Active' : (r \in Active /\ born'[r] = born[r]) \/ born'[r] = Len(execs)
    /\ \A r \in Active' : r[1] \in entered \/ \E q \in Active : q[1] = r[1]

\* What is to be handled has been executed.
LEMMA DueBehind ==
  ASSUME LegInv
  PROVE  \A i \in Unhandled : i \in Known /\ i \in Nat /\ i <= Len(execs)
BY LegTypes DEF Unhandled

\* Released rows go on to prove what happened before.
LEMMA ReleaseKeepsRows ==
  ASSUME LegInv, NEW r \in Rows, own[r] = "active", Release({r})
  PROVE  RowsKept
<1>1. /\ own' = [q \in Rows |-> IF q = r THEN "released" ELSE own[q]]
      /\ shut' = [q \in Rows |-> IF q = r THEN Len(execs) ELSE shut[q]]
      /\ born' = born
  BY Zenon DEF Release
<1>2. \A i \in Unhandled : \A q \in Rows : Covers(i, q)' <=> Covers(i, q)
  BY <1>1, DueBehind, LegTypes DEF Covers
<1>3. \A i \in Unhandled : Cover(i)' = Cover(i)
  BY <1>2 DEF Cover
<1>4. Active' \subseteq Active
  BY <1>1 DEF Active
<1>. QED  BY <1>1, <1>3, <1>4 DEF RowsKept, Active

\* A refused attach leaves the rows that prove what fired before it.
LEMMA RestoreKeepsRows ==
  ASSUME LegInv, OwnerInv, CoverInv, "refusal" \notin Beyond, pc = "posted", Undisturbed, Restore
  PROVE  RowsKept
<1>1. /\ cur \in Rows /\ own[cur] = "active" /\ sup \subseteq Rows \ {cur}
      /\ prior \in {"none", "active"} /\ (prior = "active" => sup = {})
      /\ \A q \in sup : q[1] = cur[1]
  BY DEF OwnerInv, LegInv, CallInv, Calling
<1>2. /\ own' = [r \in Rows |-> IF r = cur THEN IF prior = "none" THEN "released" ELSE prior
                                ELSE IF r \in sup THEN "active" ELSE own[r]]
      /\ shut' = [shut EXCEPT ![cur] = Len(execs)]
      /\ born' = [r \in Rows |-> IF r \in sup THEN Len(execs) ELSE born[r]]
  BY Zenon DEF Restore
<1>3. since = Len(execs) /\ (sup = {} \/ handled = Known)
  BY DEF Undisturbed
<1>4. \A i \in Unhandled : Cover(i)' = Cover(i)
  <2>. SUFFICES ASSUME NEW i \in Unhandled, NEW r \in Rows
                PROVE  Covers(i, r)' <=> Covers(i, r)
    BY DEF Cover
  <2>1. sup = {}
    BY <1>3 DEF Unhandled
  <2>2. CASE r # cur
    BY <1>2, <2>1, <2>2 DEF Covers, LegInv, RowInv
  <2>3. CASE r = cur /\ prior = "active"
    BY <1>1, <1>2, <2>1, <2>3 DEF Covers
  <2>4. CASE r = cur /\ prior = "none"
    <3>1. born[r] = Len(execs) /\ born'[r] = born[r]
      BY <1>1, <1>2, <1>3, <2>1, <2>4 DEF CoverInv
    <3>. QED  BY <3>1, DueBehind, LegTypes DEF Covers
  <2>. QED  BY <1>1, <2>2, <2>3, <2>4
<1>5. \A r \in Active' : (r \in Active /\ born'[r] = born[r]) \/ born'[r] = Len(execs)
  BY <1>1, <1>2 DEF Active
<1>6. \A r \in Active' : r[1] \in entered \/ \E q \in Active : q[1] = r[1]
  BY <1>1, <1>2 DEF Active
<1>. QED  BY <1>4, <1>5, <1>6 DEF RowsKept

\* A new row proves nothing that happened before it.
LEMMA AttachKeepsRows ==
  ASSUME LegInv, NEW x \in Exits, NEW r \in Rows, Attach(x, r)
  PROVE  RowsKept
<1>1. /\ own' = [q \in Rows |-> IF q = r THEN "active"
                                ELSE IF q \in OwnersOf(x) THEN "released" ELSE own[q]]
      /\ shut' = [q \in Rows |-> IF q \in OwnersOf(x) \ {r} THEN Len(execs) ELSE shut[q]]
  BY Zenon DEF Attach, HandOver
<1>2. /\ x \in entered /\ r[1] = x /\ own[r] # "released"
      /\ born' = IF own[r] = "active" THEN born ELSE [born EXCEPT ![r] = Len(execs)]
  BY DEF Attach
<1>3. born \in [Rows -> Nat] /\ own[r] \in {"none", "active"}
  BY <1>2 DEF LegInv, RowInv
<1>4. \A i \in Unhandled : Cover(i)' = Cover(i)
  <2>. SUFFICES ASSUME NEW i \in Unhandled, NEW q \in Rows
                PROVE  Covers(i, q)' <=> Covers(i, q)
    BY DEF Cover
  <2>1. i \in Nat /\ i <= Len(execs) /\ Len(execs) \in Nat
    BY DueBehind, LegTypes
  <2>2. CASE q = r
    BY <1>1, <1>2, <1>3, <2>1, <2>2 DEF Covers
  <2>3. CASE q # r
    BY <1>1, <1>2, <1>3, <2>1, <2>3 DEF Covers, OwnersOf, Active
  <2>. QED  BY <2>2, <2>3
<1>5. \A q \in Active' : (q \in Active /\ born'[q] = born[q]) \/ born'[q] = Len(execs)
  BY <1>1, <1>2, <1>3 DEF Active, OwnersOf
<1>6. \A q \in Active' : q[1] \in entered \/ \E p \in Active : p[1] = q[1]
  BY <1>1, <1>2 DEF Active, OwnersOf
<1>. QED  BY <1>4, <1>5, <1>6 DEF RowsKept

\* Steps that change rows.
LEMMA RowStep ==
  ASSUME ShareInv, RowsKept, firing = 0,
         UNCHANGED <<run, firing, execs, handled, trail, journal, entered>>,
         pc' # "down", pc' = "posted" /\ prior' = "none" => born'[cur'] = since'
  PROVE  FiringInv' /\ CoverInv' /\ BookInv'
<1>1. Unhandled' = Unhandled /\ Owed' = Owed
  BY DEF Unhandled, Owed, Part, Known
<1>2. \A i \in Unhandled : Cover(i)' = Cover(i)
  BY DEF RowsKept
<1>3. FiringInv'
  BY <1>1 DEF ShareInv, FiringInv, RowsKept
<1>4. CoverInv'
  <2>. SUFFICES ASSUME NEW i \in Unhandled
                PROVE  /\ Cover(i)' # {}
                       /\ execs[i].part > 0 =>
                            Cardinality(Cover(i)') <= 1 \/ execs[i].qty >= Qty * Cardinality(Cover(i)')
    BY <1>1 DEF CoverInv
  <2>. QED  BY <1>2 DEF ShareInv, CoverInv
<1>5. \A i \in handled \ trail : i <= Len(execs)
  BY LegTypes DEF ShareInv
<1>6. run > 0 => \A i \in handled \ trail : \A r \in Active' : born'[r] >= i
  BY <1>5, LegTypes DEF ShareInv, BookInv, RowsKept
<1>7. BookInv'
  BY <1>1, <1>6 DEF ShareInv, BookInv
<1>. QED  BY <1>3, <1>4, <1>7

\* Steps that leave the rows and the books alone.
LEMMA StillStep ==
  ASSUME ShareInv, UNCHANGED <<rowVars, run, firing, execs, handled, trail, journal, entered, since>>,
         pc' = "posted" => pc = "posted" /\ UNCHANGED <<cur, prior>>,
         pc' = "down" => pc = "down" \/ \A i \in Unhandled : \E r \in Active : born[r] < i
  PROVE  FiringInv' /\ CoverInv' /\ BookInv'
<1>1. Unhandled' = Unhandled /\ Owed' = Owed /\ Active' = Active
  BY DEF Unhandled, Owed, Part, Known, Active, rowVars
<1>2. \A i \in Unhandled : Cover(i)' = Cover(i)
  BY DEF Cover, Covers, rowVars
<1>3. FiringInv'
  BY <1>1 DEF ShareInv, FiringInv
<1>4. CoverInv'
  <2>1. ASSUME NEW i \in Unhandled
        PROVE  /\ Cover(i)' # {}
               /\ execs[i].part > 0 =>
                    Cardinality(Cover(i)') <= 1 \/ execs[i].qty >= Qty * Cardinality(Cover(i)')
    BY <1>2 DEF ShareInv, CoverInv
  <2>2. /\ pc' = "posted" /\ prior' = "none" => born'[cur'] = since'
        /\ pc' = "down" => \A i \in Unhandled : \E r \in Active : born'[r] < i
    BY DEF ShareInv, CoverInv, rowVars
  <2>. QED  BY <1>1, <2>1, <2>2 DEF CoverInv
<1>5. BookInv'
  BY <1>1 DEF ShareInv, BookInv, rowVars
<1>. QED  BY <1>3, <1>4, <1>5

\* A stop fires, or fires on: its executions join those under way.
LEMMA FiringStep ==
  ASSUME ShareInv, "pieces" \notin Beyond, Fire \/ FireFills
  PROVE  FiringInv' /\ CoverInv' /\ BookInv'
<1>1. LegInv /\ LegInv'
  BY LegExecutes DEF ShareInv
<1>2. PICK n \in Nat : n = Len(execs) + 1
  BY <1>1, LegTypes
<1>3. PICK order \in Execs : /\ Executes(order) /\ Leg > 0 /\ Len(execs) < MaxExecs
                             /\ (Fire /\ order = n) \/ FireFills
  <2>1. CASE Fire
    BY <1>1, <1>2, <2>1, LegTypes DEF Fire, Execs
  <2>2. CASE FireFills
    BY <1>1, <2>2, LegTypes DEF FireFills, Execs, LegInv, VenueInv
  <2>. QED  BY <2>1, <2>2
<1>4. PICK q \in 1 .. Leg : \E part \in 0 .. run : Took(order, q, part)
  BY <1>1, <1>3, OneExecution
<1>5. PICK part \in 0 .. run : Took(order, q, part)
  BY <1>4
<1>6. UNCHANGED <<wire, rowVars, bookVars, callVars, engVars, pc, spent>>
  BY DEF Fire, FireFills
<1>7. /\ Unhandled' = Unhandled \cup {n} /\ n \notin Unhandled
      /\ \A i \in Unhandled : execs'[i] = execs[i]
      /\ Owed' = Owed + part
  BY <1>1, <1>2, <1>5, <1>6, OwedGrows DEF bookVars
<1>8. Active' = Active /\ \A i : Cover(i)' = Cover(i)
  BY <1>6 DEF Active, Cover, Covers, rowVars
<1>9. n \in Nat /\ Len(execs) \in Nat /\ Cover(n) = Active
  BY <1>1, <1>2, LegTypes DEF Cover, Covers, Active
<1>10. Active # {}
  BY DEF Fire, FireFills, ShareInv, OwnerInv, FiringInv, OwnersOf
<1>11. /\ execs'[n].qty = q /\ execs'[n].part = part /\ q \in Nat /\ part \in Nat
      /\ run \in Nat /\ run' = run - part /\ part = (IF q <= run THEN q ELSE run)
      /\ Leg \in Nat /\ run <= Leg
  <2>1. run \in Nat /\ Leg \in Nat /\ run <= Leg
    BY <1>1, LegTypes DEF Leg
  <2>2. q \in Nat /\ part \in Nat
    BY <2>1
  <2>3. execs'[n] = [order |-> order, qty |-> q, part |-> part]
    BY <1>2, <1>5 DEF Took
  <2>4. execs'[n].qty = q /\ execs'[n].part = part
    BY <2>3
  <2>5. run' = run - part /\ part = (IF q <= run THEN q ELSE run)
    BY <1>5 DEF Took
  <2>. QED  BY <2>1, <2>2, <2>4, <2>5
<1>12. FiringInv'
  <2>1. firing' # 0 => since < Len(execs') /\ Cardinality(Active) <= 1
    BY <1>1, <1>5, LegTypes DEF Took
  <2>2. firing' = 0 => run' = 0
    <3>1. order # 0
      BY DEF Execs
    <3>. QED  BY <1>5, <3>1 DEF Took
  <2>. QED  BY <1>6, <1>8, <1>10, <2>1, <2>2 DEF FiringInv, callVars
<1>13. part > 0 => Cardinality(Active) <= 1 \/ q >= Qty * Cardinality(Active)
  <2>. SUFFICES ASSUME run > 0, ~(Cardinality(Active) <= 1)
                PROVE  q >= Qty * Cardinality(Active)
    BY <1>11
  <2>1. q = Leg
    BY <1>5 DEF Took
  <2>2. firing = 0
    BY DEF ShareInv, FiringInv
  <2>3. run = Qty * Cardinality(entered) /\ \A r \in Active : r[1] \in entered
    BY <2>2 DEF ShareInv, FiringInv
  <2>4. IsFiniteSet(entered)
    BY <1>1, StopAssumption, FS_Subset DEF LegInv, EngInv
  <2>5. /\ Cardinality(Active) \in Nat /\ Cardinality(entered) \in Nat
        /\ Cardinality(Active) <= Cardinality(entered)
    <3>. DEFINE f == [r \in Active |-> r[1]]
    <3>1. f \in Injection(Active, entered)
      BY <2>3 DEF Injection, IsInjective, ShareInv, OwnerInv
    <3>. QED  BY <2>4, <3>1, FS_Injection, FS_CardinalityType
  <2>6. Qty * Cardinality(Active) <= Qty * Cardinality(entered)
    <3>1. \A a \in Nat, b \in Nat, c \in Nat : b <= c => a * b <= a * c
      OBVIOUS
    <3>. QED  BY <2>5, <3>1, StopAssumption
  <2>7. Qty * Cardinality(Active) \in Nat /\ Qty * Cardinality(entered) \in Nat
    BY <2>5, StopAssumption
  <2>. QED  BY <1>11, <2>1, <2>3, <2>6, <2>7
<1>14. CoverInv'
  <2>1. ASSUME NEW i \in Unhandled
        PROVE  /\ Cover(i)' # {}
               /\ execs'[i].part > 0 =>
                    Cardinality(Cover(i)') <= 1 \/ execs'[i].qty >= Qty * Cardinality(Cover(i)')
    BY <1>7, <1>8 DEF ShareInv, CoverInv
  <2>2. Cover(n)' = Active
    BY <1>8, <1>9
  <2>3. /\ Cover(n)' # {}
        /\ execs'[n].part > 0 =>
             Cardinality(Cover(n)') <= 1 \/ execs'[n].qty >= Qty * Cardinality(Cover(n)')
    BY <1>10, <1>11, <1>13, <2>2
  <2>4. \A i \in Unhandled' : Cover(i)' # {}
    BY <1>7, <2>1, <2>3
  <2>5. \A i \in Unhandled' : execs'[i].part > 0 =>
          Cardinality(Cover(i)') <= 1 \/ execs'[i].qty >= Qty * Cardinality(Cover(i)')
    BY <1>7, <2>1, <2>3
  <2>6. \A r \in Active : born[r] < n
    BY <1>1, <1>2, LegTypes DEF Active
  <2>7. pc' = "down" => \A i \in Unhandled' : \E r \in Active' : born'[r] < i
    BY <1>6, <1>7, <1>8, <1>10, <2>6 DEF ShareInv, CoverInv, rowVars
  <2>8. pc' = "posted" /\ prior' = "none" => born'[cur'] = since'
    BY <1>6 DEF ShareInv, CoverInv, rowVars, callVars
  <2>. QED  BY <2>4, <2>5, <2>7, <2>8 DEF CoverInv
<1>15. BookInv'
  <2>1. journal \in Nat /\ Owed \in Nat /\ journal' = journal /\ UNCHANGED <<handled, trail, entered, born>>
    BY <1>1, <1>6, LegTypes, OwedTyped DEF bookVars, rowVars, engVars
  <2>2. journal' <= run' + Owed'
    BY <1>7, <1>11, <2>1 DEF ShareInv, BookInv
  <2>3. ASSUME run' > 0
        PROVE  /\ journal' = run' + Owed' /\ \A i \in Unhandled' : execs'[i].part = execs'[i].qty
               /\ \A i \in handled \ trail : \A r \in Active' : born'[r] >= i
    <3>1. run > 0 /\ part = q
      BY <1>11, <2>3
    <3>2. journal = run + Owed /\ \A i \in Unhandled : execs[i].part = execs[i].qty
      BY <3>1 DEF ShareInv, BookInv
    <3>3. \A i \in handled \ trail : \A r \in Active : born[r] >= i
      BY <3>1 DEF ShareInv, BookInv
    <3>4. \A i \in Unhandled' : execs'[i].part = execs'[i].qty
      BY <1>7, <1>11, <3>1, <3>2
    <3>. QED  BY <1>7, <1>8, <1>11, <2>1, <3>2, <3>3, <3>4
  <2>4. journal' = 0 => entered' = {}
    BY <2>1 DEF ShareInv, BookInv
  <2>. QED  BY <2>1, <2>2, <2>3, <2>4 DEF BookInv
<1>. QED  BY <1>12, <1>14, <1>15

\* With everything handled, the books are the run's part of the leg.
LEMMA Settled ==
  ASSUME ShareInv, firing = 0, handled = Known
  PROVE  /\ Unhandled = {} /\ Owed = 0 /\ journal = run
         /\ run = 0 => entered = {}
         /\ run = Qty * Cardinality(entered)
<1>1. Unhandled = {} /\ Owed = 0
  BY OwedTyped DEF Unhandled, ShareInv
<1>2. journal \in Nat /\ run \in Nat /\ Qty \in Nat
  BY LegTypes DEF ShareInv
<1>3. journal = run
  BY <1>1, <1>2 DEF ShareInv, BookInv
<1>4. run = 0 => entered = {}
  BY <1>3 DEF ShareInv, BookInv
<1>5. run = Qty * Cardinality(entered)
  <2>1. CASE run = 0
    <3>1. Cardinality(entered) = 0
      BY <1>4, <2>1, FS_EmptySet
    <3>. QED  BY <1>2, <2>1, <3>1
  <2>2. CASE run > 0
    BY <2>2 DEF ShareInv, FiringInv
  <2>. QED  BY <1>2, <2>1, <2>2
<1>. QED  BY <1>1, <1>3, <1>4, <1>5

\* An entry is booked.
LEMMA EnterStep ==
  ASSUME ShareInv, Beyond \subseteq {"cancel"}, NEW x \in Exits, Enter(x)
  PROVE  FiringInv' /\ CoverInv' /\ BookInv' /\ (TrustInv => TrustInv')
<1>1. /\ pc = "idle" /\ firing = 0 /\ x \notin entered /\ handled = Known /\ Withdrawn
      /\ run' = run + Qty /\ journal' = journal + Qty /\ entered' = entered \cup {x}
      /\ UNCHANGED <<foreign, stop, firing, execs, wire, rowVars, claim, trail, handled,
                     callVars, trusts, pc>>
  BY DEF Enter
<1>2. Unhandled = {} /\ Owed = 0 /\ journal = run /\ (run = 0 => entered = {})
      /\ run = Qty * Cardinality(entered)
  BY <1>1, Settled
<1>3. Unhandled' = {} /\ Owed' = 0 /\ Active' = Active
  BY <1>1, <1>2 DEF Unhandled, Owed, Part, Known, Active, rowVars
<1>4. run \in Nat /\ Qty \in Nat \ {0} /\ run' > 0 /\ journal' = run' /\ journal' > 0
  <2>1. run \in Nat /\ Qty \in Nat \ {0}
    BY LegTypes DEF ShareInv
  <2>. QED  BY <1>1, <1>2, <2>1
<1>5. run' = Qty * Cardinality(entered')
  <2>1. IsFiniteSet(entered)
    BY StopAssumption, FS_Subset DEF ShareInv, LegInv, EngInv
  <2>2. Cardinality(entered') = Cardinality(entered) + 1 /\ Cardinality(entered) \in Nat
    BY <1>1, <2>1, FS_AddElement, FS_CardinalityType
  <2>3. \A a \in Nat, b \in Nat : a * (b + 1) = a * b + a
    OBVIOUS
  <2>. QED  BY <1>1, <1>2, <1>4, <2>2, <2>3
<1>6. run = 0 => Active = {}
  BY <1>1, <1>2 DEF Withdrawn
<1>7. FiringInv'
  BY <1>1, <1>3, <1>5 DEF FiringInv, Withdrawn
<1>8. CoverInv'
  BY <1>1, <1>3 DEF CoverInv
<1>9. BookInv'
  <2>1. \A i \in handled \ trail : \A r \in Active : born[r] >= i
    BY <1>4, <1>6 DEF ShareInv, BookInv
  <2>. QED  BY <1>1, <1>3, <1>4, <2>1 DEF BookInv, rowVars
<1>10. ASSUME TrustInv
       PROVE  TrustInv'
  BY <1>1, <1>4, <1>6, <1>10 DEF TrustInv, rowVars, callVars, OwnersOf, Active
<1>. QED  BY <1>7, <1>8, <1>9, <1>10

\* The engine flattens what the run holds.
LEMMA FlattenStep ==
  ASSUME ShareInv, DefensiveFlatten
  PROVE  FiringInv' /\ CoverInv' /\ BookInv' /\ (TrustInv => TrustInv')
<1>1. /\ firing = 0 /\ handled = Known
      /\ run' = 0 /\ journal' = 0 /\ entered' = {} /\ trusts' = {} /\ pc' = "idle"
      /\ UNCHANGED <<foreign, firing, execs, wire, rowVars, claim, trail, handled, callVars, spent>>
  BY DEF DefensiveFlatten
<1>2. Unhandled' = {} /\ Owed' = 0
  <2>1. Unhandled = {} /\ Owed = 0
    BY <1>1, Settled
  <2>. QED  BY <1>1, <2>1 DEF Unhandled, Owed, Part, Known
<1>. QED  BY <1>1, <1>2 DEF FiringInv, CoverInv, BookInv, TrustInv

\* There are finitely many rows.
LEMMA RowsFinite ==
  IsFiniteSet(Rows)
<1>1. IsFiniteSet(Exits) /\ 1 \in Int /\ MaxGens \in Int
  BY StopAssumption
<1>2. IsFiniteSet(1 .. MaxGens)
  BY <1>1, FS_Interval
<1>. QED  BY <1>1, <1>2, FS_Product DEF Rows

\* A part of the run that is owed is found to be the run's: rows that were live at it are
\* on record, and what they cover it is large enough for.
LEMMA OwedIsAttributed ==
  ASSUME ShareInv, Beyond \subseteq {"cancel"}, NEW i \in Unhandled, Handle(i), execs[i].part > 0, journal > 0
  PROVE  Attributed(i)
<1>1. Cover(i) # {} /\ (Cardinality(Cover(i)) <= 1 \/ execs[i].qty >= Qty * Cardinality(Cover(i)))
  BY DEF ShareInv, CoverInv
<1>2. Cover(i) \subseteq Owners(i)
  BY DEF Cover, Covers, Owners, Active
<1>3. Cardinality(Owners(i)) <= 1 \/ \A r \in Active : born[r] < i
  BY DEF Handle
<1>4. (\A r \in Active : born[r] < i) => Cover(i) = Owners(i)
  BY DEF Cover, Covers, Owners, Active
<1>5. ~Refused(i)
  <2>1. CASE Cardinality(Owners(i)) <= 1
    <3>1. IsFiniteSet(Owners(i))
      BY RowsFinite, FS_Subset DEF Owners, Active
    <3>2. Cardinality(Owners(i)) \in Nat
      BY <3>1, FS_CardinalityType
    <3>. QED  BY <2>1, <3>2 DEF Refused
  <2>2. CASE ~(Cardinality(Owners(i)) <= 1)
    <3>1. Cover(i) = Owners(i)
      BY <1>3, <1>4, <2>2
    <3>2. execs[i].qty >= Qty * Cardinality(Owners(i))
      BY <1>1, <2>2, <3>1
    <3>3. Cardinality(Owners(i)) \in Nat
      BY RowsFinite, FS_Subset, FS_CardinalityType DEF Owners, Active
    <3>4. Qty * Cardinality(Owners(i)) \in Nat /\ execs[i].qty \in Nat
      BY <3>3, DueBehind, LegTypes DEF ShareInv
    <3>. QED  BY <3>2, <3>4 DEF Refused
  <2>. QED  BY <2>1, <2>2
<1>. QED  BY <1>1, <1>2, <1>5 DEF Attributed

\* An execution is handled, in whatever order.
LEMMA HandleStep ==
  ASSUME ShareInv, Beyond \subseteq {"cancel"}, NEW i \in Execs, Handle(i)
  PROVE  FiringInv' /\ CoverInv' /\ BookInv' /\ (TrustInv => TrustInv')
<1>1. /\ i \in Unhandled /\ handled' = handled \cup {i} /\ pc # "down"
      /\ UNCHANGED <<venueVars, rowVars, callVars, pc, spent>>
  BY DEF Handle, Unhandled
<1>2. LegInv
  BY DEF ShareInv
<1>3. Unhandled' = Unhandled \ {i} /\ Owed = execs[i].part + Owed' /\ Owed' \in Nat
  BY <1>1, <1>2, OwedShrinks DEF venueVars
<1>4. /\ run \in Nat /\ journal \in Nat /\ execs[i].qty \in Nat \ {0} /\ execs[i].part \in Nat
      /\ execs[i].part <= execs[i].qty /\ i \in Known
  BY <1>1, <1>2, DueBehind, LegTypes
<1>5. /\ journal' = journal \/ journal' = 0 \/ journal' = journal - execs[i].qty
      /\ journal' \in Nat /\ journal' <= journal
      /\ Attributed(i) => trail' = trail \cup {i}
      /\ Attributed(i) => journal' = IF execs[i].qty <= journal THEN journal - execs[i].qty ELSE 0
      /\ trail \subseteq trail'
      /\ journal' = 0 => entered' = {} \/ (journal = 0 /\ entered' = entered)
      /\ trusts' \subseteq trusts
  <2>1. CASE Attributed(i)
    <3>1. OwnPart(i) = IF execs[i].qty <= journal THEN execs[i].qty ELSE journal
      BY <1>4, LeastOfTwo DEF OwnPart
    <3>2. /\ trail' = trail \cup {i} /\ journal' = journal - OwnPart(i)
          /\ entered' = (IF journal' = 0 THEN {} ELSE entered \ {r[1] : r \in Owners(i)})
          /\ trusts' = trusts \cap entered'
      BY <2>1, Zenon DEF Handle
    <3>3. journal' = IF execs[i].qty <= journal THEN journal - execs[i].qty ELSE 0
      BY <1>4, <3>1, <3>2
    <3>. QED  BY <1>4, <3>2, <3>3
  <2>2. CASE ~Attributed(i)
    <3>1. UNCHANGED <<trail, claim, journal, engVars>>
      BY <2>2, Zenon DEF Handle
    <3>. QED  BY <1>4, <2>2, <3>1 DEF engVars
  <2>. QED  BY <2>1, <2>2
<1>6. execs[i].part > 0 /\ journal > 0 => Attributed(i)
  BY <1>1, OwedIsAttributed
<1>7. Active' = Active /\ \A j : Cover(j)' = Cover(j)
  BY <1>1 DEF Active, Cover, Covers, rowVars
<1>8. FiringInv'
  <2>1. ~(run > 0 /\ firing = 0)
    BY <1>1 DEF ShareInv, FiringInv
  <2>. QED  BY <1>1, <1>7, <2>1 DEF ShareInv, FiringInv, venueVars, callVars
<1>9. CoverInv'
  BY <1>1, <1>3, <1>7 DEF ShareInv, CoverInv, venueVars, callVars, rowVars
<1>10. BookInv'
  <2>1. CASE run > 0
    <3>1. journal = run + Owed /\ \A j \in Unhandled : execs[j].part = execs[j].qty
      BY <2>1 DEF ShareInv, BookInv
    <3>2. Attributed(i) /\ execs[i].part = execs[i].qty
      BY <1>1, <1>3, <1>4, <1>6, <2>1, <3>1
    <3>3. journal' = run + Owed' /\ journal' > 0
      <4>. DEFINE q == execs[i].qty
                  due == Owed
                  left == Owed'
                  held == journal
      <4>1. run \in Nat /\ q \in Nat /\ due \in Nat /\ left \in Nat /\ held \in Nat
        BY <1>3, <1>4
      <4>2. held = run + due /\ due = q + left
        BY <1>3, <3>1, <3>2
      <4>3. journal' = IF q <= held THEN held - q ELSE 0
        BY <1>5, <3>2
      <4>4. q <= held /\ held - q = run + left /\ run + left > 0
        <5>. HIDE DEF q, due, left, held
        <5>. QED  BY <2>1, <4>1, <4>2
      <4>. QED  BY <4>3, <4>4
    <3>4. \A j \in handled' \ trail' : \A r \in Active : born[r] >= j
      BY <1>1, <1>5, <2>1, <3>2 DEF ShareInv, BookInv
    <3>5. run' = run /\ execs' = execs /\ born' = born
      BY <1>1 DEF venueVars, rowVars
    <3>6. \A j \in Unhandled' : execs'[j].part = execs'[j].qty
      BY <1>3, <3>1, <3>5
    <3>7. journal' <= run' + Owed' /\ journal' = run' + Owed' /\ journal' # 0
      <4>1. run' \in Int /\ Owed' \in Int
        BY <1>3, <1>4, <3>5
      <4>2. run' + Owed' \in Int
        BY <4>1
      <4>3. journal' = run' + Owed' /\ journal' > 0
        BY <3>3, <3>5
      <4>. QED  BY <4>2, <4>3
    <3>8. \A j \in handled' \ trail' : \A r \in Active' : born'[r] >= j
      BY <1>7, <3>4, <3>5
    <3>. QED  BY <3>6, <3>7, <3>8 DEF BookInv
  <2>2. CASE run = 0
    <3>1. run' = 0
      BY <1>1, <2>2 DEF venueVars
    <3>2. journal <= Owed
      BY <1>3, <1>4, <2>2 DEF ShareInv, BookInv
    <3>3. journal' <= Owed'
      <4>1. CASE execs[i].part = 0
        <5>1. Owed = execs[i].part + Owed' /\ Owed' \in Nat
          BY <1>3
        <5>2. Owed = Owed'
          BY <4>1, <5>1
        <5>3. journal' <= journal /\ journal \in Nat /\ journal' \in Nat
          BY <1>4, <1>5
        <5>. QED  BY <3>2, <5>1, <5>2, <5>3
      <4>2. CASE journal = 0
        BY <1>3, <1>5, <4>2
      <4>3. CASE execs[i].part > 0 /\ journal > 0
        BY <1>3, <1>4, <1>5, <1>6, <3>2, <4>3
      <4>. QED  BY <1>4, <4>1, <4>2, <4>3
    <3>4. journal' = 0 => entered' = {}
      BY <1>5 DEF ShareInv, BookInv
    <3>5. journal' <= run' + Owed' /\ ~(run' > 0)
      BY <1>3, <3>1, <3>3
    <3>. QED  BY <3>4, <3>5 DEF BookInv
  <2>. QED  BY <1>4, <2>1, <2>2
<1>11. ASSUME TrustInv
       PROVE  TrustInv'
  BY <1>1, <1>5, <1>7, <1>11 DEF TrustInv, OwnersOf, venueVars, callVars
<1>. QED  BY <1>8, <1>9, <1>10, <1>11

\* The adoption nets what fired and was not booked, and finds the books the run's part.
LEMMA RestartStep ==
  ASSUME ShareInv, Restart
  PROVE  FiringInv' /\ CoverInv' /\ BookInv' /\ (TrustInv => TrustInv')
<1>1. LegInv /\ firing = 0 /\ pc = "down" /\ pc' = "idle" /\ handled' = Known
      /\ UNCHANGED <<venueVars, rowVars, callVars, trusts, spent>>
  BY DEF ShareInv, Restart
<1>2. PICK wm \in 0 .. Len(execs) :
           /\ 1 .. wm \subseteq handled
           /\ journal' = (IF Left(Unbooked(wm)) <= Leg THEN Left(Unbooked(wm)) ELSE Leg)
           /\ claim' \in [Execs -> 0 .. MaxLeg]
           /\ trail' = trail \cup Unbooked(wm)
           /\ entered' = IF journal' = 0 THEN {}
                         ELSE entered \ {r[1] : r \in {q \in Active : \E i \in Unbooked(wm) : born[q] < i}}
           /\ Unbooked(wm) \in SUBSET Known
  BY <1>1, RestartFigures
<1>3. PICK U \in SUBSET Known : U = Unbooked(wm)
  BY <1>2
<1>4. /\ journal' = (IF Left(U) <= Leg THEN Left(U) ELSE Leg)
      /\ trail' = trail \cup U
      /\ U = {} /\ journal' # 0 => entered' = entered
      /\ journal' = 0 => entered' = {}
  BY <1>2, <1>3
<1>5. Unhandled' = {} /\ Owed' = 0 /\ Active' = Active
  <2>1. Known' = Known
    BY <1>1 DEF venueVars, Known
  <2>2. Unhandled' = {}
    BY <1>1, <2>1 DEF Unhandled
  <2>3. Owed' = 0
    BY <2>2, SumEmpty DEF Owed
  <2>. QED  BY <1>1, <2>2, <2>3 DEF Active, rowVars
<1>6. /\ run \in Nat /\ journal \in Nat /\ foreign \in Nat /\ Leg \in Nat /\ run <= Leg
      /\ SumOver(Executed, U) \in Nat /\ Owed \in Nat
  <2>1. run \in Nat /\ journal \in Nat /\ foreign \in Nat
    BY <1>1, LegTypes
  <2>2. Leg \in Nat /\ run <= Leg
    BY <2>1 DEF Leg
  <2>3. SumOver(Executed, U) \in Nat /\ Owed \in Nat
    BY <1>1, LeftOver, OwedTyped
  <2>. QED  BY <2>1, <2>2, <2>3
<1>7. CASE run > 0
  <2>1. Unhandled = {}
    BY <1>1, <1>7 DEF ShareInv, FiringInv
  <2>2. handled = Known
    BY <1>1, <2>1, LegTypes DEF Unhandled
  <2>3. U = {}
    <3>1. \A i \in handled \ trail : \A r \in Active : ~(born[r] < i)
      <4>1. \A i \in handled \ trail : \A r \in Active : born[r] >= i
        BY <1>7 DEF ShareInv, BookInv
      <4>2. \A i \in handled : i \in Nat
        BY <1>1, <2>2, LegTypes
      <4>3. \A r \in Active : born[r] \in Nat
        BY <1>1, LegTypes DEF Active
      <4>. QED  BY <4>1, <4>2, <4>3
    <3>. QED  BY <1>3, <2>2, <3>1 DEF Unbooked
  <2>4. journal = run
    BY <1>1, <2>2, Settled
  <2>5. Left(U) = run
    <3>1. SumOver(Executed, U) = 0
      BY <2>3, SumEmpty
    <3>. QED  BY <1>6, <2>4, <3>1 DEF Left
  <2>6. journal' = run /\ entered' = entered /\ trail' = trail /\ handled' = handled
    BY <1>1, <1>4, <1>6, <1>7, <2>2, <2>3, <2>5
  <2>7. FiringInv'
    BY <1>1, <1>5, <2>6 DEF ShareInv, FiringInv, venueVars, callVars
  <2>8. BookInv'
    BY <1>1, <1>5, <1>6, <1>7, <2>6 DEF ShareInv, BookInv, venueVars, rowVars
  <2>. QED  BY <2>7, <2>8, <1>1, <1>5, <2>6 DEF CoverInv, TrustInv, OwnersOf, venueVars, callVars
<1>8. CASE run = 0
  <2>1. Unhandled \subseteq U
    <3>. SUFFICES ASSUME NEW i \in Unhandled
                  PROVE  i \in Unbooked(wm)
      BY <1>3
    <3>1. i \in Known \ trail /\ i \in Nat /\ i # 0
      BY <1>1, LegTypes DEF Unhandled
    <3>2. i > wm
      BY <1>2, <3>1 DEF Unhandled
    <3>3. \E r \in Active : born[r] < i
      BY <1>1 DEF ShareInv, CoverInv
    <3>. QED  BY <3>1, <3>2, <3>3 DEF Unbooked
  <2>2. Owed <= SumOver(Executed, U)
    <3>1. IsFiniteSet(U)
      BY <1>1, KnownFinite
    <3>2. \A i \in U : Executed[i] \in Nat
      BY <1>1, LegTypes DEF Executed
    <3>3. \A i \in Unhandled : Part[i] \in Int /\ Part[i] <= Executed[i]
      BY <1>1, LegTypes, OwedTyped DEF Executed
    <3>. QED  BY <2>1, <3>1, <3>2, <3>3, SumGrows DEF Owed
  <2>3. journal <= Owed
    BY <1>6, <1>8 DEF ShareInv, BookInv
  <2>4. Left(U) = 0
    BY <1>6, <2>2, <2>3 DEF Left
  <2>5. journal' = 0 /\ entered' = {} /\ run' = 0 /\ firing' = 0
    BY <1>1, <1>4, <1>6, <1>8, <2>4 DEF venueVars
  <2>. QED  BY <1>1, <1>5, <1>6, <2>5 DEF FiringInv, BookInv, CoverInv, TrustInv, OwnersOf, venueVars, callVars
<1>. QED  BY <1>6, <1>7, <1>8

\* An attach begins, is taken back or is moot, or a stop is cleared.
LEMMA RowsStep ==
  ASSUME ShareInv, Beyond \subseteq {"cancel"},
         \/ \E x \in Exits, r \in Rows : Attach(x, r)
         \/ AttachQuarantined \/ AttachRefused \/ AttachMoot \/ ClearDone
  PROVE  FiringInv' /\ CoverInv' /\ BookInv'
<1>1. LegInv /\ OwnerInv /\ CoverInv
  BY DEF ShareInv
<1>2. ASSUME NEW x \in Exits, NEW r \in Rows, Attach(x, r)
      PROVE  FiringInv' /\ CoverInv' /\ BookInv'
  <2>1. /\ firing = 0 /\ pc' = "posted" /\ cur' = r /\ prior' = own[r] /\ since' = Len(execs)
        /\ born' = (IF own[r] = "active" THEN born ELSE [born EXCEPT ![r] = Len(execs)])
        /\ UNCHANGED <<run, firing, execs, handled, trail, journal, entered>>
    BY <1>2 DEF Attach, venueVars, bookVars, engVars
  <2>2. prior' = "none" => born'[cur'] = since'
    BY <1>1, <2>1 DEF LegInv, RowInv
  <2>. QED  BY <1>1, <1>2, <2>1, <2>2, AttachKeepsRows, RowStep
<1>3. CASE AttachQuarantined \/ AttachRefused
  <2>1. /\ pc = "posted" /\ Undisturbed /\ Restore /\ pc' \in {"idle", "escalated"}
        /\ UNCHANGED <<run, firing, execs, handled, trail, journal, entered>>
    BY <1>3 DEF AttachQuarantined, AttachRefused, Return, venueVars, bookVars, engVars
  <2>2. RowsKept
    BY <1>1, <2>1, RestoreKeepsRows
  <2>3. firing = 0
    BY <2>1 DEF Undisturbed, ShareInv, FiringInv
  <2>. QED  BY <2>1, <2>2, <2>3, RowStep
<1>4. CASE AttachMoot
  <2>1. /\ pc = "posted" /\ Release({cur}) /\ pc' = "idle" /\ Leg = 0
        /\ UNCHANGED <<run, firing, execs, handled, trail, journal, entered>>
    BY <1>4 DEF AttachMoot, bookVars
  <2>2. firing = 0
    BY <1>1, <2>1 DEF LegInv, VenueInv
  <2>3. cur \in Rows /\ own[cur] = "active"
    BY <1>1, <2>1 DEF OwnerInv, LegInv, CallInv, Calling
  <2>. QED  BY <1>1, <2>1, <2>2, <2>3, ReleaseKeepsRows, RowStep
<1>5. CASE ClearDone
  <2>1. /\ pc = "clear" /\ Release({cur}) /\ pc' = "idle" /\ firing = 0
        /\ UNCHANGED <<run, firing, execs, handled, trail, journal, entered>>
    BY <1>5 DEF ClearDone, bookVars
  <2>2. cur \in Rows /\ own[cur] = "active"
    BY <1>1, <2>1 DEF OwnerInv, LegInv, CallInv, Calling
  <2>. QED  BY <1>1, <2>1, <2>2, ReleaseKeepsRows, RowStep
<1>. QED  BY <1>2, <1>3, <1>4, <1>5

\* Steps of the others, of the wire and of a call on its way.
LEMMA QuietStep ==
  ASSUME ShareInv, Beyond \subseteq {"cancel"},
         \/ UNCHANGED vars \/ ForeignTrade \/ LateLand \/ AttachLands \/ AttachAmbiguous
         \/ Reread \/ RereadFails \/ RetryLands \/ RetryFails \/ ClearFails \/ Crash
         \/ \E x \in Exits : Clear(x)
  PROVE  FiringInv' /\ CoverInv' /\ BookInv'
<1>. USE DEF venueVars, rowVars, bookVars, callVars, engVars
<1>1. UNCHANGED <<rowVars, run, firing, execs, handled, trail, journal, entered, since>>
  BY DEF vars, ForeignTrade, LateLand, AttachLands, AttachAmbiguous, Reread, RereadFails,
         RetryLands, RetryFails, RetryUnresolved, ClearFails, Crash, Clear, Return
<1>2. pc' = "posted" => pc = "posted" /\ UNCHANGED <<cur, prior>>
  BY DEF vars, ForeignTrade, LateLand, AttachLands, AttachAmbiguous, Reread, RereadFails,
         RetryLands, RetryFails, ClearFails, Crash, Clear, Return
<1>3. pc' = "down" => pc = "down" \/ \A i \in Unhandled : \E r \in Active : born[r] < i
  BY DEF vars, ForeignTrade, LateLand, AttachLands, AttachAmbiguous, Reread, RereadFails,
         RetryLands, RetryFails, ClearFails, Crash, Clear, Return, Unhandled
<1>. QED  BY <1>1, <1>2, <1>3, StillStep

\* What the engine counts on, whatever a step does to the rows and the position.
LEMMA TrustStep ==
  ASSUME StopInv, Beyond = {},
         \/ UNCHANGED vars \/ ForeignTrade \/ LateLand \/ Fire \/ FireFills
         \/ AttachLands \/ AttachQuarantined \/ AttachMoot \/ AttachRefused \/ AttachAmbiguous
         \/ Reread \/ RereadFails \/ RetryLands \/ RetryFails
         \/ ClearDone \/ ClearFails \/ Crash
         \/ \E x \in Exits : Clear(x)
         \/ \E x \in Exits, r \in Rows : Attach(x, r)
  PROVE  TrustInv'
<1>1. LegInv /\ OwnerInv /\ TrustInv
  BY DEF StopInv, ShareInv
<1>. USE DEF TrustInv, OwnersOf, Active, Calling, venueVars, rowVars, bookVars, callVars, engVars
<1>2. pc \in Calling \cup {"clear"} => cur \in Rows /\ cur # None /\ own[cur] = "active"
  BY <1>1, StopAssumption DEF LegInv, CallInv, OwnerInv, Rows
<1>3. run \in Nat /\ foreign \in Nat
  BY <1>1, LegTypes
<1>4. CASE UNCHANGED vars
  BY <1>1, <1>4 DEF vars
<1>5. CASE ForeignTrade
  <2>1. /\ UNCHANGED <<run, firing, own, cur, sup, prior, trusts, pc>>
        /\ foreign' \in Nat /\ stop' = IF run + foreign' = 0 THEN None ELSE stop
    BY <1>5, StopAssumption DEF ForeignTrade
  <2>2. run > 0 => stop' = stop
    <3>1. \A a \in Nat, b \in Nat : a > 0 => a + b # 0
      OBVIOUS
    <3>2. run > 0 => run + foreign' # 0
      BY <1>3, <2>1, <3>1
    <3>. QED  BY <2>1, <3>2, Zenon
  <2>. QED  BY <1>1, <2>1, <2>2
<1>6. CASE LateLand
  BY <1>1, <1>6 DEF LateLand
<1>7. CASE Fire \/ FireFills
  <2>1. UNCHANGED <<rowVars, callVars, engVars, pc>>
    BY <1>7 DEF Fire, FireFills
  <2>2. run' > 0 => firing' # 0
    <3>1. PICK order \in Execs : Executes(order) /\ Leg > 0 /\ Len(execs) < MaxExecs /\ order # 0
      <4>1. CASE Fire
        BY <1>1, <4>1, LegTypes DEF Fire, Execs
      <4>2. CASE FireFills
        BY <1>1, <4>2, LegTypes DEF FireFills, Execs, LegInv, VenueInv
      <4>. QED  BY <1>7, <4>1, <4>2
    <3>2. PICK q \in 1 .. Leg : \E part \in 0 .. run : Took(order, q, part)
      BY <1>1, <3>1, OneExecution
    <3>. QED  BY <3>1, <3>2 DEF Took
  <2>. QED  BY <1>1, <2>1, <2>2
<1>8. CASE AttachLands
  BY <1>1, <1>2, <1>8 DEF AttachLands, Return
<1>9. CASE AttachQuarantined \/ AttachRefused
  <2>1. /\ pc = "posted" /\ Restore /\ pc' \in {"idle", "escalated"}
        /\ UNCHANGED <<run, firing, stop, trusts>>
    BY <1>9 DEF AttachQuarantined, AttachRefused, Return
  <2>2. /\ sup \subseteq Rows \ {cur} /\ \A q \in sup : q[1] = cur[1]
        /\ prior \in {"none", "active"} /\ (prior = "active" => sup = {})
    BY <1>1, <2>1 DEF OwnerInv
  <2>3. own' = [r \in Rows |-> IF r = cur THEN IF prior = "none" THEN "released" ELSE prior
                               ELSE IF r \in sup THEN "active" ELSE own[r]]
    BY <2>1, Zenon DEF Restore
  <2>4. ASSUME NEW x \in trusts
        PROVE  OwnersOf(x)' # {}
    <3>1. PICK r \in Rows : own[r] = "active" /\ r[1] = x
      BY <1>1
    <3>2. CASE r # cur
      BY <2>2, <2>3, <3>1, <3>2
    <3>3. CASE r = cur /\ prior = "active"
      BY <2>3, <3>1, <3>3
    <3>4. CASE r = cur /\ prior = "none"
      <4>1. sup # {}
        BY <1>1, <2>1, <3>1, <3>4
      <4>. QED  BY <2>2, <2>3, <3>1, <3>4, <4>1
    <3>. QED  BY <2>2, <3>2, <3>3, <3>4
  <2>. QED  BY <1>1, <2>1, <2>4
<1>10. CASE AttachMoot
  <2>1. /\ own' = [r \in Rows |-> IF r = cur THEN "released" ELSE own[r]]
        /\ pc' = "idle" /\ trusts' = trusts \ {cur[1]} /\ run' = run /\ Leg = 0
    BY <1>10, Zenon DEF AttachMoot, Release
  <2>2. run = 0
    BY <1>3, <2>1 DEF Leg
  <2>. QED  BY <1>1, <2>1, <2>2
<1>11. CASE AttachAmbiguous
  BY <1>1, <1>2, <1>11 DEF AttachAmbiguous, Ambiguous
<1>12. CASE Reread
  BY <1>1, <1>2, <1>12 DEF Reread, Return
<1>13. CASE RereadFails
  BY <1>1, <1>13 DEF RereadFails, Return
<1>14. CASE RetryLands
  BY <1>1, <1>2, <1>14 DEF RetryLands
<1>15. CASE RetryFails
  BY <1>1, <1>2, <1>15 DEF RetryFails, Return, Ambiguous, RetryUnresolved
<1>16. CASE ClearDone
  <2>1. trusts' = {} /\ pc' = "idle"
    BY <1>1, <1>16 DEF ClearDone
  <2>. QED  BY <2>1
<1>17. CASE ClearFails
  <2>1. /\ stop' = None => trusts' = {}
        /\ stop' # None => trusts' = trusts
        /\ pc' = "idle" /\ UNCHANGED <<run, firing, own>>
    BY <1>1, <1>17 DEF ClearFails
  <2>. QED  BY <1>1, <2>1
<1>18. CASE Crash
  BY <1>18 DEF Crash
<1>19. ASSUME NEW x \in Exits, Clear(x)
       PROVE  TrustInv'
  <2>1. cur' \in OwnersOf(x) /\ trusts \subseteq {x} /\ pc' = "clear"
        /\ UNCHANGED <<run, firing, stop, own, trusts>>
    BY <1>19 DEF Clear
  <2>. QED  BY <1>1, <2>1
<1>20. ASSUME NEW x \in Exits, NEW r \in Rows, Attach(x, r)
       PROVE  TrustInv'
  <2>1. /\ r[1] = x /\ cur' = r /\ sup' = OwnersOf(x) \ {r} /\ prior' = own[r]
        /\ pc' = "posted" /\ UNCHANGED <<run, firing, stop, trusts>>
    BY <1>20 DEF Attach
  <2>2. own' = [q \in Rows |-> IF q = r THEN "active"
                               ELSE IF q \in OwnersOf(x) THEN "released" ELSE own[q]]
    BY <1>20, Zenon DEF Attach, HandOver
  <2>3. \A y \in trusts : OwnersOf(y)' # {}
    BY <1>1, <2>1, <2>2
  <2>4. prior' = "none" /\ sup' = {} => x \notin trusts
    <3>1. prior' = "none" /\ sup' = {} => OwnersOf(x) = {}
      BY <2>1
    <3>. QED  BY <1>1, <3>1
  <2>. QED  BY <1>1, <2>1, <2>3, <2>4
<1>. QED  BY <1>4, <1>5, <1>6, <1>7, <1>8, <1>9, <1>10, <1>11, <1>12, <1>13, <1>14, <1>15, <1>16, <1>17, <1>18, <1>19, <1>20

\* Everything holds before any order.
LEMMA StopInit ==
  ASSUME Init
  PROVE  StopInv
<1>1. LegInv /\ OwnerInv
  BY LegStarts, OwnerInit
<1>2. Known = {} /\ Unhandled = {} /\ Owed = 0
  <2>1. Len(execs) = 0
    BY DEF Init
  <2>2. Known = {} /\ Unhandled = {}
    BY <2>1 DEF Known, Unhandled
  <2>. QED  BY <2>2, SumEmpty DEF Owed
<1>3. FiringInv /\ CoverInv /\ BookInv /\ TrustInv
  BY <1>2 DEF Init, FiringInv, CoverInv, BookInv, TrustInv, Active
<1>. QED  BY <1>1, <1>3 DEF StopInv, ShareInv

\* Every step keeps what the journal rests on.
LEMMA ShareStep ==
  ASSUME ShareInv, Beyond \subseteq {"cancel"}, [Next]_vars
  PROVE  ShareInv'
<1>1. LegInv' /\ OwnerInv'
  BY LegStep, OwnerStep DEF ShareInv
<1>2. FiringInv' /\ CoverInv' /\ BookInv'
  <2>1. CASE \/ UNCHANGED vars \/ ForeignTrade \/ LateLand \/ AttachLands \/ AttachAmbiguous
             \/ Reread \/ RereadFails \/ RetryLands \/ RetryFails \/ ClearFails \/ Crash
             \/ \E x \in Exits : Clear(x)
    BY <2>1, QuietStep
  <2>2. CASE \/ \E x \in Exits, r \in Rows : Attach(x, r)
             \/ AttachQuarantined \/ AttachRefused \/ AttachMoot \/ ClearDone
    BY <2>2, RowsStep
  <2>3. CASE Fire \/ FireFills
    BY <2>3, FiringStep
  <2>4. CASE Restart \/ DefensiveFlatten
    BY <2>4, RestartStep, FlattenStep
  <2>5. ASSUME NEW x \in Exits, Enter(x)
        PROVE  FiringInv' /\ CoverInv' /\ BookInv'
    BY <2>5, EnterStep
  <2>6. ASSUME NEW i \in Execs, Handle(i)
        PROVE  FiringInv' /\ CoverInv' /\ BookInv'
    BY <2>6, HandleStep
  <2>. QED  BY <2>1, <2>2, <2>3, <2>4, <2>5, <2>6 DEF Next, Venue, Attaching, Clearing
<1>. QED  BY <1>1, <1>2 DEF ShareInv

\* Every step keeps the whole invariant.
LEMMA StopStep ==
  ASSUME StopInv, Beyond = {}, [Next]_vars
  PROVE  StopInv'
<1>1. ShareInv /\ TrustInv /\ Beyond \subseteq {"cancel"}
  BY DEF StopInv
<1>2. ShareInv'
  BY <1>1, ShareStep
<1>3. TrustInv'
  <2>1. CASE Restart \/ DefensiveFlatten
    BY <1>1, <2>1, RestartStep, FlattenStep
  <2>2. ASSUME NEW x \in Exits, Enter(x)
        PROVE  TrustInv'
    BY <1>1, <2>2, EnterStep
  <2>3. ASSUME NEW i \in Execs, Handle(i)
        PROVE  TrustInv'
    BY <1>1, <2>3, HandleStep
  <2>. QED  BY TrustStep, <2>1, <2>2, <2>3 DEF Next, Venue, Attaching, Clearing
<1>. QED  BY <1>2, <1>3 DEF StopInv

\* Once every execution of a fired stop was handled, in whatever order with attaches,
\* cancels, others' trades and a restart, the entry rows own what the run holds.
THEOREM StopsAreSettled ==
  ASSUME Beyond \subseteq {"cancel"}
  PROVE  Spec => []JournalSettles
<1>1. Init => ShareInv
  BY StopInit DEF StopInv
<1>2. ShareInv /\ [Next]_vars => ShareInv'
  BY ShareStep
<1>3. ShareInv => JournalSettles
  BY Settled DEF JournalSettles
<1>. QED  BY <1>1, <1>2, <1>3, PTL DEF Spec

\* While the engine counts on an attached exit and nothing is undelivered, the position
\* carries a stop of the run.
THEOREM TrustedIsProtected ==
  ASSUME Beyond = {}
  PROVE  Spec => []NotSilentlyBare
<1>1. Init => StopInv
  BY StopInit
<1>2. StopInv /\ [Next]_vars => StopInv'
  BY StopStep
<1>3. StopInv => NotSilentlyBare
  BY DEF StopInv, TrustInv, NotSilentlyBare
<1>. QED  BY <1>1, <1>2, <1>3, PTL DEF Spec

(***************************************************************************)
(*                    The run's share of a hedge leg                       *)
(***************************************************************************)

(***************************************************************************)
(* The types of the ledger.                                                *)
(***************************************************************************)
LegExecution == [id : Int, seq : Int, delta : Int, own : BOOLEAN, share : Int, credit : Int]
LegView == [seq : Int, size : Nat]
LegCredit == [seq : Int, qty : Int, side : Sides]
LegGap == [start : Int, end : Int, startLeg : Int, endLeg : Int, share : Int, journal : Int,
           doubt0 : Int, events : SUBSET LegExecution, doubt : Int, settled : BOOLEAN]
Ledger == [views : SUBSET LegView, events : SUBSET LegExecution, cursor : Int, anchor : Int,
           leg : Int, share : Int, journal : Int, waiting : BOOLEAN, credits : Seq(LegCredit),
           newest : [seq : Int, size : Int, upd : Int], doubt : Int, doubtSeq : Int,
           blind : Int, room : [Sides -> Int], gaps : Seq(LegGap), toNet : [Sides -> Int]]

\* M differs from L in the doubt, its gaps and credits, and what is to be netted, at most.
Alike(L, M) ==
    /\ M \in Ledger
    /\ M.views = L.views /\ M.events = L.events
    /\ M.cursor = L.cursor /\ M.anchor = L.anchor /\ M.blind = L.blind
    /\ M.leg = L.leg /\ M.room = L.room
Matching(L, M) == Alike(L, M) /\ M.share = L.share /\ M.journal = L.journal

\* A figure of the ledger is an integer.
LEMMA LegFigures ==
  ASSUME NEW L \in Ledger
  PROVE  /\ L.leg \in Int /\ L.share \in Int /\ L.journal \in Int /\ L.doubt \in Int
         /\ L.doubtSeq \in Int /\ L.cursor \in Int /\ L.anchor \in Int /\ L.blind \in Int
         /\ L.room \in [Sides -> Int] /\ L.room[1] \in Int /\ L.room[-1] \in Int
         /\ L.toNet \in [Sides -> Int] /\ L.gaps \in Seq(LegGap) /\ L.credits \in Seq(LegCredit)
BY DEF Ledger, Sides

LEMMA DoubtCapped ==
  ASSUME NEW L \in Ledger
  PROVE  Matching(L, CapDoubt(L))
<1>. DEFINE doubt == Smaller(L.doubt, Size(L.share))
            capped(g) == [g EXCEPT !.doubt = Smaller(@, Size(L.share))]
            gaps == IF doubt = 0 THEN <<>> ELSE [i \in DOMAIN L.gaps |-> capped(L.gaps[i])]
<1>1. L.doubt \in Int /\ L.share \in Int /\ L.gaps \in Seq(LegGap)
  BY DEF Ledger
<1>2. doubt \in Int
  BY <1>1 DEF Smaller, Size
<1>3. \A g \in LegGap : capped(g) \in LegGap
  <2>. SUFFICES ASSUME NEW g \in LegGap PROVE capped(g) \in LegGap
    OBVIOUS
  <2>1. Smaller(g.doubt, Size(L.share)) \in Int
    BY <1>1 DEF Smaller, Size, LegGap
  <2>. QED  BY <2>1 DEF LegGap
<1>4. gaps \in Seq(LegGap)
  <2>1. DOMAIN L.gaps = 1 .. Len(L.gaps) /\ Len(L.gaps) \in Nat
    BY <1>1
  <2>2. \A i \in 1 .. Len(L.gaps) : L.gaps[i] \in LegGap
    BY <1>1
  <2>. HIDE DEF doubt
  <2>. QED  BY <1>3, <2>1, <2>2
<1>5. CapDoubt(L) = [L EXCEPT !.doubt = doubt, !.gaps = gaps]
  BY DEF CapDoubt
<1>. HIDE DEF doubt, gaps
<1>. QED  BY <1>2, <1>4, <1>5 DEF Ledger, Matching, Alike

LEMMA DoubtAdded ==
  ASSUME NEW L \in Ledger, NEW seq \in Int, NEW q \in Int
  PROVE  Matching(L, AddDoubt(L, seq, q))
<1>1. CASE q = 0
  BY <1>1 DEF AddDoubt, Matching, Alike
<1>2. CASE q # 0
  <2>. DEFINE M == [L EXCEPT !.doubt = @ + q, !.doubtSeq = Larger(@, seq)]
  <2>1. L.doubt + q \in Int /\ Larger(L.doubtSeq, seq) \in Int
    BY LegFigures DEF Larger
  <2>2. Matching(L, M)
    BY <2>1 DEF Ledger, Matching, Alike
  <2>3. AddDoubt(L, seq, q) = CapDoubt(M)
    BY <1>2 DEF AddDoubt
  <2>4. Matching(M, CapDoubt(M))
    BY <2>2, DoubtCapped DEF Matching, Alike
  <2>. HIDE DEF M
  <2>. QED  BY <2>2, <2>3, <2>4 DEF Matching, Alike
<1>. QED  BY <1>1, <1>2

LEMMA JournalTaken ==
  ASSUME NEW L \in Ledger, NEW q \in Int, NEW side \in {0, 1, -1}
  PROVE  LET M == TakeJournal(L, q, side)
         IN  /\ Alike(L, M) /\ M.share = L.share
             /\ side = 0 => M.journal = L.journal
             /\ side = 1 => M.journal = L.journal - q
             /\ side = -1 => M.journal = L.journal + q
<1>1. CASE q = 0 \/ side = 0
  BY <1>1, LegFigures DEF TakeJournal, Alike
<1>2. CASE q # 0 /\ side # 0
  <2>. DEFINE j == L.journal - q * side
  <2>1. j \in Int /\ (side = 1 => j = L.journal - q) /\ (side = -1 => j = L.journal + q)
    BY LegFigures
  <2>2. side \in Sides
    BY <1>2 DEF Sides
  <2>. DEFINE n == [L.toNet EXCEPT ![side] = @ + q]
  <2>3. n \in [Sides -> Int]
    BY <2>2, LegFigures
  <2>4. TakeJournal(L, q, side) = [L EXCEPT !.journal = j, !.toNet = n]
    BY <1>2 DEF TakeJournal
  <2>. HIDE DEF j, n
  <2>. QED  BY <2>1, <2>3, <2>4, <1>2 DEF Ledger, Alike
<1>. QED  BY <1>1, <1>2

LEMMA CreditAdded ==
  ASSUME NEW L \in Ledger, NEW seq \in Int, NEW q \in Int, NEW side \in {0, 1, -1}
  PROVE  Matching(L, AddCredit(L, seq, q, side))
<1>1. CASE q = 0 \/ side = 0
  BY <1>1 DEF AddCredit, Matching, Alike
<1>2. CASE q # 0 /\ side # 0
  <2>. DEFINE c == [seq |-> seq, qty |-> q, side |-> side]
              all == Append(L.credits, c)
              m == Larger(Len(all) - MaxCredits, 0) + 1
              kept == SubSeq(all, m, Len(all))
  <2>1. c \in LegCredit
    BY <1>2 DEF LegCredit, Sides
  <2>2. all \in Seq(LegCredit)
    BY <2>1, LegFigures, AppendProperties
  <2>. HIDE DEF all, c
  <2>3. Len(all) \in Nat /\ m \in Nat /\ m >= 1
    BY <2>2, LedgerAssumption DEF Larger
  <2>4. kept \in Seq(LegCredit)
    <3>1. \A i \in m .. Len(all) : all[i] \in LegCredit
      BY <2>2, <2>3
    <3>. HIDE DEF m
    <3>. QED  BY <2>3, <3>1, SubSeqProperties
  <2>5. AddCredit(L, seq, q, side) = [L EXCEPT !.credits = kept]
    BY <1>2 DEF AddCredit, all, c
  <2>. HIDE DEF kept
  <2>. QED  BY <2>4, <2>5 DEF Ledger, Matching, Alike
<1>. QED  BY <1>1, <1>2

LEMMA GapAdded ==
  ASSUME NEW L \in Ledger, NEW gap \in LegGap
  PROVE  Matching(L, AddGap(L, gap))
<1>. DEFINE all == Append(L.gaps, gap)
            merged == [all[2] EXCEPT !.start = Unset, !.startLeg = all[2].endLeg,
                                     !.events = {}, !.settled = FALSE,
                                     !.doubt = all[1].doubt + all[2].doubt]
            gaps == IF Len(all) <= MaxGaps THEN all ELSE <<merged>> \o SubSeq(all, 3, Len(all))
<1>1. all \in Seq(LegGap) /\ Len(all) \in Nat
  BY LegFigures, AppendProperties
<1>. HIDE DEF all
<1>2. CASE Len(all) <= MaxGaps
  <2>1. AddGap(L, gap) = [L EXCEPT !.gaps = all]
    BY <1>2 DEF AddGap, all
  <2>. QED  BY <1>1, <2>1 DEF Ledger, Matching, Alike
<1>3. CASE ~(Len(all) <= MaxGaps)
  <2>1. all[1] \in LegGap /\ all[2] \in LegGap
    BY <1>1, <1>3, LedgerAssumption
  <2>2. all[2].endLeg \in Int /\ all[1].doubt + all[2].doubt \in Int /\ Unset \in Int
    BY <2>1 DEF LegGap, Unset
  <2>3. merged \in LegGap
    BY <2>1, <2>2 DEF LegGap
  <2>4. SubSeq(all, 3, Len(all)) \in Seq(LegGap)
    <3>1. \A i \in 3 .. Len(all) : all[i] \in LegGap
      BY <1>1
    <3>. QED  BY <1>1, <3>1, SubSeqProperties
  <2>. DEFINE list == <<merged>> \o SubSeq(all, 3, Len(all))
  <2>5. AddGap(L, gap) = [L EXCEPT !.gaps = list]
    BY <1>3 DEF AddGap, all
  <2>. HIDE DEF merged
  <2>6. list \in Seq(LegGap)
    BY <2>3, <2>4, ConcatProperties
  <2>. HIDE DEF list
  <2>. QED  BY <2>5, <2>6 DEF Ledger, Matching, Alike
<1>. QED  BY <1>2, <1>3

\* M is L with another room.
Roomed(L, M) == M \in Ledger /\ M = [L EXCEPT !.room = M.room]

LEMMA RoomOf ==
  ASSUME NEW leg \in Int, NEW share \in Int, NEW side \in Sides
  PROVE  /\ Foreign(leg, share, side) \in Int
         /\ leg >= 0 /\ share >= 0 => Foreign(leg, share, 1) = leg - share
                                      /\ Foreign(leg, share, -1) = 0
BY DEF Foreign, OnSide, Pos, Larger, Sides

LEMMA RoomNoted ==
  ASSUME NEW L \in Ledger, NEW leg \in Int
  PROVE  /\ Roomed(L, NoteRoom(L, leg))
         /\ \A s \in Sides : NoteRoom(L, leg).room[s] <= L.room[s]
                             /\ NoteRoom(L, leg).room[s] <= Foreign(leg, L.share, s)
         /\ Roomed(L, ResetRoom(L, leg))
         /\ \A s \in Sides : ResetRoom(L, leg).room[s] = Foreign(leg, L.share, s)
<1>. DEFINE r == [side \in Sides |-> Smaller(L.room[side], Foreign(leg, L.share, side))]
            q == [side \in Sides |-> Foreign(leg, L.share, side)]
<1>1. \A s \in Sides : Foreign(leg, L.share, s) \in Int /\ L.room[s] \in Int
  BY LegFigures, RoomOf
<1>2. r \in [Sides -> Int] /\ q \in [Sides -> Int]
  BY <1>1 DEF Smaller
<1>3. \A s \in Sides : r[s] <= L.room[s] /\ r[s] <= Foreign(leg, L.share, s)
  BY <1>1 DEF Smaller
<1>4. \A s \in Sides : q[s] = Foreign(leg, L.share, s)
  OBVIOUS
<1>5. NoteRoom(L, leg) = [L EXCEPT !.room = r] /\ ResetRoom(L, leg) = [L EXCEPT !.room = q]
  BY DEF NoteRoom, ResetRoom
<1>. HIDE DEF r, q
<1>. QED  BY <1>2, <1>3, <1>4, <1>5 DEF Ledger, Roomed

(***************************************************************************)
(* One execution of a walk.                                                *)
(***************************************************************************)
\* A share on the journal's side and not larger.
Within(share, books) ==
    \/ share = 0
    \/ share > 0 /\ share <= books
    \/ share < 0 /\ share >= books

LEMMA BoundedWithin ==
  ASSUME NEW s \in Int, NEW j \in Int
  PROVE  /\ Bounded(s, j) \in Int /\ Within(Bounded(s, j), j)
         /\ Within(s, j) => Bounded(s, j) = s
         /\ s >= 0 => Bounded(s, j) >= 0 /\ Bounded(s, j) <= s
         /\ s <= 0 => Bounded(s, j) <= 0 /\ Bounded(s, j) >= s
BY DEF Bounded, Within, Direction, Size

LEMMA CappedTo ==
  ASSUME NEW s \in Int, NEW leg \in Int
  PROVE  /\ Capped(s, leg) \in Int
         /\ \A j \in Int : Within(s, j) => Within(Capped(s, leg), j)
         /\ leg >= 0 => Capped(s, leg) = Smaller(Pos(s), leg)
<1>1. CASE s > 0
  BY <1>1 DEF Capped, Within, Direction, Size, Smaller, OnSide, Pos, Larger
<1>2. CASE s < 0
  <2>1. Direction(s) = -1 /\ Size(s) = -s /\ leg * (-1) = -leg
    BY <1>2 DEF Direction, Size
  <2>2. OnSide(leg, -1) \in Nat /\ (leg >= 0 => OnSide(leg, -1) = 0)
    BY <2>1 DEF OnSide, Pos, Larger
  <2>3. Capped(s, leg) = Smaller(-s, OnSide(leg, -1)) * (-1)
    BY <2>1 DEF Capped
  <2>. QED  BY <1>2, <2>2, <2>3 DEF Within, Smaller, Pos, Larger
<1>3. CASE s = 0
  <2>1. Direction(s) = 0 /\ Size(s) = 0 /\ OnSide(leg, 0) = 0
    BY <1>3 DEF Direction, Size, OnSide, Pos, Larger
  <2>2. Capped(s, leg) = 0
    BY <2>1 DEF Capped, Smaller
  <2>. QED  BY <1>3, <2>2 DEF Within, Smaller, Pos, Larger
<1>. QED  BY <1>1, <1>2, <1>3

\* M is a ledger a walk from L passes: what it rests on is unchanged, the room no larger.
Passed(L, M) ==
    /\ M \in Ledger
    /\ M.views = L.views /\ M.events = L.events
    /\ M.cursor = L.cursor /\ M.anchor = L.anchor /\ M.blind = L.blind /\ M.leg = L.leg
    /\ \A s \in Sides : M.room[s] <= L.room[s]

LEMMA PassedOn ==
  ASSUME NEW L \in Ledger, NEW M, NEW N, Passed(L, M), Passed(M, N)
  PROVE  Passed(L, N)
<1>1. \A s \in Sides : L.room[s] \in Int /\ M.room[s] \in Int /\ N.room[s] \in Int
  BY DEF Ledger, Passed
<1>. QED  BY <1>1 DEF Passed

LEMMA AlikePassed ==
  ASSUME NEW L \in Ledger, NEW M, Alike(L, M)
  PROVE  Passed(L, M)
<1>1. \A s \in Sides : L.room[s] \in Int
  BY DEF Ledger
<1>. QED  BY <1>1 DEF Alike, Passed

\* M is L but for its room.
SameFigures(L, M) ==
    /\ M.share = L.share /\ M.journal = L.journal /\ M.doubt = L.doubt /\ M.doubtSeq = L.doubtSeq
    /\ M.gaps = L.gaps /\ M.credits = L.credits /\ M.waiting = L.waiting
    /\ M.newest = L.newest /\ M.toNet = L.toNet

LEMMA RoomedFields ==
  ASSUME NEW L \in Ledger, NEW M, Roomed(L, M)
  PROVE  /\ M \in Ledger /\ SameFigures(L, M)
         /\ M.views = L.views /\ M.events = L.events /\ M.leg = L.leg
         /\ M.cursor = L.cursor /\ M.anchor = L.anchor /\ M.blind = L.blind
<1>. DEFINE r == M.room
<1>1. M = [L EXCEPT !.room = r] /\ M \in Ledger
  BY DEF Roomed
<1>. HIDE DEF r
<1>. QED  BY <1>1 DEF Ledger, SameFigures

LEMMA RoomNotedIf ==
  ASSUME NEW L \in Ledger, NEW leg \in Int, NEW proven \in BOOLEAN
  PROVE  /\ Passed(L, NoteRoomIf(proven, L, leg))
         /\ SameFigures(L, NoteRoomIf(proven, L, leg))
         /\ proven => \A s \in Sides :
                         NoteRoomIf(proven, L, leg).room[s] <= Foreign(leg, L.share, s)
<1>1. CASE proven
  <2>. DEFINE M == NoteRoom(L, leg)
  <2>1. /\ Roomed(L, M)
        /\ \A s \in Sides : M.room[s] <= L.room[s] /\ M.room[s] <= Foreign(leg, L.share, s)
    BY RoomNoted
  <2>2. NoteRoomIf(proven, L, leg) = M
    BY <1>1 DEF NoteRoomIf
  <2>. HIDE DEF M
  <2>. QED  BY <2>1, <2>2, RoomedFields DEF Passed
<1>2. CASE ~proven
  <2>1. NoteRoomIf(proven, L, leg) = L
    BY <1>2 DEF NoteRoomIf
  <2>2. \A s \in Sides : L.room[s] \in Int
    BY DEF Ledger
  <2>. QED  BY <1>2, <2>1, <2>2 DEF Passed, SameFigures
<1>. QED  BY <1>1, <1>2

LEMMA OwnWalked ==
  ASSUME NEW L \in Ledger, NEW leg \in Int, NEW e \in LegExecution, NEW proven \in BOOLEAN
  PROVE  LET M == WalkOwn(L, leg, e, proven).led
         IN  Passed(L, M) /\ Within(M.share, M.journal)
<1>. DEFINE books == L.journal + e.share
            wanted == Bounded(L.share + e.share, books)
            share == IF proven THEN Bounded(Capped(L.share + e.share, leg), books)
                     ELSE wanted
            M == [L EXCEPT !.journal = books, !.share = share]
<1>1. books \in Int /\ L.share + e.share \in Int
  BY LegFigures DEF LegExecution
<1>. HIDE DEF books
<1>2. Capped(L.share + e.share, leg) \in Int
  BY <1>1, CappedTo
<1>3. share \in Int /\ Within(share, books)
  BY <1>1, <1>2, BoundedWithin
<1>4. WalkOwn(L, leg, e, proven).led = NoteRoomIf(proven, CapDoubt(M), leg)
  BY DEF WalkOwn, books
<1>. HIDE DEF share
<1>5. Passed(L, M) /\ M.share = share /\ M.journal = books
  <2>1. \A s \in Sides : L.room[s] \in Int
    BY DEF Ledger
  <2>2. /\ M \in Ledger /\ M.share = share /\ M.journal = books
        /\ M.views = L.views /\ M.events = L.events /\ M.leg = L.leg /\ M.room = L.room
        /\ M.cursor = L.cursor /\ M.anchor = L.anchor /\ M.blind = L.blind
    BY <1>1, <1>3 DEF Ledger
  <2>. QED  BY <2>1, <2>2 DEF Passed
<1>. HIDE DEF M
<1>6. Matching(M, CapDoubt(M))
  BY <1>5, DoubtCapped DEF Passed
<1>7. Passed(M, CapDoubt(M)) /\ CapDoubt(M) \in Ledger
  BY <1>5, <1>6, AlikePassed DEF Matching, Passed, Alike
<1>8. Passed(CapDoubt(M), NoteRoomIf(proven, CapDoubt(M), leg))
      /\ NoteRoomIf(proven, CapDoubt(M), leg).share = CapDoubt(M).share
      /\ NoteRoomIf(proven, CapDoubt(M), leg).journal = CapDoubt(M).journal
  BY <1>7, RoomNotedIf DEF SameFigures
<1>9. Passed(L, NoteRoomIf(proven, CapDoubt(M), leg))
  BY <1>5, <1>7, <1>8, PassedOn DEF Passed
<1>. QED  BY <1>3, <1>4, <1>5, <1>6, <1>8, <1>9 DEF Matching

LEMMA ForeignWalked ==
  ASSUME NEW L \in Ledger, Within(L.share, L.journal), NEW leg \in Int, NEW e \in LegExecution,
         NEW proven \in BOOLEAN
  PROVE  LET M == WalkForeign(L, leg, e, proven).led
         IN  Passed(L, M) /\ Within(M.share, M.journal)
<1>. DEFINE side == Direction(L.share)
            share == Size(L.share)
            after == (leg + e.delta) * side
            consumed == IF proven /\ e.delta * side < 0
                        THEN Smaller(share, Pos(share - after)) ELSE 0
            doubtful == consumed - Smaller(consumed, Pos(share - L.doubt - after))
            N == [L EXCEPT !.share = @ - consumed * side, !.doubt = Pos(@ - doubtful)]
            taken1 == TakeJournal(N, consumed, side)
            credited == AddCredit(taken1, L.doubtSeq, doubtful, side)
            booked == CapDoubt(credited)
<1>1. side \in {0, 1, -1} /\ share \in Nat /\ L.share \in Int /\ L.journal \in Int
      /\ L.doubt \in Int /\ L.doubtSeq \in Int /\ leg + e.delta \in Int
  BY LegFigures DEF Direction, Size, LegExecution
<1>2. after \in Int
  BY <1>1
<1>. HIDE DEF after
<1>3. consumed \in Int /\ 0 <= consumed /\ consumed <= share
  <2>. HIDE DEF share
  <2>. QED  BY <1>1, <1>2 DEF Smaller, Pos, Larger
<1>. HIDE DEF consumed
<1>4. doubtful \in Int
  <2>. HIDE DEF share
  <2>. QED  BY <1>1, <1>2, <1>3 DEF Smaller, Pos, Larger
<1>. HIDE DEF doubtful
<1>5. /\ L.share - consumed * side \in Int
      /\ side = 1 => /\ L.share > 0 /\ share = L.share
                      /\ L.share - consumed * side = L.share - consumed
      /\ side = -1 => /\ L.share < 0 /\ share = -L.share
                       /\ L.share - consumed * side = L.share + consumed
      /\ side = 0 => L.share = 0 /\ L.share - consumed * side = 0
  BY <1>1, <1>3 DEF Direction, Size
<1>. HIDE DEF side, share
<1>6. Passed(L, N) /\ N.share = L.share - consumed * side /\ N.journal = L.journal
  <2>1. \A s \in Sides : L.room[s] \in Int
    BY DEF Ledger
  <2>2. Pos(L.doubt - doubtful) \in Int
    BY <1>1, <1>4 DEF Pos, Larger
  <2>. DEFINE rest == L.share - consumed * side
              doubt == Pos(L.doubt - doubtful)
  <2>3. N = [L EXCEPT !.share = rest, !.doubt = doubt]
    OBVIOUS
  <2>. HIDE DEF rest, doubt, N
  <2>4. rest \in Int /\ doubt \in Int
    BY <1>5, <2>2 DEF rest, doubt
  <2>5. /\ N \in Ledger /\ N.share = rest /\ N.journal = L.journal
        /\ N.views = L.views /\ N.events = L.events /\ N.leg = L.leg /\ N.room = L.room
        /\ N.cursor = L.cursor /\ N.anchor = L.anchor /\ N.blind = L.blind
    BY <2>3, <2>4 DEF Ledger
  <2>. QED  BY <2>1, <2>5 DEF Passed, rest
<1>. HIDE DEF N
<1>7. Alike(N, taken1) /\ taken1.share = N.share
      /\ (side = 0 => taken1.journal = N.journal)
      /\ (side = 1 => taken1.journal = N.journal - consumed)
      /\ (side = -1 => taken1.journal = N.journal + consumed)
  BY <1>1, <1>3, <1>6, JournalTaken DEF Passed
<1>8. Within(taken1.share, taken1.journal)
  BY <1>1, <1>3, <1>5, <1>6, <1>7 DEF Within
<1>. HIDE DEF taken1
<1>9. Matching(taken1, credited)
  BY <1>1, <1>4, <1>7, CreditAdded DEF Alike
<1>. HIDE DEF credited
<1>10. Matching(credited, booked)
  BY <1>9, DoubtCapped DEF Matching, Alike
<1>. HIDE DEF booked
<1>11. Passed(L, booked) /\ booked.share = taken1.share /\ booked.journal = taken1.journal
  <2>1. Passed(N, booked)
    BY <1>6, <1>7, <1>9, <1>10, AlikePassed, PassedOn DEF Matching, Alike, Passed
  <2>. QED  BY <1>6, <1>9, <1>10, <2>1, PassedOn DEF Matching
<1>12. WalkForeign(L, leg, e, proven).led = NoteRoomIf(proven, booked, leg + e.delta)
  BY DEF WalkForeign, booked, credited, taken1, N, doubtful, consumed, after, share, side
<1>13. Passed(booked, NoteRoomIf(proven, booked, leg + e.delta))
       /\ NoteRoomIf(proven, booked, leg + e.delta).share = booked.share
       /\ NoteRoomIf(proven, booked, leg + e.delta).journal = booked.journal
  <2>1. booked \in Ledger
    BY <1>11 DEF Passed
  <2>. QED  BY <1>1, <2>1, RoomNotedIf DEF SameFigures
<1>. QED  BY <1>8, <1>11, <1>12, <1>13, PassedOn

(***************************************************************************)
(* Lists in seq order.                                                     *)
(***************************************************************************)
\* Executions told apart by their seq.
Distinct(S) ==
    /\ IsFiniteSet(S)
    /\ \A e \in S : e.seq \in Int /\ e.id = e.seq
    /\ \A e, f \in S : e.seq = f.seq => e = f

LEMMA SomeLargest ==
  ASSUME NEW S, IsFiniteSet(S), S # {}, NEW g, \A e \in S : g[e] \in Int
  PROVE  \E e \in S : \A f \in S : g[f] <= g[e]
<1>. DEFINE G == {n \in Nat : \A T \in SUBSET S : T # {} /\ Cardinality(T) <= n =>
                                 \E e \in T : \A f \in T : g[f] <= g[e]}
<1>1. \A T \in SUBSET S : IsFiniteSet(T) /\ Cardinality(T) \in Nat
  BY FS_Subset, FS_CardinalityType
<1>2. 0 \in G
  <2>1. \A T \in SUBSET S : Cardinality(T) <= 0 => T = {}
    BY <1>1, FS_EmptySet
  <2>. QED  BY <2>1
<1>3. ASSUME NEW n \in Nat, n \in G
      PROVE  n + 1 \in G
  <2>. SUFFICES ASSUME NEW T \in SUBSET S, T # {}, Cardinality(T) <= n + 1
                PROVE  \E e \in T : \A f \in T : g[f] <= g[e]
    OBVIOUS
  <2>1. PICK x \in T : TRUE
    OBVIOUS
  <2>2. CASE T = {x}
    BY <2>2
  <2>3. CASE T # {x}
    <3>1. T \ {x} # {} /\ T \ {x} \in SUBSET S
      BY <2>1, <2>3
    <3>2. Cardinality(T \ {x}) <= n
      BY <1>1, <2>1, FS_RemoveElement
    <3>3. PICK m \in T \ {x} : \A f \in T \ {x} : g[f] <= g[m]
      BY <1>3, <3>1, <3>2
    <3>4. g[x] \in Int /\ g[m] \in Int
      OBVIOUS
    <3>5. CASE g[x] <= g[m]
      BY <3>3, <3>5
    <3>6. CASE ~(g[x] <= g[m])
      <4>1. \A f \in T : g[f] <= g[x]
        BY <3>3, <3>4, <3>6
      <4>. QED  BY <2>1, <4>1
    <3>. QED  BY <3>5, <3>6
  <2>. QED  BY <2>2, <2>3
<1>. HIDE DEF G
<1>4. Cardinality(S) \in G
  BY <1>1, <1>2, <1>3, EveryNat
<1>. QED  BY <1>1, <1>4 DEF G

LEMMA SomeLatest ==
  ASSUME NEW S, IsFiniteSet(S), S # {}, \A e \in S : e.seq \in Int
  PROVE  \E e \in S : \A f \in S : f.seq <= e.seq
<1>. DEFINE g == [e \in S |-> e.seq]
<1>1. \A e \in S : g[e] = e.seq
  OBVIOUS
<1>. HIDE DEF g
<1>2. \E e \in S : \A f \in S : g[f] <= g[e]
  BY <1>1, SomeLargest
<1>. QED  BY <1>1, <1>2

LEMMA SomeEarliest ==
  ASSUME NEW S, IsFiniteSet(S), S # {}, \A e \in S : e.seq \in Int
  PROVE  \E e \in S : \A f \in S : e.seq <= f.seq
<1>. DEFINE g == [e \in S |-> -e.seq]
<1>1. \A e \in S : g[e] = -e.seq /\ g[e] \in Int
  OBVIOUS
<1>. HIDE DEF g
<1>2. PICK e \in S : \A f \in S : g[f] <= g[e]
  BY <1>1, SomeLargest
<1>3. \A f \in S : e.seq <= f.seq
  BY <1>1, <1>2
<1>. QED  BY <1>3

LEMMA LeastExists ==
  ASSUME NEW S, S \subseteq Nat, S # {}
  PROVE  Min(S) \in S /\ \A y \in S : Min(S) <= y
<1>. DEFINE G == {n \in Nat : (\E x \in S : x <= n) => \E x \in S : \A y \in S : x <= y}
<1>1. 0 \in G
  <2>. SUFFICES ASSUME NEW x \in S, x <= 0
                PROVE  \E z \in S : \A y \in S : z <= y
    OBVIOUS
  <2>1. \A y \in S : x <= y
    OBVIOUS
  <2>. QED  BY <2>1
<1>2. ASSUME NEW n \in Nat, n \in G
      PROVE  n + 1 \in G
  <2>. SUFFICES ASSUME NEW x \in S, x <= n + 1, ~\E z \in S : z <= n
                PROVE  \E z \in S : \A y \in S : z <= y
    BY <1>2
  <2>1. \A y \in S : y >= n + 1
    OBVIOUS
  <2>. QED  BY <2>1
<1>3. PICK m \in S : TRUE
  OBVIOUS
<1>4. m \in G
  <2>. HIDE DEF G
  <2>. QED  BY <1>1, <1>2, <1>3, EveryNat
<1>5. \E x \in S : \A y \in S : x <= y
  BY <1>3, <1>4
<1>. QED  BY <1>5 DEF Min

InSeqOrder(S, s) ==
    /\ s \in [1 .. Cardinality(S) -> S]
    /\ \A i, j \in 1 .. Cardinality(S) : i < j => s[i].seq < s[j].seq

LEMMA SeqOrderExists ==
  ASSUME NEW S, Distinct(S)
  PROVE  \E s : InSeqOrder(S, s)
<1>. DEFINE G == {n \in Nat : \A T \in SUBSET S : Cardinality(T) = n => \E s : InSeqOrder(T, s)}
<1>1. \A T \in SUBSET S : IsFiniteSet(T) /\ Cardinality(T) \in Nat
  BY FS_Subset, FS_CardinalityType DEF Distinct
<1>2. 0 \in G
  <2>. SUFFICES ASSUME NEW T \in SUBSET S, Cardinality(T) = 0
                PROVE  \E s : InSeqOrder(T, s)
    OBVIOUS
  <2>1. 1 .. Cardinality(T) = {}
    OBVIOUS
  <2>2. [i \in {} |-> i] \in [1 .. Cardinality(T) -> T]
    BY <2>1
  <2>. QED  BY <2>1, <2>2 DEF InSeqOrder
<1>3. ASSUME NEW n \in Nat, n \in G
      PROVE  n + 1 \in G
  <2>. SUFFICES ASSUME NEW T \in SUBSET S, Cardinality(T) = n + 1
                PROVE  \E s : InSeqOrder(T, s)
    OBVIOUS
  <2>1. T # {} /\ \A e \in T : e.seq \in Int
    BY <1>1, FS_EmptySet DEF Distinct
  <2>2. PICK m \in T : \A f \in T : f.seq <= m.seq
    BY <1>1, <2>1, SomeLatest
  <2>. DEFINE U == T \ {m}
  <2>3. U \in SUBSET S /\ Cardinality(U) = n
    <3>1. IsFiniteSet(T) /\ Cardinality(T \ {m}) = Cardinality(T) - 1
      BY <1>1, <2>2, FS_RemoveElement
    <3>. QED  BY <3>1
  <2>4. \A f \in U : f.seq < m.seq
    BY <2>1, <2>2 DEF Distinct
  <2>5. PICK t : InSeqOrder(U, t)
    BY <1>3, <2>3
  <2>. HIDE DEF U
  <2>. DEFINE s == [i \in 1 .. n + 1 |-> IF i = n + 1 THEN m ELSE t[i]]
  <2>6. \A i \in 1 .. n : t[i] \in U /\ t[i] \in T
    BY <2>3, <2>5 DEF InSeqOrder, U
  <2>7. s \in [1 .. n + 1 -> T]
    BY <2>2, <2>6
  <2>8. \A i, j \in 1 .. n + 1 : i < j => s[i].seq < s[j].seq
    <3>. SUFFICES ASSUME NEW i \in 1 .. n + 1, NEW j \in 1 .. n + 1, i < j
                  PROVE  s[i].seq < s[j].seq
      OBVIOUS
    <3>1. i \in 1 .. n /\ s[i] = t[i]
      OBVIOUS
    <3>2. CASE j = n + 1
      BY <2>4, <2>6, <3>1, <3>2
    <3>3. CASE j # n + 1
      <4>1. j \in 1 .. n /\ s[j] = t[j]
        BY <3>3
      <4>. QED  BY <2>3, <2>5, <3>1, <4>1 DEF InSeqOrder
    <3>. QED  BY <3>2, <3>3
  <2>. QED  BY <2>7, <2>8 DEF InSeqOrder
<1>. HIDE DEF G
<1>4. Cardinality(S) \in G
  BY <1>1, <1>2, <1>3, EveryNat
<1>. QED  BY <1>1, <1>4 DEF G

\* Such a list names every execution.
LEMMA SeqOrderNamesAll ==
  ASSUME NEW S, Distinct(S), NEW s, InSeqOrder(S, s)
  PROVE  /\ s \in Seq(S) /\ Len(s) = Cardinality(S) /\ Len(s) \in Nat
         /\ \A e \in S : \E i \in 1 .. Len(s) : s[i] = e
<1>. DEFINE n == Cardinality(S)
<1>1. n \in Nat
  BY FS_CardinalityType DEF Distinct
<1>2. s \in [1 .. n -> S] /\ \A i, j \in 1 .. n : i < j => s[i].seq < s[j].seq
  BY DEF InSeqOrder
<1>. HIDE DEF n
<1>3. s \in Seq(S) /\ Len(s) = n
  BY <1>1, <1>2
<1>4. \A i, j \in 1 .. n : s[i] = s[j] => i = j
  <2>. SUFFICES ASSUME NEW i \in 1 .. n, NEW j \in 1 .. n, s[i] = s[j], i < j
                PROVE  FALSE
    BY <1>1
  <2>1. s[i].seq < s[j].seq /\ s[i].seq \in Int
    BY <1>2 DEF Distinct
  <2>. QED  BY <2>1
<1>5. s \in Injection(1 .. n, S)
  BY <1>2, <1>4 DEF Injection, IsInjective
<1>6. Cardinality(1 .. n) = n
  BY <1>1, FS_Interval
<1>7. s \in Surjection(1 .. n, S)
  BY <1>5, <1>6, FS_Injection DEF n, Distinct
<1>. QED  BY <1>1, <1>3, <1>7 DEF Surjection, n

LEMMA DueIsListed ==
  ASSUME NEW L, Distinct(L.events), NEW upTo
  PROVE  Distinct(Due(L, upTo)) /\ InSeqOrder(Due(L, upTo), DueInOrder(L, upTo))
<1>. DEFINE S == Due(L, upTo)
            before(e, f) == \/ e.seq < f.seq
                            \/ e.seq = f.seq /\ Rank(L, e) < Rank(L, f)
                            \/ e.seq = f.seq /\ Rank(L, e) = Rank(L, f) /\ e.id < f.id
            Good(s) == s \in [1 .. Cardinality(S) -> S]
                       /\ \A i, j \in DOMAIN s : i < j => before(s[i], s[j])
<1>1. Distinct(S)
  BY FS_Subset DEF Due, Distinct
<1>. HIDE DEF S
<1>2. \A e, f \in S : before(e, f) => e.seq < f.seq
  <2>. SUFFICES ASSUME NEW e \in S, NEW f \in S, before(e, f)
                PROVE  e.seq < f.seq
    OBVIOUS
  <2>1. Rank(L, e) \in {0, 1, 2} /\ e.id \in Int /\ (e.seq = f.seq => e = f)
    BY <1>1 DEF Rank, Distinct
  <2>2. e = f => ~(Rank(L, e) < Rank(L, f)) /\ ~(e.id < f.id)
    BY <2>1
  <2>. QED  BY <2>1, <2>2
<1>3. PICK t : InSeqOrder(S, t)
  BY <1>1, SeqOrderExists
<1>4. Good(t)
  BY <1>3 DEF InSeqOrder
<1>5. DueInOrder(L, upTo) = CHOOSE s \in [1 .. Cardinality(S) -> S] :
                               \A i, j \in DOMAIN s : i < j => before(s[i], s[j])
  BY DEF DueInOrder, Listed, S
<1>. HIDE DEF before
<1>6. Good(DueInOrder(L, upTo))
  BY <1>4, <1>5
<1>7. InSeqOrder(S, DueInOrder(L, upTo))
  <2>. DEFINE s == DueInOrder(L, upTo)
  <2>. HIDE DEF s
  <2>1. s \in [1 .. Cardinality(S) -> S] /\ \A i, j \in DOMAIN s : i < j => before(s[i], s[j])
    BY <1>6 DEF s
  <2>2. \A i, j \in 1 .. Cardinality(S) : i < j => s[i].seq < s[j].seq
    <3>. SUFFICES ASSUME NEW i \in 1 .. Cardinality(S), NEW j \in 1 .. Cardinality(S), i < j
                  PROVE  s[i].seq < s[j].seq
      OBVIOUS
    <3>1. s[i] \in S /\ s[j] \in S /\ before(s[i], s[j])
      BY <2>1
    <3>. QED  BY <1>2, <3>1
  <2>. QED  BY <2>1, <2>2 DEF InSeqOrder, s
<1>. QED  BY <1>1, <1>7 DEF S

LEMMA BatchIsListed ==
  ASSUME NEW S, Distinct(S)
  PROVE  InSeqOrder(S, InOrder(S))
<1>1. PICK t : InSeqOrder(S, t)
  BY SeqOrderExists
<1>2. DOMAIN t = 1 .. Cardinality(S)
  BY <1>1 DEF InSeqOrder
<1>3. InOrder(S) = CHOOSE s \in [1 .. Cardinality(S) -> S] :
                      \A i, j \in DOMAIN s : i < j => s[i].seq < s[j].seq
  BY DEF InOrder, Listed
<1>4. InOrder(S) \in [1 .. Cardinality(S) -> S]
      /\ \A i, j \in DOMAIN InOrder(S) : i < j => InOrder(S)[i].seq < InOrder(S)[j].seq
  BY <1>1, <1>2, <1>3 DEF InSeqOrder
<1>. QED  BY <1>4 DEF InSeqOrder

(***************************************************************************)
(* The recursive functions of the ledger, step by step.                    *)
(***************************************************************************)
\* A walk goes execution by execution.
LEMMA WalkStepwise ==
  ASSUME NEW L, NEW list, NEW proven, Len(list) \in Nat,
         NEW F, F = WalkSteps(L, list, proven)
  PROVE  /\ F[0] = [led |-> L, leg |-> L.leg, out |-> <<>>]
         /\ \A n \in 1 .. Len(list) : F[n] = WalkOne(F[n - 1], list[n], proven)
<1>. DEFINE m == Len(list)
            Val(g, n) == IF n = 0 THEN [led |-> L, leg |-> L.leg, out |-> <<>>]
                         ELSE WalkOne(g[n - 1], list[n], proven)
            On(k, g) == g = [n \in 0 .. k |-> Val(g, n)]
            G == {k \in Nat : \E g : On(k, g)}
<1>1. \A g, h : \A n \in Nat : (n # 0 => g[n - 1] = h[n - 1]) => Val(g, n) = Val(h, n)
  OBVIOUS
<1>2. F = CHOOSE g : On(m, g)
  BY DEF WalkSteps
<1>3. \A n \in Nat : n # 0 => Val(F, n) = WalkOne(F[n - 1], list[n], proven)
  OBVIOUS
<1>4. Val(F, 0) = [led |-> L, leg |-> L.leg, out |-> <<>>]
  OBVIOUS
<1>. HIDE DEF Val
<1>5. 0 \in G
  <2>. DEFINE g == [n \in 0 .. 0 |-> Val(F, 0)]
  <2>1. \A n \in 0 .. 0 : Val(g, n) = Val(F, 0)
    BY <1>1
  <2>2. On(0, g)
    BY <2>1
  <2>. QED  BY <2>2
<1>6. ASSUME NEW k \in Nat, k \in G
      PROVE  k + 1 \in G
  <2>1. PICK g : On(k, g)
    BY <1>6
  <2>. DEFINE h == [n \in 0 .. k + 1 |-> Val(g, n)]
  <2>2. \A n \in 0 .. k : h[n] = g[n]
    <3>1. \A n \in 0 .. k : g[n] = Val(g, n)
      BY <2>1
    <3>. QED  BY <3>1
  <2>3. \A n \in 0 .. k + 1 : n \in Nat /\ (n # 0 => n - 1 \in 0 .. k)
    OBVIOUS
  <2>. HIDE DEF h
  <2>4. \A n \in 0 .. k + 1 : Val(h, n) = Val(g, n)
    BY <1>1, <2>2, <2>3
  <2>5. On(k + 1, h)
    BY <2>4 DEF h
  <2>. QED  BY <2>5
<1>7. m \in G
  <2>. HIDE DEF G
  <2>. QED  BY <1>5, <1>6, EveryNat
<1>8. On(m, F)
  BY <1>2, <1>7
<1>9. \A n \in 0 .. m : F[n] = Val(F, n)
  BY <1>8
<1>10. \A n \in 1 .. m : n \in 0 .. m /\ n \in Nat /\ n # 0
  OBVIOUS
<1>. HIDE DEF On, G
<1>11. F[0] = Val(F, 0)
  BY <1>9
<1>. QED  BY <1>3, <1>4, <1>9, <1>10, <1>11

\* Gaps are settled one by one.
LEMMA SettleStepwise ==
  ASSUME NEW L, NEW seqs, Len(L.gaps) \in Nat,
         NEW F, F = SettleSteps(L, seqs)
  PROVE  /\ F[0] = [led |-> L, out |-> <<>>]
         /\ \A n \in 1 .. Len(L.gaps) : F[n] = SettleGap(F[n - 1], L.gaps[n], seqs)
<1>. DEFINE m == Len(L.gaps)
            Val(g, n) == IF n = 0 THEN [led |-> L, out |-> <<>>]
                         ELSE SettleGap(g[n - 1], L.gaps[n], seqs)
            On(k, g) == g = [n \in 0 .. k |-> Val(g, n)]
            G == {k \in Nat : \E g : On(k, g)}
<1>1. \A g, h : \A n \in Nat : (n # 0 => g[n - 1] = h[n - 1]) => Val(g, n) = Val(h, n)
  OBVIOUS
<1>2. F = CHOOSE g : On(m, g)
  BY DEF SettleSteps
<1>3. \A n \in Nat : n # 0 => Val(F, n) = SettleGap(F[n - 1], L.gaps[n], seqs)
  OBVIOUS
<1>4. Val(F, 0) = [led |-> L, out |-> <<>>]
  OBVIOUS
<1>. HIDE DEF Val
<1>5. 0 \in G
  <2>. DEFINE g == [n \in 0 .. 0 |-> Val(F, 0)]
  <2>1. \A n \in 0 .. 0 : Val(g, n) = Val(F, 0)
    BY <1>1
  <2>2. On(0, g)
    BY <2>1
  <2>. QED  BY <2>2
<1>6. ASSUME NEW k \in Nat, k \in G
      PROVE  k + 1 \in G
  <2>1. PICK g : On(k, g)
    BY <1>6
  <2>. DEFINE h == [n \in 0 .. k + 1 |-> Val(g, n)]
  <2>2. \A n \in 0 .. k : h[n] = g[n]
    <3>1. \A n \in 0 .. k : g[n] = Val(g, n)
      BY <2>1
    <3>. QED  BY <3>1
  <2>3. \A n \in 0 .. k + 1 : n \in Nat /\ (n # 0 => n - 1 \in 0 .. k)
    OBVIOUS
  <2>. HIDE DEF h
  <2>4. \A n \in 0 .. k + 1 : Val(h, n) = Val(g, n)
    BY <1>1, <2>2, <2>3
  <2>5. On(k + 1, h)
    BY <2>4 DEF h
  <2>. QED  BY <2>5
<1>7. m \in G
  <2>. HIDE DEF G
  <2>. QED  BY <1>5, <1>6, EveryNat
<1>8. On(m, F)
  BY <1>2, <1>7
<1>9. \A n \in 0 .. m : F[n] = Val(F, n)
  BY <1>8
<1>10. \A n \in 1 .. m : n \in 0 .. m /\ n \in Nat /\ n # 0
  OBVIOUS
<1>. HIDE DEF On, G
<1>11. F[0] = Val(F, 0)
  BY <1>9
<1>. QED  BY <1>3, <1>4, <1>9, <1>10, <1>11

\* A judgement goes round by round.
LEMMA JudgeStepwise ==
  ASSUME NEW settled, NEW seqs, NEW provable, NEW expired, Rounds(settled.led) \in Nat,
         NEW F, F = JudgeRounds(settled, seqs, provable, expired)
  PROVE  /\ F[0] = [led |-> settled.led, out |-> settled.out, done |-> FALSE]
         /\ \A n \in 1 .. Rounds(settled.led) :
               F[n] = AdvanceRound(F[n - 1], seqs, provable, expired)
<1>. DEFINE m == Rounds(settled.led)
            Val(g, n) == IF n = 0 THEN [led |-> settled.led, out |-> settled.out, done |-> FALSE]
                         ELSE AdvanceRound(g[n - 1], seqs, provable, expired)
            On(k, g) == g = [n \in 0 .. k |-> Val(g, n)]
            G == {k \in Nat : \E g : On(k, g)}
<1>1. \A g, h : \A n \in Nat : (n # 0 => g[n - 1] = h[n - 1]) => Val(g, n) = Val(h, n)
  OBVIOUS
<1>2. F = CHOOSE g : On(m, g)
  BY DEF JudgeRounds
<1>3. \A n \in Nat : n # 0 => Val(F, n) = AdvanceRound(F[n - 1], seqs, provable, expired)
  OBVIOUS
<1>4. Val(F, 0) = [led |-> settled.led, out |-> settled.out, done |-> FALSE]
  OBVIOUS
<1>. HIDE DEF Val
<1>5. 0 \in G
  <2>. DEFINE g == [n \in 0 .. 0 |-> Val(F, 0)]
  <2>1. \A n \in 0 .. 0 : Val(g, n) = Val(F, 0)
    BY <1>1
  <2>2. On(0, g)
    BY <2>1
  <2>. QED  BY <2>2
<1>6. ASSUME NEW k \in Nat, k \in G
      PROVE  k + 1 \in G
  <2>1. PICK g : On(k, g)
    BY <1>6
  <2>. DEFINE h == [n \in 0 .. k + 1 |-> Val(g, n)]
  <2>2. \A n \in 0 .. k : h[n] = g[n]
    <3>1. \A n \in 0 .. k : g[n] = Val(g, n)
      BY <2>1
    <3>. QED  BY <3>1
  <2>3. \A n \in 0 .. k + 1 : n \in Nat /\ (n # 0 => n - 1 \in 0 .. k)
    OBVIOUS
  <2>. HIDE DEF h
  <2>4. \A n \in 0 .. k + 1 : Val(h, n) = Val(g, n)
    BY <1>1, <2>2, <2>3
  <2>5. On(k + 1, h)
    BY <2>4 DEF h
  <2>. QED  BY <2>5
<1>7. m \in G
  <2>. HIDE DEF G
  <2>. QED  BY <1>5, <1>6, EveryNat
<1>8. On(m, F)
  BY <1>2, <1>7
<1>9. \A n \in 0 .. m : F[n] = Val(F, n)
  BY <1>8
<1>10. \A n \in 1 .. m : n \in 0 .. m /\ n \in Nat /\ n # 0
  OBVIOUS
<1>. HIDE DEF On, G
<1>11. F[0] = Val(F, 0)
  BY <1>9
<1>. QED  BY <1>3, <1>4, <1>9, <1>10, <1>11

\* Credits are used one by one.
LEMMA CreditStepwise ==
  ASSUME NEW credits, NEW seq, NEW quantity, NEW side, Len(credits) \in Nat,
         NEW F, F = CreditSteps(credits, seq, quantity, side)
  PROVE  /\ F[0] = [left |-> <<>>, taken |-> 0]
         /\ \A n \in 1 .. Len(credits) : F[n] = UseCredit(F[n - 1], credits[n], seq, quantity, side)
<1>. DEFINE m == Len(credits)
            Val(g, n) == IF n = 0 THEN [left |-> <<>>, taken |-> 0]
                         ELSE UseCredit(g[n - 1], credits[n], seq, quantity, side)
            On(k, g) == g = [n \in 0 .. k |-> Val(g, n)]
            G == {k \in Nat : \E g : On(k, g)}
<1>1. \A g, h : \A n \in Nat : (n # 0 => g[n - 1] = h[n - 1]) => Val(g, n) = Val(h, n)
  OBVIOUS
<1>2. F = CHOOSE g : On(m, g)
  BY DEF CreditSteps
<1>3. \A n \in Nat : n # 0 => Val(F, n) = UseCredit(F[n - 1], credits[n], seq, quantity, side)
  OBVIOUS
<1>4. Val(F, 0) = [left |-> <<>>, taken |-> 0]
  OBVIOUS
<1>. HIDE DEF Val
<1>5. 0 \in G
  <2>. DEFINE g == [n \in 0 .. 0 |-> Val(F, 0)]
  <2>1. \A n \in 0 .. 0 : Val(g, n) = Val(F, 0)
    BY <1>1
  <2>2. On(0, g)
    BY <2>1
  <2>. QED  BY <2>2
<1>6. ASSUME NEW k \in Nat, k \in G
      PROVE  k + 1 \in G
  <2>1. PICK g : On(k, g)
    BY <1>6
  <2>. DEFINE h == [n \in 0 .. k + 1 |-> Val(g, n)]
  <2>2. \A n \in 0 .. k : h[n] = g[n]
    <3>1. \A n \in 0 .. k : g[n] = Val(g, n)
      BY <2>1
    <3>. QED  BY <3>1
  <2>3. \A n \in 0 .. k + 1 : n \in Nat /\ (n # 0 => n - 1 \in 0 .. k)
    OBVIOUS
  <2>. HIDE DEF h
  <2>4. \A n \in 0 .. k + 1 : Val(h, n) = Val(g, n)
    BY <1>1, <2>2, <2>3
  <2>5. On(k + 1, h)
    BY <2>4 DEF h
  <2>. QED  BY <2>5
<1>7. m \in G
  <2>. HIDE DEF G
  <2>. QED  BY <1>5, <1>6, EveryNat
<1>8. On(m, F)
  BY <1>2, <1>7
<1>9. \A n \in 0 .. m : F[n] = Val(F, n)
  BY <1>8
<1>10. \A n \in 1 .. m : n \in 0 .. m /\ n \in Nat /\ n # 0
  OBVIOUS
<1>. HIDE DEF On, G
<1>11. F[0] = Val(F, 0)
  BY <1>9
<1>. QED  BY <1>3, <1>4, <1>9, <1>10, <1>11

\* A batch is noted execution by execution.
LEMMA NoteStepwise ==
  ASSUME NEW D, NEW list, Len(list) \in Nat,
         NEW F, F = NoteSteps(D, list)
  PROVE  /\ F[0] = D
         /\ \A n \in 1 .. Len(list) : F[n] = Note(F[n - 1], list[n])
<1>. DEFINE m == Len(list)
            Val(g, n) == IF n = 0 THEN D
                         ELSE Note(g[n - 1], list[n])
            On(k, g) == g = [n \in 0 .. k |-> Val(g, n)]
            G == {k \in Nat : \E g : On(k, g)}
<1>1. \A g, h : \A n \in Nat : (n # 0 => g[n - 1] = h[n - 1]) => Val(g, n) = Val(h, n)
  OBVIOUS
<1>2. F = CHOOSE g : On(m, g)
  BY DEF NoteSteps
<1>3. \A n \in Nat : n # 0 => Val(F, n) = Note(F[n - 1], list[n])
  OBVIOUS
<1>4. Val(F, 0) = D
  OBVIOUS
<1>. HIDE DEF Val
<1>5. 0 \in G
  <2>. DEFINE g == [n \in 0 .. 0 |-> Val(F, 0)]
  <2>1. \A n \in 0 .. 0 : Val(g, n) = Val(F, 0)
    BY <1>1
  <2>2. On(0, g)
    BY <2>1
  <2>. QED  BY <2>2
<1>6. ASSUME NEW k \in Nat, k \in G
      PROVE  k + 1 \in G
  <2>1. PICK g : On(k, g)
    BY <1>6
  <2>. DEFINE h == [n \in 0 .. k + 1 |-> Val(g, n)]
  <2>2. \A n \in 0 .. k : h[n] = g[n]
    <3>1. \A n \in 0 .. k : g[n] = Val(g, n)
      BY <2>1
    <3>. QED  BY <3>1
  <2>3. \A n \in 0 .. k + 1 : n \in Nat /\ (n # 0 => n - 1 \in 0 .. k)
    OBVIOUS
  <2>. HIDE DEF h
  <2>4. \A n \in 0 .. k + 1 : Val(h, n) = Val(g, n)
    BY <1>1, <2>2, <2>3
  <2>5. On(k + 1, h)
    BY <2>4 DEF h
  <2>. QED  BY <2>5
<1>7. m \in G
  <2>. HIDE DEF G
  <2>. QED  BY <1>5, <1>6, EveryNat
<1>8. On(m, F)
  BY <1>2, <1>7
<1>9. \A n \in 0 .. m : F[n] = Val(F, n)
  BY <1>8
<1>10. \A n \in 1 .. m : n \in 0 .. m /\ n \in Nat /\ n # 0
  OBVIOUS
<1>. HIDE DEF On, G
<1>11. F[0] = Val(F, 0)
  BY <1>9
<1>. QED  BY <1>3, <1>4, <1>9, <1>10, <1>11

(***************************************************************************)
(* A walk, and the judgement, keep the share in its bounds.                *)
(***************************************************************************)
BoundsOk(L) ==
    /\ 0 <= L.share /\ L.share <= L.leg /\ L.share <= Pos(L.journal)
    /\ L.room[1] <= L.leg - L.share /\ L.room[-1] <= 0

ListsOk(L) == Distinct(L.events) /\ IsFiniteSet(L.views)
LedgerOk(L) == L \in Ledger /\ ListsOk(L) /\ (Started(L) => BoundsOk(L))

LEMMA OneWalked ==
  ASSUME NEW w, w.led \in Ledger, Within(w.led.share, w.led.journal), w.leg \in Int,
         NEW e \in LegExecution, NEW proven \in BOOLEAN,
         NEW n, n = WalkOne(w, e, proven)
  PROVE  Passed(w.led, n.led) /\ Within(n.led.share, n.led.journal) /\ n.leg \in Int
<1>. DEFINE leg == w.leg + e.delta
            mine == WalkOwn(w.led, leg, e, proven)
            other == WalkForeign(w.led, w.leg, e, proven)
<1>1. leg \in Int
  BY DEF LegExecution
<1>2. n.leg = leg /\ n.led = IF e.own THEN mine.led ELSE other.led
  BY DEF WalkOne, Onwards
<1>3. Passed(w.led, mine.led) /\ Within(mine.led.share, mine.led.journal)
  BY <1>1, OwnWalked
<1>4. Passed(w.led, other.led) /\ Within(other.led.share, other.led.journal)
  BY ForeignWalked
<1>. QED  BY <1>1, <1>2, <1>3, <1>4

LEMMA AllWalked ==
  ASSUME NEW L \in Ledger, Within(L.share, L.journal), NEW list \in Seq(LegExecution),
         NEW proven \in BOOLEAN, NEW w, w = WalkAll(L, list, proven)
  PROVE  Passed(L, w.led) /\ Within(w.led.share, w.led.journal) /\ w.leg \in Int
<1>. DEFINE F == WalkSteps(L, list, proven)
            Fine(x) == Passed(L, x.led) /\ Within(x.led.share, x.led.journal) /\ x.leg \in Int
            G == {n \in Nat : n <= Len(list) => Fine(F[n])}
<1>1. Len(list) \in Nat
  OBVIOUS
<1>. HIDE DEF F
<1>2. /\ F[0] = [led |-> L, leg |-> L.leg, out |-> <<>>]
      /\ \A n \in 1 .. Len(list) : F[n] = WalkOne(F[n - 1], list[n], proven)
  BY <1>1, WalkStepwise DEF F
<1>3. 0 \in G
  <2>1. \A s \in Sides : L.room[s] \in Int
    BY DEF Ledger
  <2>2. Passed(L, L) /\ L.leg \in Int
    BY <2>1, LegFigures DEF Passed
  <2>. QED  BY <1>2, <2>2
<1>4. ASSUME NEW n \in Nat, n \in G
      PROVE  n + 1 \in G
  <2>. SUFFICES ASSUME n + 1 <= Len(list)
                PROVE  Fine(F[n + 1])
    OBVIOUS
  <2>1. Fine(F[n]) /\ n + 1 \in 1 .. Len(list) /\ (n + 1) - 1 = n
    BY <1>1, <1>4
  <2>2. F[n + 1] = WalkOne(F[n], list[n + 1], proven) /\ list[n + 1] \in LegExecution
    BY <1>2, <2>1
  <2>3. F[n].led \in Ledger
    BY <2>1 DEF Passed
  <2>4. Passed(F[n].led, F[n + 1].led) /\ Within(F[n + 1].led.share, F[n + 1].led.journal)
        /\ F[n + 1].leg \in Int
    BY <2>1, <2>2, <2>3, OneWalked
  <2>. QED  BY <2>1, <2>4, PassedOn
<1>5. Len(list) \in G
  <2>. HIDE DEF G
  <2>. QED  BY <1>1, <1>3, <1>4, EveryNat
<1>. QED  BY <1>1, <1>5 DEF WalkAll, F

\* M is L with its cursor on a view; proven, its share is held by the leg.
CursorPlaced(L, view, due, proven, M) ==
    /\ M \in Ledger /\ M.events = L.events \ due /\ M.views \in SUBSET L.views
    /\ M.cursor = view.seq /\ M.leg = view.size
    /\ M.anchor = L.anchor /\ M.blind = L.blind
    /\ Within(M.share, M.journal)
    /\ \A s \in Sides : M.room[s] <= L.room[s]
    /\ proven => /\ 0 <= M.share /\ M.share <= M.leg
                 /\ \A s \in Sides : M.room[s] <= Foreign(M.leg, M.share, s)

LEMMA CursorMoved ==
  ASSUME NEW w, w.led \in Ledger, Within(w.led.share, w.led.journal), NEW view \in LegView,
         NEW due, NEW proven \in BOOLEAN
  PROVE  CursorPlaced(w.led, view, due, proven, CursorOnto(w, view, due, proven).led)
<1>. DEFINE M == CursorOnto(w, view, due, proven).led
            L == w.led
            share == IF proven THEN Capped(L.share, view.size) ELSE L.share
            events == L.events \ due
            views == {v \in L.views : v.seq >= view.seq}
            N == [L EXCEPT !.events = events, !.views = views, !.cursor = view.seq,
                           !.leg = view.size, !.share = share]
<1>1. view.seq \in Int /\ view.size \in Int /\ view.size >= 0
  BY DEF LegView
<1>2. L \in Ledger /\ L.share \in Int /\ L.journal \in Int /\ Within(L.share, L.journal)
  BY LegFigures
<1>3. events \in SUBSET LegExecution /\ views \in SUBSET LegView /\ views \in SUBSET L.views
  BY <1>2 DEF Ledger
<1>4. M = NoteRoomIf(proven, CapDoubt(N), view.size)
  BY DEF CursorOnto
<1>. HIDE DEF L, events, views, M
<1>5. /\ share \in Int /\ Within(share, L.journal)
      /\ proven => 0 <= share /\ share <= view.size
  <2>1. /\ Capped(L.share, view.size) \in Int /\ Within(Capped(L.share, view.size), L.journal)
        /\ Capped(L.share, view.size) = Smaller(Pos(L.share), view.size)
    BY <1>1, <1>2, CappedTo
  <2>2. 0 <= Smaller(Pos(L.share), view.size) /\ Smaller(Pos(L.share), view.size) <= view.size
    BY <1>1, <1>2 DEF Smaller, Pos, Larger
  <2>. QED  BY <1>2, <2>1, <2>2
<1>. HIDE DEF share
<1>6. /\ N \in Ledger /\ N.events = events /\ N.views = views /\ N.cursor = view.seq
      /\ N.leg = view.size /\ N.share = share /\ N.journal = L.journal /\ N.room = L.room
      /\ N.anchor = L.anchor /\ N.blind = L.blind
  <2>. DEFINE c == view.seq
              z == view.size
              E == [L EXCEPT !.events = events, !.views = views]
              X == [E EXCEPT !.cursor = c, !.leg = z]
  <2>1. c \in Int /\ z \in Int
    BY <1>1
  <2>. HIDE DEF c, z
  <2>2. E \in Ledger /\ E.events = events /\ E.views = views /\ E.journal = L.journal
        /\ E.room = L.room /\ E.anchor = L.anchor /\ E.blind = L.blind
    BY <1>2, <1>3 DEF Ledger
  <2>3. N = [X EXCEPT !.share = share]
    BY <1>2 DEF Ledger, c, z
  <2>. HIDE DEF E, N
  <2>4. X \in Ledger /\ X.events = events /\ X.views = views /\ X.journal = L.journal
        /\ X.room = L.room /\ X.anchor = L.anchor /\ X.blind = L.blind
        /\ X.cursor = c /\ X.leg = z
    BY <2>1, <2>2 DEF Ledger
  <2>. HIDE DEF X
  <2>5. N \in Ledger /\ N.events = events /\ N.views = views /\ N.journal = L.journal
        /\ N.room = L.room /\ N.anchor = L.anchor /\ N.blind = L.blind
        /\ N.cursor = c /\ N.leg = z /\ N.share = share
    BY <1>5, <2>3, <2>4 DEF Ledger
  <2>. QED  BY <2>5 DEF c, z
<1>. HIDE DEF N
<1>7. Matching(N, CapDoubt(N)) /\ CapDoubt(N) \in Ledger
  BY <1>6, DoubtCapped DEF Matching, Alike
<1>8. /\ Passed(CapDoubt(N), M) /\ SameFigures(CapDoubt(N), M)
      /\ proven => \A s \in Sides : M.room[s] <= Foreign(view.size, CapDoubt(N).share, s)
  BY <1>1, <1>4, <1>7, RoomNotedIf
<1>9. /\ M \in Ledger /\ M.events = events /\ M.views = views /\ M.cursor = view.seq
      /\ M.leg = view.size /\ M.share = share /\ M.journal = L.journal
      /\ M.anchor = L.anchor /\ M.blind = L.blind
      /\ \A s \in Sides : M.room[s] <= L.room[s]
  BY <1>6, <1>7, <1>8 DEF Matching, Alike, Passed, SameFigures
<1>10. proven => \A s \in Sides : M.room[s] <= Foreign(view.size, share, s)
  BY <1>6, <1>7, <1>8 DEF Matching
<1>11. CursorPlaced(L, view, due, proven, M)
  BY <1>3, <1>5, <1>9, <1>10 DEF CursorPlaced, events
<1>. QED  BY <1>11 DEF L, M

\* A walk, proven or not.
LEMMA WalkKeeps ==
  ASSUME NEW L, L \in Ledger, ListsOk(L), BoundsOk(L), NEW view \in LegView,
         NEW proven \in BOOLEAN, NEW M, M = Walk(L, view, proven).led
  PROVE  /\ M \in Ledger /\ ListsOk(M) /\ M.events \in SUBSET L.events
         /\ M.views \in SUBSET L.views
         /\ M.cursor = view.seq /\ M.leg = view.size
         /\ M.anchor = L.anchor /\ M.blind = L.blind
         /\ Within(M.share, M.journal)
         /\ proven => BoundsOk(M)
<1>. DEFINE list == DueInOrder(L, view.seq)
            w == WalkAll(L, list, proven)
<1>1. L.share \in Int /\ L.journal \in Int /\ L.leg \in Int /\ view.size \in Nat
  BY LegFigures DEF LegView
<1>2. Within(L.share, L.journal)
  BY <1>1 DEF BoundsOk, Within, Pos, Larger
<1>3. list \in Seq(LegExecution)
  <2>1. Distinct(Due(L, view.seq)) /\ InSeqOrder(Due(L, view.seq), list)
    BY DueIsListed DEF ListsOk
  <2>2. list \in Seq(Due(L, view.seq))
    BY <2>1, SeqOrderNamesAll
  <2>3. Due(L, view.seq) \subseteq LegExecution
    BY DEF Due, Ledger
  <2>. HIDE DEF list
  <2>. QED  BY <2>2, <2>3
<1>. HIDE DEF list
<1>4. Passed(L, w.led) /\ Within(w.led.share, w.led.journal)
  BY <1>2, <1>3, AllWalked
<1>. HIDE DEF w
<1>5. M = CursorOnto(w, view, Due(L, view.seq), proven).led
  BY DEF Walk, w, list
<1>6. w.led \in Ledger
  BY <1>4 DEF Passed
<1>. DEFINE due == Due(L, view.seq)
<1>. HIDE DEF due
<1>7. CursorPlaced(w.led, view, due, proven, M)
  BY <1>4, <1>5, <1>6, CursorMoved DEF due
<1>8. M.events \in SUBSET L.events /\ M.views \in SUBSET L.views
  BY <1>4, <1>7 DEF Passed, CursorPlaced
<1>9. ListsOk(M)
  BY <1>8, FS_Subset DEF ListsOk, Distinct
<1>10. M.share \in Int /\ M.journal \in Int /\ M.leg \in Int /\ M.room[1] \in Int
       /\ M.room[-1] \in Int
  BY <1>7, LegFigures DEF CursorPlaced
<1>11. ASSUME proven
       PROVE  BoundsOk(M)
  <2>1. 0 <= M.share /\ M.share <= M.leg
        /\ \A s \in Sides : M.room[s] <= Foreign(M.leg, M.share, s)
    BY <1>7, <1>11 DEF CursorPlaced
  <2>2. 1 \in Sides /\ -1 \in Sides
    BY DEF Sides
  <2>3. M.room[1] <= Foreign(M.leg, M.share, 1) /\ M.room[-1] <= Foreign(M.leg, M.share, -1)
    BY <2>1, <2>2
  <2>4. M.leg >= 0 /\ M.share >= 0
    BY <1>10, <2>1
  <2>5. Foreign(M.leg, M.share, 1) = M.leg - M.share /\ Foreign(M.leg, M.share, -1) = 0
    BY <1>10, <2>2, <2>4, RoomOf
  <2>6. Within(M.share, M.journal)
    BY <1>7 DEF CursorPlaced
  <2>7. M.share <= Pos(M.journal)
    BY <1>10, <2>6 DEF Within, Pos, Larger
  <2>. QED  BY <2>1, <2>3, <2>5, <2>7 DEF BoundsOk
<1>12. M.anchor = L.anchor /\ M.blind = L.blind
  BY <1>4, <1>7 DEF Passed, CursorPlaced
<1>. QED  BY <1>7, <1>8, <1>9, <1>11, <1>12 DEF CursorPlaced

(***************************************************************************)
(* The rounds of a judgement.                                              *)
(***************************************************************************)
\* M is what a judgement leaves of L: its bounds kept, no execution or view added.
Judgement(L, M) ==
    /\ M \in Ledger /\ ListsOk(M) /\ BoundsOk(M)
    /\ M.events \in SUBSET L.events /\ M.views \in SUBSET L.views
    /\ M.anchor = L.anchor

LEMMA JudgementOn ==
  ASSUME NEW L, NEW M, NEW N, Judgement(L, M), Judgement(M, N)
  PROVE  Judgement(L, N)
BY DEF Judgement

\* M has no views but those of L, and is anchored as L is or on one of them.
From(L, M) ==
    /\ M.views \subseteq L.views
    /\ M.anchor = L.anchor \/ \E v \in L.views : M.anchor = v.seq

LEMMA FromOn ==
  ASSUME NEW L, NEW M, NEW N, From(L, M), From(M, N)
  PROVE  From(L, N)
BY DEF From

LEMMA FromItself ==
  ASSUME NEW L
  PROVE  From(L, L)
BY DEF From

LEMMA FromJudged ==
  ASSUME NEW L, NEW M, Judgement(L, M) \/ Alike(L, M)
  PROVE  From(L, M)
BY DEF From, Judgement, Alike

\* The share is held and booked, the room starts over.
LEMMA RoomStartsOver ==
  ASSUME NEW L, L \in Ledger, ListsOk(L), NEW leg \in Nat, L.leg = leg, L.share >= 0,
         L.share <= leg, L.share <= Pos(L.journal)
  PROVE  LET M == ResetRoom(L, leg)
         IN  /\ M \in Ledger /\ ListsOk(M) /\ BoundsOk(M)
             /\ M.events = L.events /\ M.views = L.views /\ M.anchor = L.anchor
             /\ M.share = L.share /\ M.journal = L.journal /\ M.leg = leg
             /\ M.blind = L.blind /\ M.cursor = L.cursor
<1>. DEFINE M == ResetRoom(L, leg)
<1>1. Roomed(L, M) /\ \A s \in Sides : M.room[s] = Foreign(leg, L.share, s)
  BY RoomNoted
<1>2. /\ M \in Ledger /\ M.share = L.share /\ M.journal = L.journal
      /\ M.views = L.views /\ M.events = L.events /\ M.leg = L.leg
      /\ M.cursor = L.cursor /\ M.anchor = L.anchor /\ M.blind = L.blind
  BY <1>1, RoomedFields DEF SameFigures
<1>3. L.share \in Int /\ L.journal \in Int /\ 1 \in Sides /\ -1 \in Sides
  BY LegFigures DEF Sides
<1>4. Foreign(leg, L.share, 1) = leg - L.share /\ Foreign(leg, L.share, -1) = 0
  BY <1>3, RoomOf
<1>5. M.room[1] = leg - L.share /\ M.room[-1] = 0
  BY <1>1, <1>3, <1>4
<1>. HIDE DEF M
<1>6. BoundsOk(M)
  BY <1>2, <1>3, <1>5 DEF BoundsOk
<1>7. ListsOk(M)
  BY <1>2 DEF ListsOk
<1>. QED  BY <1>2, <1>6, <1>7 DEF M

\* A step back from an unproven walk: only what the leg holds is kept.
LEMMA ReAnchored ==
  ASSUME NEW L, L \in Ledger, ListsOk(L), BoundsOk(L), NEW first \in LegView, NEW walk,
         walk.led \in Ledger, ListsOk(walk.led),
         walk.led.leg = first.size, Within(walk.led.share, walk.led.journal)
  PROVE  LET M == ReAnchor(L, first, walk).led
         IN  /\ M \in Ledger /\ ListsOk(M) /\ BoundsOk(M)
             /\ M.events = walk.led.events /\ M.views = walk.led.views
             /\ M.anchor = walk.led.anchor
<1>. DEFINE W == walk.led
            side == Direction(W.share)
            before == Size(W.share)
            held == OnSide(first.size, side)
            clamped == IF side # 0 THEN Pos(before - held) ELSE 0
            share == before - clamped
            N == [W EXCEPT !.share = share * side]
            T == TakeJournal(N, clamped, side)
            C == AddCredit(T, first.seq, clamped, side)
            A == AddDoubt(C, first.seq, share)
            gap == [start |-> L.cursor, end |-> first.seq, startLeg |-> L.leg,
                    endLeg |-> first.size, share |-> L.share,
                    journal |-> L.journal, doubt0 |-> L.doubt,
                    events |-> Due(L, first.seq), doubt |-> share,
                    settled |-> FALSE]
            kept == IF share > 0 THEN AddGap(A, gap) ELSE A
            B == [kept EXCEPT !.blind = first.seq]
<1>1. first.seq \in Int /\ first.size \in Int /\ first.size >= 0 /\ first.size \in Nat
      /\ W.share \in Int /\ W.journal \in Int
  BY LegFigures DEF LegView
<1>2. /\ side \in {0, 1, -1} /\ clamped \in Int /\ share \in Int
      /\ 0 <= share * side /\ share * side <= first.size /\ share * side \in Int
      /\ side = 1 => share * side <= W.journal - clamped
      /\ side # 1 => share * side = 0
  <2>1. CASE W.share > 0
    <3>1. side = 1 /\ before = W.share /\ held = first.size /\ W.share <= W.journal
      BY <1>1, <2>1 DEF Direction, Size, OnSide, Pos, Larger, Within
    <3>. HIDE DEF side, before, held
    <3>. QED  BY <1>1, <2>1, <3>1 DEF Pos, Larger
  <2>2. CASE W.share < 0
    <3>1. side = -1 /\ before = -W.share
      BY <1>1, <2>2 DEF Direction, Size
    <3>2. first.size * side = -first.size
      BY <1>1, <3>1
    <3>3. held = 0
      BY <1>1, <3>2 DEF OnSide, Pos, Larger
    <3>. HIDE DEF side, before, held
    <3>4. clamped = before /\ share = 0
      BY <1>1, <2>2, <3>1, <3>3 DEF Pos, Larger
    <3>. QED  BY <1>1, <2>2, <3>1, <3>4
  <2>3. CASE W.share = 0
    <3>1. side = 0 /\ before = 0
      BY <2>3 DEF Direction, Size
    <3>. HIDE DEF side, before
    <3>. QED  BY <1>1, <3>1
  <2>. QED  BY <1>1, <2>1, <2>2, <2>3
<1>. DEFINE rest == share * side
<1>3. gap \in LegGap
  <2>1. Due(L, first.seq) \in SUBSET LegExecution
    BY DEF Due, Ledger
  <2>. QED  BY <1>1, <1>2, <2>1, LegFigures DEF LegGap
<1>4. N = [W EXCEPT !.share = rest]
  OBVIOUS
<1>5. ReAnchor(L, first, walk).led = ResetRoom(B, first.size)
  BY DEF ReAnchor
<1>6. rest \in Int /\ 0 <= rest /\ rest <= first.size
      /\ (side = 1 => rest <= W.journal - clamped) /\ (side # 1 => rest = 0)
  BY <1>2
<1>. HIDE DEF gap, rest, share, clamped, side, N
<1>7. Matching(W, [N EXCEPT !.share = W.share]) /\ N \in Ledger /\ N.share = rest
      /\ N.journal = W.journal /\ Alike(W, N)
  BY <1>4, <1>6 DEF Ledger, Matching, Alike
<1>8. /\ Alike(N, T) /\ T.share = rest /\ T.journal \in Int
      /\ (side = 1 => T.journal = W.journal - clamped)
  <2>1. /\ Alike(N, T) /\ T.share = N.share /\ (side = 1 => T.journal = N.journal - clamped)
    BY <1>2, <1>7, JournalTaken
  <2>2. T \in Ledger
    BY <2>1 DEF Alike
  <2>. HIDE DEF T
  <2>. QED  BY <1>7, <2>1, <2>2, LegFigures
<1>9. rest <= Pos(T.journal)
  BY <1>1, <1>6, <1>8 DEF Pos, Larger
<1>. HIDE DEF T
<1>10. Matching(T, C)
  BY <1>1, <1>2, <1>8, CreditAdded DEF Alike
<1>. HIDE DEF C
<1>11. Matching(C, A)
  BY <1>1, <1>2, <1>10, DoubtAdded DEF Matching, Alike
<1>. HIDE DEF A
<1>12. Matching(A, kept)
  <2>1. A \in Ledger
    BY <1>11 DEF Matching, Alike
  <2>2. Matching(A, A)
    BY <2>1 DEF Matching, Alike
  <2>. QED  BY <1>3, <2>1, <2>2, GapAdded
<1>. HIDE DEF kept
<1>13. /\ kept \in Ledger /\ kept.share = rest /\ kept.journal = T.journal
       /\ kept.leg = first.size /\ kept.events = W.events /\ kept.views = W.views
       /\ kept.anchor = W.anchor
  BY <1>7, <1>8, <1>10, <1>11, <1>12 DEF Matching, Alike
<1>14. /\ B \in Ledger /\ B.share = rest /\ B.journal = T.journal
       /\ B.leg = first.size /\ B.events = W.events /\ B.views = W.views
       /\ B.anchor = W.anchor
  BY <1>1, <1>13 DEF Ledger
<1>. HIDE DEF B
<1>15. ListsOk(B)
  BY <1>14 DEF ListsOk
<1>16. LET M == ResetRoom(B, first.size)
       IN  /\ M \in Ledger /\ ListsOk(M) /\ BoundsOk(M)
           /\ M.events = B.events /\ M.views = B.views /\ M.anchor = B.anchor
  BY <1>1, <1>6, <1>9, <1>14, <1>15, RoomStartsOver
<1>. QED  BY <1>5, <1>14, <1>16

LEMMA GivenUp ==
  ASSUME NEW L, L \in Ledger, ListsOk(L), BoundsOk(L), NEW first \in LegView
  PROVE  Judgement(L, GiveUp(L, first).led)
<1>. DEFINE walk == Walk(L, first, FALSE)
<1>1. /\ walk.led \in Ledger /\ ListsOk(walk.led) /\ walk.led.events \in SUBSET L.events
      /\ walk.led.views \in SUBSET L.views
      /\ walk.led.leg = first.size /\ walk.led.anchor = L.anchor
      /\ Within(walk.led.share, walk.led.journal)
  BY WalkKeeps
<1>. HIDE DEF walk
<1>2. LET M == ReAnchor(L, first, walk).led
      IN  /\ M \in Ledger /\ ListsOk(M) /\ BoundsOk(M)
          /\ M.events = walk.led.events /\ M.views = walk.led.views
          /\ M.anchor = walk.led.anchor
  BY <1>1, ReAnchored
<1>3. GiveUp(L, first) = ReAnchor(L, first, walk)
  BY DEF GiveUp, walk
<1>. QED  BY <1>1, <1>2, <1>3 DEF Judgement

(***************************************************************************)
(* Settling gaps, and the judgement as a whole.                            *)
(***************************************************************************)
LEMMA GapRemoved ==
  ASSUME NEW s \in Seq(LegGap), NEW i \in 1 .. Len(s)
  PROVE  RemoveAt(s, i) \in Seq(LegGap)
<1>1. Len(s) \in Nat /\ \A n \in 1 .. Len(s) : s[n] \in LegGap
  OBVIOUS
<1>2. SubSeq(s, 1, i - 1) \in Seq(LegGap)
  <2>1. \A n \in 1 .. i - 1 : s[n] \in LegGap
    BY <1>1
  <2>. QED  BY <1>1, <2>1, SubSeqProperties
<1>3. SubSeq(s, i + 1, Len(s)) \in Seq(LegGap)
  <2>1. \A n \in i + 1 .. Len(s) : s[n] \in LegGap
    BY <1>1
  <2>. QED  BY <1>1, <2>1, SubSeqProperties
<1>. QED  BY <1>2, <1>3, ConcatProperties DEF RemoveAt

\* The doubt the kept gaps add up to.
LEMMA GapDoubtInt ==
  ASSUME NEW s \in Seq(LegGap)
  PROVE  Total([n \in DOMAIN s |-> s[n].doubt], DOMAIN s) \in Int
<1>. DEFINE f == [n \in DOMAIN s |-> s[n].doubt]
            S == DOMAIN s
<1>1. S = 1 .. Len(s) /\ Len(s) \in Nat
  OBVIOUS
<1>2. \A n \in S : f[n] \in Int
  <2>1. \A n \in S : s[n] \in LegGap
    BY <1>1
  <2>2. \A n \in S : s[n].doubt \in Int
    BY <2>1 DEF LegGap
  <2>. QED  BY <2>2
<1>3. IsFiniteSet(S)
  BY <1>1, FS_Interval
<1>. HIDE DEF f, S
<1>4. SumOver(f, S) \in Int
  BY <1>2, <1>3, SumInt
<1>. QED  BY <1>4 DEF SumOver, Total, f, S

LEMMA GapReleased ==
  ASSUME NEW judged, judged.led \in Ledger, NEW i \in 1 .. Len(judged.led.gaps), NEW walked
  PROVE  Matching(judged.led, ReleaseGap(judged, i, walked).led)
<1>. DEFINE L == judged.led
            g == [L.gaps[i] EXCEPT !.settled = TRUE]
            gaps == [L.gaps EXCEPT ![i] = g]
            rest == RemoveAt(L.gaps, i)
            sum == Total([n \in DOMAIN rest |-> rest[n].doubt], DOMAIN rest)
            less == Smaller(L.doubt, sum)
            M == [L EXCEPT !.gaps = rest, !.doubt = less]
<1>1. L.gaps \in Seq(LegGap) /\ L.doubt \in Int
  BY LegFigures
<1>2. L.gaps[i] \in LegGap
  BY <1>1
<1>3. g \in LegGap
  BY <1>2 DEF LegGap
<1>4. gaps \in Seq(LegGap)
  <2>. HIDE DEF g
  <2>1. DOMAIN gaps = 1 .. Len(L.gaps) /\ Len(L.gaps) \in Nat
        /\ \A n \in 1 .. Len(L.gaps) : gaps[n] \in LegGap
    BY <1>1, <1>3
  <2>2. gaps = [n \in 1 .. Len(L.gaps) |-> gaps[n]]
    BY <2>1, <1>1
  <2>. HIDE DEF gaps
  <2>. QED  BY <2>1, <2>2
<1>5. rest \in Seq(LegGap)
  BY <1>1, GapRemoved
<1>6. less \in Int
  <2>. HIDE DEF rest
  <2>1. sum \in Int
    BY <1>5, GapDoubtInt
  <2>. HIDE DEF sum
  <2>. QED  BY <1>1, <2>1 DEF Smaller
<1>7. ReleaseGap(judged, i, walked).led = IF Guessed(walked) THEN [L EXCEPT !.gaps = gaps]
                                         ELSE CapDoubt(M)
  BY DEF ReleaseGap
<1>8. Matching(L, [L EXCEPT !.gaps = gaps])
  <2>. HIDE DEF gaps
  <2>. QED  BY <1>4 DEF Ledger, Matching, Alike
<1>9. Matching(L, M)
  <2>. HIDE DEF rest, less
  <2>. QED  BY <1>5, <1>6 DEF Ledger, Matching, Alike
<1>10. Matching(L, CapDoubt(M))
  <2>. HIDE DEF M
  <2>. QED  BY <1>9, DoubtCapped DEF Matching, Alike
<1>. QED  BY <1>7, <1>8, <1>10

LEMMA GapSettled ==
  ASSUME NEW judged, judged.led \in Ledger, NEW gap, NEW seqs
  PROVE  Matching(judged.led, SettleGap(judged, gap, seqs).led)
<1>. DEFINE gaps == judged.led.gaps
            at == {i \in DOMAIN gaps :
                     gaps[i].start = gap.start /\ gaps[i].end = gap.end}
<1>1. gaps \in Seq(LegGap)
  BY LegFigures
<1>2. at \subseteq 1 .. Len(gaps) /\ Len(gaps) \in Nat
  BY <1>1
<1>3. CASE at # {}
  <2>1. Min(at) \in at
    <3>1. at \subseteq Nat
      BY <1>2
    <3>. QED  BY <1>3, <3>1, LeastExists
  <2>2. Matching(judged.led, ReleaseGap(judged, Min(at), Rewalk(gap)).led)
    BY <1>2, <2>1, GapReleased
  <2>3. Matching(judged.led, judged.led)
    BY DEF Matching, Alike
  <2>. HIDE DEF at
  <2>. QED  BY <2>2, <2>3 DEF SettleGap, at
<1>4. CASE at = {}
  <2>1. SettleGap(judged, gap, seqs) = judged
    BY <1>4 DEF SettleGap
  <2>. QED  BY <2>1 DEF Matching, Alike
<1>. QED  BY <1>3, <1>4

LEMMA GapsSettled ==
  ASSUME NEW L \in Ledger, NEW seqs
  PROVE  Matching(L, SettleGaps(L, seqs).led)
<1>. DEFINE F == SettleSteps(L, seqs)
            G == {n \in Nat : n <= Len(L.gaps) => Matching(L, F[n].led)}
<1>1. Len(L.gaps) \in Nat
  BY LegFigures
<1>. HIDE DEF F
<1>2. /\ F[0] = [led |-> L, out |-> <<>>]
      /\ \A n \in 1 .. Len(L.gaps) : F[n] = SettleGap(F[n - 1], L.gaps[n], seqs)
  BY <1>1, SettleStepwise DEF F
<1>3. 0 \in G
  BY <1>2 DEF Matching, Alike
<1>4. ASSUME NEW n \in Nat, n \in G
      PROVE  n + 1 \in G
  <2>. SUFFICES ASSUME n + 1 <= Len(L.gaps)
                PROVE  Matching(L, F[n + 1].led)
    OBVIOUS
  <2>1. Matching(L, F[n].led) /\ n + 1 \in 1 .. Len(L.gaps) /\ (n + 1) - 1 = n
    BY <1>1, <1>4
  <2>2. F[n + 1] = SettleGap(F[n], L.gaps[n + 1], seqs)
    BY <1>2, <2>1
  <2>3. F[n].led \in Ledger
    BY <2>1 DEF Matching, Alike
  <2>4. Matching(F[n].led, F[n + 1].led)
    BY <2>2, <2>3, GapSettled
  <2>. QED  BY <2>1, <2>4 DEF Matching, Alike
<1>5. Len(L.gaps) \in G
  <2>. HIDE DEF G
  <2>. QED  BY <1>1, <1>3, <1>4, EveryNat
<1>. QED  BY <1>1, <1>5 DEF SettleGaps, F

LEMMA MatchingJudgement ==
  ASSUME NEW L, L \in Ledger, ListsOk(L), BoundsOk(L), NEW M, Matching(L, M)
  PROVE  Judgement(L, M)
BY DEF Matching, Alike, Judgement, ListsOk, BoundsOk

LEMMA WaitingSet ==
  ASSUME NEW L, L \in Ledger, NEW b \in BOOLEAN
  PROVE  Matching(L, [L EXCEPT !.waiting = b])
BY DEF Matching, Alike, Ledger

LEMMA FurthestAndFirst ==
  ASSUME NEW S, IsFiniteSet(S), S # {}, S \subseteq LegView
  PROVE  Furthest(S) \in S /\ First(S) \in S
<1>1. \A v \in S : v.seq \in Int
  BY DEF LegView
<1>2. \E v \in S : \A w \in S : w.seq <= v.seq
  BY <1>1, SomeLatest
<1>3. \E v \in S : \A w \in S : v.seq <= w.seq
  BY <1>1, SomeEarliest
<1>. QED  BY <1>2, <1>3 DEF Furthest, First

LEMMA OneRound ==
  ASSUME NEW judged, NEW L, L = judged.led, L \in Ledger, ListsOk(L), BoundsOk(L),
         NEW seqs, NEW provable, NEW expired
  PROVE  Judgement(L, AdvanceRound(judged, seqs, provable, expired).led)
<1>. DEFINE N == [L EXCEPT !.waiting = FALSE]
            W == [N EXCEPT !.waiting = TRUE]
            target == IF provable THEN Provable(N, seqs) ELSE {}
            R == AdvanceRound(judged, seqs, provable, expired)
<1>1. Judgement(L, N) /\ Judgement(L, W) /\ Judgement(L, L)
  <2>1. Matching(L, N)
    BY WaitingSet
  <2>2. Matching(L, L)
    BY DEF Matching, Alike
  <2>3. N \in Ledger
    BY <2>1 DEF Matching, Alike
  <2>4. Matching(N, W)
    <3>. HIDE DEF N
    <3>. QED  BY <2>3, WaitingSet
  <2>. HIDE DEF N, W
  <2>5. Judgement(L, N) /\ Judgement(L, L)
    BY <2>1, <2>2, MatchingJudgement
  <2>6. Judgement(N, W)
    BY <2>4, <2>5, MatchingJudgement DEF Judgement
  <2>. QED  BY <2>5, <2>6, JudgementOn
<1>. HIDE DEF N
<1>2. N \in Ledger /\ ListsOk(N) /\ BoundsOk(N)
  BY <1>1 DEF Judgement
<1>3. Later(N) \subseteq LegView /\ IsFiniteSet(Later(N)) /\ target \subseteq Later(N)
  <2>1. Later(N) \subseteq N.views /\ N.views \subseteq LegView /\ IsFiniteSet(N.views)
    BY <1>2 DEF Later, Ledger, ListsOk
  <2>2. target \subseteq Later(N)
    BY DEF Provable
  <2>. QED  BY <2>1, <2>2, FS_Subset
<1>. HIDE DEF target
<1>4. ASSUME target # {}
      PROVE  Judgement(L, Walk(N, Furthest(target), TRUE).led)
  <2>1. Furthest(target) \in LegView
    BY <1>3, <1>4, FS_Subset, FurthestAndFirst
  <2>. DEFINE view == Furthest(target)
  <2>. HIDE DEF view
  <2>2. LET M == Walk(N, view, TRUE).led
        IN  /\ M \in Ledger /\ ListsOk(M) /\ M.events \in SUBSET N.events
            /\ M.views \in SUBSET N.views /\ M.anchor = N.anchor
            /\ BoundsOk(M)
    BY <1>2, <2>1, WalkKeeps DEF view
  <2>3. Judgement(N, Walk(N, view, TRUE).led)
    BY <2>2 DEF Judgement
  <2>. QED  BY <1>1, <2>3, JudgementOn DEF view
<1>5. ASSUME Later(N) # {}
      PROVE  Judgement(L, GiveUp(N, First(Later(N))).led)
  <2>1. First(Later(N)) \in LegView
    BY <1>3, <1>5, FurthestAndFirst
  <2>2. Judgement(N, GiveUp(N, First(Later(N))).led)
    BY <1>2, <2>1, GivenUp
  <2>. QED  BY <1>1, <2>2, JudgementOn
<1>6. R = IF judged.done THEN judged
          ELSE IF Later(N) = {} THEN Stop(judged, N)
          ELSE IF target # {} THEN GoOn(judged, Walk(N, Furthest(target), TRUE))
          ELSE IF judged.led.waiting /\ expired THEN GoOn(judged, GiveUp(N, First(Later(N))))
          ELSE Stop(judged, W)
  BY DEF AdvanceRound, N, target
<1>. HIDE DEF R, W
<1>7. ASSUME R = judged
      PROVE  Judgement(L, R.led)
  BY <1>1, <1>7
<1>8. ASSUME R = Stop(judged, N)
      PROVE  Judgement(L, R.led)
  BY <1>1, <1>8 DEF Stop
<1>9. ASSUME target # {}, R = GoOn(judged, Walk(N, Furthest(target), TRUE))
      PROVE  Judgement(L, R.led)
  BY <1>4, <1>9 DEF GoOn
<1>10. ASSUME Later(N) # {}, R = GoOn(judged, GiveUp(N, First(Later(N))))
       PROVE  Judgement(L, R.led)
  BY <1>5, <1>10 DEF GoOn
<1>11. ASSUME R = Stop(judged, W)
       PROVE  Judgement(L, R.led)
  BY <1>1, <1>11 DEF Stop
<1>. QED  BY <1>6, <1>7, <1>8, <1>9, <1>10, <1>11 DEF R

LEMMA AllRounds ==
  ASSUME NEW settled, NEW L, L = settled.led, L \in Ledger, ListsOk(L), BoundsOk(L),
         NEW seqs, NEW provable, NEW expired
  PROVE  Judgement(L, Judged(settled, seqs, provable, expired).led)
<1>. DEFINE F == JudgeRounds(settled, seqs, provable, expired)
            m == Rounds(settled.led)
            G == {n \in Nat : n <= m => Judgement(L, F[n].led)}
<1>1. m \in Nat
  BY FS_CardinalityType DEF Rounds, ListsOk
<1>. HIDE DEF F, m
<1>2. /\ F[0] = [led |-> settled.led, out |-> settled.out, done |-> FALSE]
      /\ \A n \in 1 .. m : F[n] = AdvanceRound(F[n - 1], seqs, provable, expired)
  BY <1>1, JudgeStepwise DEF F, m
<1>3. 0 \in G
  <2>1. Matching(L, L)
    BY DEF Matching, Alike
  <2>. QED  BY <1>2, <2>1, MatchingJudgement
<1>4. ASSUME NEW n \in Nat, n \in G
      PROVE  n + 1 \in G
  <2>. SUFFICES ASSUME n + 1 <= m
                PROVE  Judgement(L, F[n + 1].led)
    OBVIOUS
  <2>1. Judgement(L, F[n].led) /\ n + 1 \in 1 .. m /\ (n + 1) - 1 = n
    BY <1>1, <1>4
  <2>2. F[n + 1] = AdvanceRound(F[n], seqs, provable, expired)
    BY <1>2, <2>1
  <2>3. F[n].led \in Ledger /\ ListsOk(F[n].led) /\ BoundsOk(F[n].led)
    BY <2>1 DEF Judgement
  <2>4. Judgement(F[n].led, F[n + 1].led)
    BY <2>2, <2>3, OneRound
  <2>. QED  BY <2>1, <2>4, JudgementOn
<1>5. m \in G
  <2>. HIDE DEF G
  <2>. QED  BY <1>1, <1>3, <1>4, EveryNat
<1>. QED  BY <1>1, <1>5 DEF Judged, F, m

LEMMA JudgedWell ==
  ASSUME NEW L, L \in Ledger, ListsOk(L), BoundsOk(L), NEW seqs, NEW provable, NEW expired
  PROVE  Judgement(L, Advance(L, seqs, provable, expired).led)
<1>. DEFINE S == IF provable THEN SettleGaps(L, seqs) ELSE [led |-> L, out |-> <<>>]
            N == S.led
<1>1. Matching(L, N)
  <2>1. Matching(L, L)
    BY DEF Matching, Alike
  <2>. QED  BY <2>1, GapsSettled
<1>2. Judgement(L, N) /\ Judgement(L, L)
  <2>1. Matching(L, L)
    BY DEF Matching, Alike
  <2>. QED  BY <1>1, <2>1, MatchingJudgement
<1>. HIDE DEF S
<1>3. N \in Ledger /\ ListsOk(N) /\ BoundsOk(N)
  BY <1>2 DEF Judgement
<1>4. Judgement(N, Judged(S, seqs, provable, expired).led)
  BY <1>3, AllRounds
<1>5. Judgement(L, Judged(S, seqs, provable, expired).led)
  BY <1>2, <1>4, JudgementOn
<1>6. Advance(L, seqs, provable, expired)
        = IF ~Started(L) THEN [led |-> L, out |-> <<>>, done |-> TRUE]
          ELSE Judged(S, seqs, provable, expired)
  BY DEF Advance, S
<1>. QED  BY <1>2, <1>5, <1>6

(***************************************************************************)
(* Recording, anchoring, and what arrives behind the cursor.               *)
(***************************************************************************)
\* M is L after a step: bounds kept once started, the executions at most those of L.
Kept(L, M) == LedgerOk(M) /\ M.events \in SUBSET L.events /\ From(L, M)

LEMMA OwnShareInt ==
  ASSUME NEW L \in Ledger, ListsOk(L), NEW seq
  PROVE  OwnBeyond(L, seq) \in Int
<1>. DEFINE S == {e \in L.events : e.own /\ e.seq > seq}
            f == [e \in S |-> e.share]
<1>1. IsFiniteSet(S)
  BY FS_Subset DEF ListsOk, Distinct
<1>2. \A e \in S : f[e] \in Int
  BY DEF Ledger, LegExecution
<1>3. OwnBeyond(L, seq) = SumOver(f, S)
  BY DEF OwnBeyond, ShareIn, Total, SumOver
<1>. HIDE DEF f, S
<1>. QED  BY <1>1, <1>2, <1>3, SumInt

LEMMA ViewAdded ==
  ASSUME NEW L, LedgerOk(L), NEW v \in [seq : Int, size : Nat, upd : Int]
  PROVE  LET M == AddView(L, v)
         IN  LedgerOk(M) /\ M.events = L.events /\ M.anchor = L.anchor /\ M.cursor = L.cursor
<1>. DEFINE kept == {w \in L.views : w.seq # v.seq}
            view == [seq |-> v.seq, size |-> v.size]
            newest == Newest(L, v)
            views == IF Started(L) /\ v.seq <= L.cursor THEN L.views
                     ELSE NewestViews(kept \union {view})
            M == [L EXCEPT !.newest = newest, !.views = views]
<1>1. L \in Ledger /\ IsFiniteSet(L.views) /\ L.views \in SUBSET LegView
  BY DEF LedgerOk, ListsOk, Ledger
<1>2. newest \in [seq : Int, size : Int, upd : Int]
  BY <1>1 DEF Newest, NoView, Unset, Ledger
<1>3. views \in SUBSET LegView /\ IsFiniteSet(views)
  <2>1. view \in LegView
    BY DEF LegView
  <2>2. IsFiniteSet(kept \union {view}) /\ kept \union {view} \subseteq LegView
    <3>1. IsFiniteSet(kept) /\ kept \subseteq LegView
      BY <1>1, FS_Subset
    <3>. HIDE DEF kept, view
    <3>. QED  BY <2>1, <3>1, FS_AddElement
  <2>3. NewestViews(kept \union {view}) \subseteq kept \union {view}
    BY DEF NewestViews
  <2>. HIDE DEF kept, view
  <2>. QED  BY <1>1, <2>2, <2>3, FS_Subset
<1>. HIDE DEF newest, views
<1>4. /\ M \in Ledger /\ M.views = views /\ M.events = L.events /\ M.anchor = L.anchor
      /\ M.share = L.share /\ M.journal = L.journal /\ M.leg = L.leg /\ M.room = L.room
      /\ M.cursor = L.cursor
  BY <1>1, <1>2, <1>3 DEF Ledger
<1>5. AddView(L, v) = IF Echo(L, v) THEN L ELSE M
  BY DEF AddView, newest, views
<1>. HIDE DEF M
<1>6. LedgerOk(M)
  BY <1>3, <1>4 DEF LedgerOk, ListsOk, BoundsOk, Started
<1>. QED  BY <1>4, <1>5, <1>6

LEMMA EventAdded ==
  ASSUME NEW L, LedgerOk(L), NEW e \in LegExecution, e.id = e.seq,
         \A f \in L.events : f.seq # e.seq
  PROVE  LET M == AddEvent(L, e)
         IN  LedgerOk(M) /\ M.events \in SUBSET (L.events \union {e}) /\ From(L, M)
<1>. DEFINE all == L.events \union {e}
            oldest == CHOOSE o \in all : \A f \in all : o.seq <= f.seq
            events == IF Cardinality(all) <= MaxEvents THEN all ELSE all \ {oldest}
            M == [L EXCEPT !.events = events]
<1>1. L \in Ledger /\ Distinct(L.events) /\ L.events \in SUBSET LegExecution
  BY DEF LedgerOk, ListsOk, Ledger
<1>2. Distinct(all)
  <2>1. IsFiniteSet(all)
    BY <1>1, FS_AddElement DEF Distinct
  <2>2. e.seq \in Int
    BY DEF LegExecution
  <2>. QED  BY <1>1, <2>1, <2>2 DEF Distinct
<1>3. events \in SUBSET all /\ events \in SUBSET LegExecution /\ Distinct(events)
  <2>1. events \in SUBSET all
    OBVIOUS
  <2>2. all \in SUBSET LegExecution
    BY <1>1
  <2>. HIDE DEF events, all
  <2>. QED  BY <1>2, <2>1, <2>2, FS_Subset DEF Distinct
<1>4. AddEvent(L, e) = M
  BY DEF AddEvent
<1>. HIDE DEF events
<1>5. /\ M \in Ledger /\ M.views = L.views /\ M.events = events
      /\ M.share = L.share /\ M.journal = L.journal /\ M.leg = L.leg /\ M.room = L.room
      /\ M.cursor = L.cursor /\ M.anchor = L.anchor
  BY <1>1, <1>3 DEF Ledger
<1>. HIDE DEF M
<1>6. LedgerOk(M)
  BY <1>3, <1>5 DEF LedgerOk, ListsOk, BoundsOk, Started
<1>7. From(L, M)
  BY <1>5 DEF From
<1>. QED  BY <1>3, <1>4, <1>5, <1>6, <1>7

LEMMA JournalSynced ==
  ASSUME NEW L, LedgerOk(L), NEW j \in Int
  PROVE  Kept(L, SyncJournal(L, j)) /\ SyncJournal(L, j).anchor = L.anchor
<1>. DEFINE books == j - OwnBeyond(L, L.cursor)
            share == Bounded(L.share, books)
            N == [L EXCEPT !.journal = books, !.share = share]
<1>1. CASE ~Started(L)
  BY <1>1, FromItself DEF SyncJournal, Kept
<1>2. CASE Started(L)
  <2>1. /\ L \in Ledger /\ ListsOk(L) /\ BoundsOk(L) /\ L.share \in Int /\ L.leg \in Int
        /\ L.room[1] \in Int /\ L.room[-1] \in Int
    BY <1>2, LegFigures DEF LedgerOk
  <2>2. books \in Int
    BY <2>1, OwnShareInt
  <2>. HIDE DEF books
  <2>3. share \in Int /\ 0 <= share /\ share <= L.share /\ Within(share, books)
    BY <2>1, <2>2, BoundedWithin DEF BoundsOk
  <2>4. share <= Pos(books)
    <3>. HIDE DEF share
    <3>. QED  BY <2>2, <2>3 DEF Within, Pos, Larger
  <2>5. SyncJournal(L, j) = CapDoubt(N)
    BY <1>2 DEF SyncJournal, books
  <2>. HIDE DEF share
  <2>6. /\ N \in Ledger /\ N.share = share /\ N.journal = books /\ N.leg = L.leg
        /\ N.room = L.room /\ N.events = L.events /\ N.views = L.views /\ N.anchor = L.anchor
    BY <2>1, <2>2, <2>3 DEF Ledger
  <2>. HIDE DEF N
  <2>7. ListsOk(N) /\ BoundsOk(N)
    BY <2>1, <2>3, <2>4, <2>6 DEF ListsOk, BoundsOk
  <2>8. Judgement(N, CapDoubt(N))
    BY <2>6, <2>7, DoubtCapped, MatchingJudgement
  <2>9. From(L, N)
    BY <2>6 DEF From
  <2>10. From(L, CapDoubt(N))
    BY <2>8, <2>9, FromJudged, FromOn
  <2>. QED  BY <2>5, <2>6, <2>8, <2>10 DEF Judgement, Kept, LedgerOk
<1>. QED  BY <1>1, <1>2

LEMMA GapChanged ==
  ASSUME NEW L \in Ledger, NEW at \in DOMAIN L.gaps, NEW g \in LegGap
  PROVE  Matching(L, [L EXCEPT !.gaps[at] = g])
<1>. DEFINE gaps == [L.gaps EXCEPT ![at] = g]
<1>1. gaps \in Seq(LegGap)
  <2>1. L.gaps \in Seq(LegGap)
    BY LegFigures
  <2>2. DOMAIN gaps = 1 .. Len(L.gaps) /\ Len(L.gaps) \in Nat
        /\ \A n \in 1 .. Len(L.gaps) : gaps[n] \in LegGap
    BY <2>1
  <2>3. gaps = [n \in 1 .. Len(L.gaps) |-> gaps[n]]
    BY <2>1, <2>2
  <2>. HIDE DEF gaps
  <2>. QED  BY <2>2, <2>3
<1>2. [L EXCEPT !.gaps[at] = g] = [L EXCEPT !.gaps = gaps]
  OBVIOUS
<1>. HIDE DEF gaps
<1>. QED  BY <1>1, <1>2 DEF Matching, Alike, Ledger

LEMMA GapHeld ==
  ASSUME NEW L \in Ledger, NEW seq
  PROVE  GapOf(L, seq) # 0 => /\ GapOf(L, seq) \in DOMAIN L.gaps
                              /\ L.gaps[GapOf(L, seq)] \in LegGap
<1>. DEFINE holding == {i \in DOMAIN L.gaps : Holds(L.gaps[i], seq)}
<1>1. L.gaps \in Seq(LegGap) /\ DOMAIN L.gaps \subseteq Nat
  BY LegFigures
<1>2. GapOf(L, seq) = IF holding = {} THEN 0 ELSE Min(holding)
  BY DEF GapOf
<1>3. holding # {} => Min(holding) \in holding
  <2>1. holding \subseteq Nat
    BY <1>1
  <2>. HIDE DEF holding
  <2>. QED  BY <2>1, LeastExists
<1>4. \A i \in DOMAIN L.gaps : L.gaps[i] \in LegGap
  BY <1>1
<1>. QED  BY <1>2, <1>3, <1>4

LEMMA GapJoined ==
  ASSUME NEW L \in Ledger, NEW e \in LegExecution, NEW resolved \in Int
  PROVE  Matching(L, JoinGap(L, e, resolved))
<1>. DEFINE at == GapOf(L, e.seq)
            g == [L.gaps[at] EXCEPT !.events = @ \union {e}, !.doubt = Pos(@ - resolved)]
<1>1. CASE at = 0
  BY <1>1 DEF JoinGap, Matching, Alike
<1>2. CASE at # 0
  <2>1. at \in DOMAIN L.gaps /\ L.gaps[at] \in LegGap
    BY <1>2, GapHeld
  <2>2. L.gaps[at].doubt \in Int /\ L.gaps[at].events \in SUBSET LegExecution
    BY <2>1 DEF LegGap
  <2>3. Pos(L.gaps[at].doubt - resolved) \in Int
    BY <2>2 DEF Pos, Larger
  <2>. DEFINE d == Pos(L.gaps[at].doubt - resolved)
              x == L.gaps[at].events \union {e}
  <2>4. g = [L.gaps[at] EXCEPT !.events = x, !.doubt = d]
    OBVIOUS
  <2>5. x \in SUBSET LegExecution /\ d \in Int
    BY <2>2, <2>3
  <2>. HIDE DEF at, d, x, g
  <2>6. g \in LegGap
    BY <2>1, <2>4, <2>5 DEF LegGap
  <2>7. JoinGap(L, e, resolved) = [L EXCEPT !.gaps[at] = g]
    <3>1. JoinGap(L, e, resolved)
            = [L EXCEPT !.gaps[at].events = @ \union {e}, !.gaps[at].doubt = Pos(@ - resolved)]
      BY <1>2 DEF JoinGap, at
    <3>. DEFINE P == [L EXCEPT !.gaps[at].events = @ \union {e},
                               !.gaps[at].doubt = Pos(@ - resolved)]
                Q == [L EXCEPT !.gaps[at] = [L.gaps[at] EXCEPT !.events = x, !.doubt = d]]
    <3>2. P = Q
      BY <2>1 DEF Ledger, LegGap, x, d
    <3>. QED  BY <3>1, <3>2, <2>4
  <2>. QED  BY <2>1, <2>6, <2>7, GapChanged
<1>. QED  BY <1>1, <1>2

LEMMA Anchored ==
  ASSUME NEW L, LedgerOk(L), NEW j \in Int
  PROVE  /\ Kept(L, Start(L, j).led)
         /\ L.views = {} => Start(L, j) = [led |-> L, out |-> <<>>]
         /\ L.views # {} => BoundsOk(Start(L, j).led)
<1>. DEFINE view == CHOOSE v \in L.views : \A w \in L.views : w.seq <= v.seq
            share == j - OwnBeyond(L, view.seq)
            held == Capped(share, view.size)
            clamped == Size(share) - Size(held)
            side == Direction(share)
            events == {e \in L.events : e.seq > view.seq}
            N == [L EXCEPT
                !.cursor = view.seq, !.anchor = view.seq, !.leg = view.size,
                !.views = {view}, !.events = events,
                !.share = held, !.journal = share, !.doubt = 0, !.gaps = <<>>,
                !.blind = view.seq]
            anchored == ResetRoom(N, view.size)
            taken1 == TakeJournal(anchored, clamped, side)
            doubted == AddDoubt(taken1, view.seq, Size(held))
            clamp == AddCredit(doubted, view.seq, clamped, side)
            gap == [start |-> Unset, end |-> view.seq, startLeg |-> view.size,
                    endLeg |-> view.size, share |-> held,
                    journal |-> clamp.journal, doubt0 |-> 0, events |-> {},
                    doubt |-> clamp.doubt, settled |-> FALSE]
<1>1. CASE L.views = {}
  <2>1. Start(L, j) = [led |-> L, out |-> <<>>]
    BY <1>1 DEF Start
  <2>. QED  BY <1>1, <2>1, FromItself DEF Kept
<1>2. CASE L.views # {}
  <2>1. L \in Ledger /\ ListsOk(L) /\ L.views \in SUBSET LegView /\ L.events \in SUBSET LegExecution
    BY DEF LedgerOk, Ledger
  <2>2. view \in L.views
    <3>1. \A v \in L.views : v.seq \in Int
      BY <2>1 DEF LegView
    <3>2. \E v \in L.views : \A w \in L.views : w.seq <= v.seq
      BY <1>2, <2>1, <3>1, SomeLatest DEF ListsOk
    <3>. QED  BY <3>2
  <2>3. Start(L, j).led = IF clamped = 0 THEN anchored
                          ELSE IF clamp.doubt = 0 THEN clamp ELSE AddGap(clamp, gap)
    <3>1. Start(L, j) = IF L.views = {} THEN [led |-> L, out |-> <<>>]
                        ELSE IF clamped = 0 THEN [led |-> anchored, out |-> <<>>]
                        ELSE [led |-> IF clamp.doubt = 0 THEN clamp ELSE AddGap(clamp, gap),
                              out |-> <<BookedOutcome(clamped)>>]
      BY DEF Start
    <3>. HIDE DEF clamped, anchored, clamp, gap
    <3>. QED  BY <1>2, <3>1
  <2>. HIDE DEF view
  <2>4. view \in LegView /\ view.seq \in Int /\ view.size \in Nat
    BY <2>1, <2>2 DEF LegView
  <2>5. share \in Int
    BY <2>1, OwnShareInt
  <2>. HIDE DEF share
  <2>6. /\ held \in Int /\ held = Smaller(Pos(share), view.size) /\ side \in {0, 1, -1}
    <3>1. view.size \in Int /\ view.size >= 0
      BY <2>4
    <3>. QED  BY <2>5, <3>1, CappedTo DEF Direction
  <2>7. /\ 0 <= held /\ held <= view.size /\ held <= Pos(share) /\ clamped \in Int
        /\ Size(held) = held /\ Size(held) \in Int
        /\ side = 1 => held = share - clamped
        /\ side = -1 => held = 0
        /\ side = 0 => held = 0
    <3>. HIDE DEF held
    <3>. QED  BY <2>4, <2>5, <2>6 DEF Smaller, Pos, Larger, Size, Direction
  <2>. HIDE DEF held, clamped, side
  <2>8. events \in SUBSET L.events /\ events \in SUBSET LegExecution /\ Distinct(events)
    <3>1. events \in SUBSET L.events
      OBVIOUS
    <3>. HIDE DEF events
    <3>. QED  BY <2>1, <3>1, FS_Subset DEF ListsOk, Distinct
  <2>. HIDE DEF events
  <2>9. /\ N \in Ledger /\ N.share = held /\ N.journal = share /\ N.leg = view.size
        /\ N.events = events /\ N.views = {view} /\ N.anchor = view.seq
    <3>. DEFINE c == view.seq
                z == view.size
                vs == {view}
                X == [L EXCEPT !.cursor = c, !.anchor = c, !.leg = z,
                               !.views = vs, !.events = events]
                Y == [X EXCEPT !.share = held, !.journal = share, !.doubt = 0, !.gaps = <<>>]
    <3>1. c \in Int /\ z \in Int /\ vs \in SUBSET LegView
      BY <2>4
    <3>2. N = [Y EXCEPT !.blind = c]
      BY <2>1 DEF Ledger
    <3>. HIDE DEF c, z, vs
    <3>3. X \in Ledger /\ X.leg = z /\ X.views = vs /\ X.events = events /\ X.anchor = c
      BY <2>1, <2>8, <3>1 DEF Ledger
    <3>. HIDE DEF X, N
    <3>4. Y \in Ledger /\ Y.leg = z /\ Y.views = vs /\ Y.events = events
          /\ Y.share = held /\ Y.journal = share /\ Y.anchor = c
      <4>. DEFINE none == <<>>
                  zero == 0
                  V == [X EXCEPT !.share = held, !.journal = share]
      <4>1. none \in Seq(LegGap) /\ zero \in Int
        OBVIOUS
      <4>2. V \in Ledger /\ V.leg = z /\ V.views = vs /\ V.events = events
            /\ V.share = held /\ V.journal = share /\ V.anchor = c
        BY <2>5, <2>6, <3>3 DEF Ledger
      <4>3. Y = [V EXCEPT !.doubt = zero, !.gaps = none]
        BY <3>3 DEF Ledger
      <4>. HIDE DEF none, zero, V, Y
      <4>. QED  BY <4>1, <4>2, <4>3 DEF Ledger
    <3>. HIDE DEF Y
    <3>5. N \in Ledger /\ N.leg = z /\ N.views = vs /\ N.events = events
          /\ N.share = held /\ N.journal = share /\ N.anchor = c
      BY <3>1, <3>2, <3>4 DEF Ledger
    <3>. QED  BY <3>5 DEF c, z, vs
  <2>. HIDE DEF N
  <2>10. ListsOk(N)
    BY <2>8, <2>9, FS_Singleton DEF ListsOk
  <2>11. /\ anchored \in Ledger /\ ListsOk(anchored) /\ BoundsOk(anchored)
         /\ anchored.events = events /\ anchored.share = held
         /\ anchored.journal = share /\ anchored.leg = view.size
         /\ anchored.views = {view} /\ anchored.anchor = view.seq
    BY <2>4, <2>7, <2>9, <2>10, RoomStartsOver
  <2>. HIDE DEF anchored
  <2>12. /\ Alike(anchored, taken1) /\ taken1.share = held
         /\ (side = 1 => taken1.journal = share - clamped)
    BY <2>6, <2>7, <2>11, JournalTaken
  <2>13. taken1 \in Ledger /\ ListsOk(taken1) /\ BoundsOk(taken1) /\ taken1.events = events
    <3>. HIDE DEF taken1
    <3>1. taken1.journal \in Int /\ taken1 \in Ledger
      BY <2>12, LegFigures DEF Alike
    <3>2. held <= Pos(taken1.journal)
      BY <2>5, <2>6, <2>7, <2>12, <3>1 DEF Pos, Larger
    <3>. QED  BY <2>11, <2>12, <3>1, <3>2 DEF Alike, ListsOk, BoundsOk
  <2>. HIDE DEF taken1
  <2>14. Matching(taken1, doubted)
    BY <2>4, <2>7, <2>13, DoubtAdded
  <2>. HIDE DEF doubted
  <2>15. Matching(doubted, clamp)
    BY <2>4, <2>6, <2>7, <2>14, CreditAdded DEF Matching, Alike
  <2>. HIDE DEF clamp
  <2>16. gap \in LegGap
    <3>1. clamp \in Ledger
      BY <2>15 DEF Matching, Alike
    <3>. QED  BY <2>4, <2>6, <3>1, LegFigures DEF LegGap, Unset
  <2>. HIDE DEF gap
  <2>17. Matching(clamp, AddGap(clamp, gap)) /\ Matching(taken1, clamp)
    BY <2>14, <2>15, <2>16, GapAdded DEF Matching, Alike
  <2>18. Matching(taken1, AddGap(clamp, gap))
    BY <2>17 DEF Matching, Alike
  <2>19. Judgement(taken1, clamp) /\ Judgement(taken1, AddGap(clamp, gap))
    BY <2>13, <2>17, <2>18, MatchingJudgement
  <2>20. events \in SUBSET L.events
    BY <2>8
  <2>21. From(L, anchored)
    BY <2>2, <2>11 DEF From
  <2>22. From(L, taken1)
    BY <2>12, <2>21, FromJudged, FromOn
  <2>23. From(L, clamp) /\ From(L, AddGap(clamp, gap))
    BY <2>19, <2>22, FromJudged, FromOn
  <2>24. From(L, Start(L, j).led)
    BY <2>3, <2>21, <2>23
  <2>. QED  BY <1>2, <2>3, <2>11, <2>13, <2>19, <2>20, <2>24 DEF Judgement, Kept, LedgerOk
<1>. QED  BY <1>1, <1>2

LEMMA CreditTaken ==
  ASSUME NEW L \in Ledger, NEW seq, NEW q \in Int, NEW side
  PROVE  LET T == TakeCredit(L, seq, q, side)
         IN  Matching(L, T.led) /\ T.taken \in Int
<1>. DEFINE F == CreditSteps(L.credits, seq, q, side)
            m == Len(L.credits)
            Fine(u) == u.left \in Seq(LegCredit) /\ u.taken \in Int
            G == {n \in Nat : n <= m => Fine(F[n])}
<1>1. L.credits \in Seq(LegCredit) /\ m \in Nat /\ \A n \in 1 .. m : L.credits[n] \in LegCredit
  BY LegFigures
<1>. HIDE DEF F
<1>2. /\ F[0] = [left |-> <<>>, taken |-> 0]
      /\ \A n \in 1 .. m : F[n] = UseCredit(F[n - 1], L.credits[n], seq, q, side)
  BY <1>1, CreditStepwise DEF F
<1>. HIDE DEF m
<1>3. 0 \in G
  <2>1. F[0].left = <<>> /\ F[0].taken = 0
    BY <1>2
  <2>2. <<>> \in Seq(LegCredit)
    OBVIOUS
  <2>3. Fine(F[0])
    BY <2>1, <2>2
  <2>. HIDE DEF Fine
  <2>. QED  BY <2>3
<1>4. ASSUME NEW n \in Nat, n \in G
      PROVE  n + 1 \in G
  <2>. SUFFICES ASSUME n + 1 <= m
                PROVE  Fine(F[n + 1])
    OBVIOUS
  <2>1. Fine(F[n]) /\ n + 1 \in 1 .. m /\ (n + 1) - 1 = n
    BY <1>1, <1>4
  <2>. DEFINE c == L.credits[n + 1]
              u == F[n]
              part == IF seq <= c.seq /\ c.side = side THEN Smaller(c.qty, q - u.taken) ELSE 0
              rest == c.qty - part
              d == [c EXCEPT !.qty = rest]
  <2>2. c \in LegCredit /\ c.qty \in Int
    BY <1>1, <2>1 DEF LegCredit
  <2>3. F[n + 1] = UseCredit(u, c, seq, q, side)
    BY <1>2, <2>1
  <2>. HIDE DEF c
  <2>4. part \in Int /\ u.taken + part \in Int
    BY <2>1, <2>2 DEF Smaller
  <2>5. F[n + 1].left = (IF c.qty > part THEN Append(u.left, d) ELSE u.left)
        /\ F[n + 1].taken = u.taken + part
    BY <2>3 DEF UseCredit
  <2>. HIDE DEF part
  <2>6. d \in LegCredit
    BY <2>2, <2>4 DEF LegCredit
  <2>. HIDE DEF d, u
  <2>7. Append(u.left, d) \in Seq(LegCredit)
    BY <2>1, <2>6, AppendProperties DEF u
  <2>. QED  BY <2>1, <2>4, <2>5, <2>7 DEF u
<1>5. Fine(F[m])
  <2>1. m \in G
    <3>. HIDE DEF G
    <3>. QED  BY <1>1, <1>3, <1>4, EveryNat
  <2>. QED  BY <1>1, <2>1
<1>. DEFINE list == F[m].left
            T == TakeCredit(L, seq, q, side)
<1>6. T.led = [L EXCEPT !.credits = list] /\ T.taken = F[m].taken
  BY DEF TakeCredit, F, m
<1>7. list \in Seq(LegCredit)
  BY <1>5
<1>. HIDE DEF list, T
<1>. QED  BY <1>5, <1>6, <1>7 DEF T, Matching, Alike, Ledger

LEMMA DoubtKeptMatches ==
  ASSUME NEW L \in Ledger, NEW e \in LegExecution, NEW kept \in Int
  PROVE  Matching(L, DoubtKept(L, e, kept))
<1>. DEFINE at == GapOf(L, e.seq)
            never == [start |-> Unset, end |-> L.cursor, startLeg |-> L.leg,
                      endLeg |-> L.leg, share |-> L.share, journal |-> L.journal,
                      doubt0 |-> L.doubt, events |-> {}, doubt |-> kept,
                      settled |-> FALSE]
            completes == at # 0 /\ L.gaps[at].start # Unset /\ L.gaps[at].end = L.blind
            N == [L EXCEPT !.gaps[at].doubt = @ + kept]
            held == IF completes THEN N ELSE AddGap(L, never)
<1>1. CASE kept = 0 \/ e.seq = L.blind
  BY <1>1 DEF DoubtKept, Matching, Alike
<1>2. CASE ~(kept = 0 \/ e.seq = L.blind)
  <2>1. DoubtKept(L, e, kept) = AddDoubt(held, L.blind, kept)
    BY <1>2 DEF DoubtKept
  <2>2. ASSUME completes
        PROVE  Matching(L, N)
    <3>1. at \in DOMAIN L.gaps /\ L.gaps[at] \in LegGap
      BY <2>2, GapHeld
    <3>. HIDE DEF at
    <3>. DEFINE d == L.gaps[at].doubt + kept
                g == [L.gaps[at] EXCEPT !.doubt = d]
    <3>2. d \in Int
      BY <3>1 DEF LegGap
    <3>3. N = [L EXCEPT !.gaps[at] = g]
      BY <3>1 DEF Ledger, LegGap
    <3>. HIDE DEF d, N
    <3>4. g \in LegGap
      BY <3>1, <3>2 DEF LegGap
    <3>. QED  BY <3>1, <3>3, <3>4, GapChanged
  <2>3. Matching(L, AddGap(L, never))
    <3>1. never \in LegGap
      BY LegFigures DEF LegGap, Unset
    <3>. HIDE DEF never
    <3>. QED  BY <3>1, GapAdded
  <2>4. Matching(L, held)
    <3>. HIDE DEF completes, N, never
    <3>. QED  BY <2>2, <2>3
  <2>. HIDE DEF held
  <2>5. Matching(held, AddDoubt(held, L.blind, kept))
    BY <2>4, LegFigures, DoubtAdded DEF Matching, Alike
  <2>. QED  BY <2>1, <2>4, <2>5 DEF Matching, Alike
<1>. QED  BY <1>1, <1>2

\* The figures of a late own execution, and what becomes of them.
LateCase(share, books, leg, booked, now, up, down, widened, was, wanted, side, same, shrunk,
         grown, upNow, room, kept) ==
    /\ share \in Int /\ books \in Int /\ leg \in Int /\ booked \in Int
    /\ up \in Int /\ down \in Int /\ widened \in BOOLEAN
    /\ 0 <= share /\ share <= leg /\ share <= Pos(books) /\ up <= leg - share /\ down <= 0
    /\ was = Direction(share)
    /\ now = books + booked /\ wanted = Bounded(share + booked, now)
    /\ side = Direction(wanted)
    /\ same = IF side = was THEN Smaller(Size(share), Size(wanted)) ELSE 0
    /\ shrunk = Size(share) - same /\ grown = Size(wanted) - same
    /\ upNow = IF 1 = was /\ widened THEN up + shrunk ELSE up
    /\ room = IF side = 1 THEN upNow ELSE down
    /\ kept = IF grown > 0 THEN KeptOf(grown, room) ELSE 0
LateResult(share, now, leg, was, side, shrunk, grown, upNow, kept, new) ==
    /\ was \in {0, 1} /\ side \in {0, 1, -1}
    /\ shrunk \in Int /\ kept \in Int /\ grown - kept \in Int
    /\ was = 0 => shrunk = 0
    /\ side = 1 => new = share - shrunk + kept
    /\ side # 1 => shrunk = share /\ kept = 0
    /\ upNow \in Int /\ new \in Int /\ 0 <= new /\ new <= leg
    /\ side = 1 => /\ new <= Pos(now - (grown - kept))
                   /\ upNow - kept <= leg - new
    /\ side # 1 => new = 0 /\ upNow <= leg
    /\ side = -1 => kept = 0

LEMMA LateFigures ==
  ASSUME NEW share, NEW books, NEW leg, NEW booked, NEW now, NEW up, NEW down, NEW widened,
         NEW was, NEW wanted, NEW side, NEW same, NEW shrunk, NEW grown, NEW upNow, NEW room,
         NEW kept,
         LateCase(share, books, leg, booked, now, up, down, widened, was, wanted, side, same,
                  shrunk, grown, upNow, room, kept)
  PROVE  LateResult(share, now, leg, was, side, shrunk, grown, upNow, kept,
                    IF side = 1 THEN share - shrunk + kept ELSE 0)
<1>. DEFINE new == IF side = 1 THEN share - shrunk + kept ELSE 0
<1>1. /\ wanted \in Int /\ Within(wanted, now) /\ now \in Int
  <2>1. now \in Int /\ share + booked \in Int /\ wanted = Bounded(share + booked, now)
    BY DEF LateCase
  <2>. QED  BY <2>1, BoundedWithin
<1>2. /\ share \in Int /\ leg \in Int /\ 0 <= share /\ share <= leg /\ up \in Int /\ down \in Int
      /\ up <= leg - share /\ down <= 0 /\ widened \in BOOLEAN
  BY DEF LateCase
<1>3. /\ was \in {0, 1} /\ (was = 0 => share = 0) /\ (was = 1 => share > 0) /\ Size(share) = share
  BY <1>2 DEF Direction, Size, LateCase
<1>4. /\ side = 1 \/ side = 0 \/ side = -1
      /\ side = 1 => wanted > 0 /\ Size(wanted) = wanted /\ wanted <= now
      /\ side = 0 => wanted = 0 /\ Size(wanted) = 0
      /\ side = -1 => wanted < 0 /\ Size(wanted) = -wanted
  <2>1. side = Direction(wanted)
    BY DEF LateCase
  <2>. QED  BY <1>1, <2>1 DEF Direction, Size, Within
<1>5. /\ same = IF side = was THEN Smaller(Size(share), Size(wanted)) ELSE 0
      /\ shrunk = Size(share) - same /\ grown = Size(wanted) - same
      /\ upNow = IF 1 = was /\ widened THEN up + shrunk ELSE up
      /\ room = IF side = 1 THEN upNow ELSE down
      /\ kept = IF grown > 0 THEN KeptOf(grown, room) ELSE 0
  BY DEF LateCase
<1>6. CASE side = 1
  <2>1. same \in Int /\ 0 <= same /\ same <= share /\ same <= wanted
    BY <1>1, <1>2, <1>3, <1>4, <1>5, <1>6 DEF Smaller
  <2>2. /\ shrunk \in Int /\ grown \in Int /\ shrunk = share - same /\ grown = wanted - same
        /\ shrunk >= 0 /\ grown >= 0 /\ (was = 0 => shrunk = 0)
    BY <1>1, <1>2, <1>3, <1>4, <1>5, <1>6, <2>1
  <2>3. upNow \in Int /\ room = upNow /\ upNow <= leg - share + shrunk
    BY <1>2, <1>5, <1>6, <2>2
  <2>4. kept \in Int /\ 0 <= kept /\ kept <= grown /\ (kept = 0 \/ kept <= upNow)
    BY <1>5, <2>2, <2>3 DEF KeptOf, Smaller, Pos, Larger
  <2>5. new = same + kept /\ new = share - shrunk + kept
    BY <1>2, <1>6, <2>1, <2>2, <2>4
  <2>. HIDE DEF new
  <2>6. new \in Int /\ 0 <= new /\ new <= leg /\ upNow - kept <= leg - new
    BY <1>2, <2>1, <2>2, <2>3, <2>4, <2>5
  <2>7. new <= now - (grown - kept)
    BY <1>1, <1>4, <1>6, <2>1, <2>2, <2>4, <2>5
  <2>8. new <= Pos(now - (grown - kept))
    BY <1>1, <2>2, <2>4, <2>6, <2>7 DEF Pos, Larger
  <2>10. grown - kept \in Int
    BY <2>2, <2>4
  <2>11. LateResult(share, now, leg, was, side, shrunk, grown, upNow, kept, new)
    BY <1>3, <1>6, <2>2, <2>3, <2>4, <2>5, <2>6, <2>8, <2>10 DEF LateResult
  <2>. QED  BY <2>11 DEF new
<1>7. CASE side # 1
  <2>1. same = 0 /\ Size(wanted) \in Int /\ Size(wanted) >= 0
    BY <1>1, <1>2, <1>3, <1>4, <1>5, <1>7 DEF Smaller
  <2>2. shrunk = share /\ grown \in Int /\ grown >= 0
    BY <1>2, <1>3, <1>5, <2>1
  <2>3. upNow \in Int /\ upNow <= leg /\ room = down
    BY <1>2, <1>5, <1>7, <2>2
  <2>4. kept = 0
    BY <1>2, <1>5, <2>2, <2>3 DEF KeptOf, Smaller, Pos, Larger
  <2>5. LateResult(share, now, leg, was, side, shrunk, grown, upNow, kept, 0)
    BY <1>2, <1>3, <1>4, <1>7, <2>2, <2>3, <2>4 DEF LateResult
  <2>. QED  BY <1>7, <2>5
<1>. QED  BY <1>6, <1>7

LEMMA LateOwnKeeps ==
  ASSUME NEW L, L \in Ledger, ListsOk(L), BoundsOk(L), NEW e \in LegExecution
  PROVE  Judgement(L, LateOwn(L, e).led)
<1>. DEFINE was == Direction(L.share)
            books == L.journal + e.share
            wanted == Bounded(L.share + e.share, books)
            side == Direction(wanted)
            same == IF side = was THEN Smaller(Size(L.share), Size(wanted)) ELSE 0
            shrunk == Size(L.share) - same
            grown == Size(wanted) - same
            room == [s \in Sides |-> IF s = was /\ e.seq <= L.blind THEN L.room[s] + shrunk
                                     ELSE L.room[s]]
            kept == IF grown > 0 THEN KeptOf(grown, room[side]) ELSE 0
            resolved == Resolved(L, e)
            joined == JoinGap(L, e, resolved)
            left == [s \in Sides |-> room[s] - (IF s = side THEN kept ELSE 0)]
            new == L.share - shrunk * was + kept * side
            doubt == Pos(L.doubt - resolved)
            moved == [joined EXCEPT !.journal = books, !.doubt = Pos(@ - resolved),
                                    !.room = left, !.share = @ - shrunk * was + kept * side]
            booked == AddCredit(TakeJournal(moved, grown - kept, side),
                                L.cursor, grown - kept, side)
            upNow == room[1]
<1>1. /\ L.share \in Int /\ L.journal \in Int /\ L.leg \in Int /\ L.doubt \in Int
      /\ L.blind \in Int /\ L.cursor \in Int /\ L.doubtSeq \in Int
      /\ L.room[1] \in Int /\ L.room[-1] \in Int /\ e.share \in Int /\ e.seq \in Int
      /\ e \in LegExecution
  BY LegFigures DEF LegExecution
<1>2. LateOwn(L, e).led = CapDoubt(DoubtKept(booked, e, kept))
  BY DEF LateOwn
<1>3. resolved \in Int
  <2>1. Direction(L.share) \in {0, 1, -1}
    BY DEF Direction
  <2>2. e.share * Direction(L.share) \in Int
    BY <1>1, <2>1
  <2>. QED  BY <2>2 DEF Resolved, Pos, Larger
<1>. HIDE DEF resolved
<1>4. Matching(L, joined) /\ joined.doubt \in Int
  <2>1. Matching(L, joined)
    BY <1>1, <1>3, GapJoined
  <2>. HIDE DEF joined
  <2>. QED  BY <2>1, LegFigures DEF Matching, Alike
<1>5. Sides = {1, -1} /\ 1 # -1
  BY DEF Sides
<1>6. /\ was \in {0, 1, -1} /\ side \in {0, 1, -1} /\ was # -1
      /\ upNow = IF 1 = was /\ e.seq <= L.blind THEN L.room[1] + shrunk ELSE L.room[1]
      /\ room[-1] = L.room[-1]
  <2>1. was \in {0, 1, -1} /\ was # -1
    BY <1>1 DEF Direction, BoundsOk
  <2>2. side \in {0, 1, -1}
    BY DEF Direction
  <2>. HIDE DEF was, side, shrunk
  <2>. QED  BY <1>5, <2>1, <2>2
<1>7. 0 <= L.share /\ L.share <= L.leg /\ L.share <= Pos(L.journal)
      /\ L.room[1] <= L.leg - L.share /\ L.room[-1] <= 0
  BY DEF BoundsOk
<1>. DEFINE widened == e.seq <= L.blind
            sideRoom == IF side = 1 THEN upNow ELSE L.room[-1]
<1>8. kept = IF grown > 0 THEN KeptOf(grown, sideRoom) ELSE 0
  <2>1. CASE side = 0
    <3>1. wanted = 0
      <4>1. wanted \in Int
        <5>1. L.share + e.share \in Int /\ books \in Int
          BY <1>1
        <5>. HIDE DEF books
        <5>. QED  BY <5>1, BoundedWithin
      <4>. HIDE DEF wanted
      <4>. QED  BY <2>1, <4>1 DEF Direction, side
    <3>2. Size(wanted) = 0 /\ Size(L.share) \in Nat
      BY <1>1, <3>1 DEF Size
    <3>3. same = 0
      <4>. HIDE DEF wanted, was, side
      <4>. QED  BY <3>2 DEF Smaller
    <3>. HIDE DEF wanted, same, sideRoom, room, side
    <3>. QED  BY <3>2, <3>3
  <2>2. CASE side = 1
    BY <2>2
  <2>3. CASE side = -1
    <3>1. room[side] = L.room[-1] /\ sideRoom = L.room[-1]
      BY <1>6, <2>3
    <3>. HIDE DEF room, side, grown, sideRoom
    <3>. QED  BY <3>1
  <2>. QED  BY <1>6, <2>1, <2>2, <2>3
<1>9. /\ was \in {0, 1} /\ side \in {0, 1, -1}
      /\ shrunk \in Int /\ kept \in Int /\ grown - kept \in Int
      /\ upNow \in Int /\ new \in Int /\ 0 <= new /\ new <= L.leg
      /\ side = 1 => /\ new <= Pos(books - (grown - kept))
                     /\ upNow - kept <= L.leg - new
      /\ side # 1 => new = 0 /\ upNow <= L.leg
      /\ side = -1 => kept = 0
  <2>1. widened \in BOOLEAN
    BY <1>1
  <2>. DEFINE up == L.room[1]
              down == L.room[-1]
              lshare == L.share
              ljournal == L.journal
              lleg == L.leg
              more == e.share
  <2>2. /\ lshare \in Int /\ ljournal \in Int /\ lleg \in Int /\ more \in Int /\ up \in Int
        /\ down \in Int /\ 0 <= lshare /\ lshare <= lleg /\ lshare <= Pos(ljournal)
        /\ up <= lleg - lshare /\ down <= 0
    BY <1>1, <1>7
  <2>3. /\ was = Direction(lshare)
        /\ wanted = Bounded(lshare + more, books)
        /\ side = Direction(wanted)
        /\ same = IF side = was THEN Smaller(Size(lshare), Size(wanted)) ELSE 0
        /\ shrunk = Size(lshare) - same /\ grown = Size(wanted) - same
        /\ new = lshare - shrunk * was + kept * side
        /\ books = ljournal + more
    OBVIOUS
  <2>4. /\ upNow = IF 1 = was /\ widened THEN up + shrunk ELSE up
        /\ sideRoom = IF side = 1 THEN upNow ELSE down
    BY <1>6
  <2>. HIDE DEF was, wanted, side, same, shrunk, grown, upNow, sideRoom, kept, new, widened,
                up, down, lshare, ljournal, lleg, more, books, room
  <2>5. LateCase(lshare, ljournal, lleg, more, books, up, down, widened, was, wanted, side, same,
                 shrunk, grown, upNow, sideRoom, kept)
    BY <1>8, <2>1, <2>2, <2>3, <2>4 DEF LateCase
  <2>. DEFINE final == IF side = 1 THEN lshare - shrunk + kept ELSE 0
  <2>6. LateResult(lshare, books, lleg, was, side, shrunk, grown, upNow, kept, final)
    BY <2>5, LateFigures
  <2>7. /\ was \in {0, 1} /\ side \in {0, 1, -1} /\ shrunk \in Int /\ kept \in Int
        /\ was = 0 => shrunk = 0
        /\ side # 1 => shrunk = lshare /\ kept = 0
    BY <2>6 DEF LateResult
  <2>8. shrunk * was = shrunk /\ kept * side = kept
    <3>1. CASE side = 1
      BY <2>7, <3>1
    <3>2. CASE side # 1
      <4>1. kept * side = 0
        BY <2>7, <3>2
      <4>. QED  BY <2>7, <3>2, <4>1
    <3>. QED  BY <3>1, <3>2
  <2>9. new = final
    BY <2>2, <2>3, <2>7, <2>8
  <2>. QED  BY <2>3, <2>6, <2>9 DEF lleg, LateResult
<1>10. moved = [joined EXCEPT !.journal = books, !.doubt = Pos(@ - resolved), !.room = left,
                              !.share = @ - shrunk * was + kept * side]
  OBVIOUS
<1>11. left \in [Sides -> Int] /\ left[1] = upNow - (IF side = 1 THEN kept ELSE 0)
       /\ left[-1] <= 0
  <2>. DEFINE minus == [s \in Sides |-> IF s = side THEN kept ELSE 0]
  <2>1. /\ left[1] = upNow - (IF side = 1 THEN kept ELSE 0)
        /\ left[-1] = room[-1] - (IF side = -1 THEN kept ELSE 0)
    <3>1. \A s \in Sides : left[s] = room[s] - (IF s = side THEN kept ELSE 0)
      OBVIOUS
    <3>. HIDE DEF left, room, side, kept
    <3>. QED  BY <1>5, <3>1
  <2>2. left = [s \in Sides |-> left[s]]
    OBVIOUS
  <2>. HIDE DEF left, room, side, kept
  <2>3. left[1] \in Int /\ left[-1] \in Int /\ left[-1] <= 0
    <3>1. kept \in Int /\ upNow \in Int /\ room[-1] \in Int /\ room[-1] <= 0
      BY <1>1, <1>6, <1>7, <1>9
    <3>2. side = -1 => kept = 0
      BY <1>9
    <3>. QED  BY <2>1, <3>1, <3>2
  <2>. QED  BY <1>5, <2>1, <2>2, <2>3
<1>12. books \in Int
  BY <1>1
<1>. HIDE DEF kept, grown, new, left, upNow, side, was, shrunk, room, books, joined, wanted, same
<1>13. /\ moved \in Ledger /\ moved.journal = books /\ moved.room = left /\ moved.share = new
       /\ moved.leg = L.leg /\ moved.events = L.events /\ moved.views = L.views
       /\ moved.anchor = L.anchor
  <2>. DEFINE d == Pos(joined.doubt - resolved)
              n == joined.share - shrunk * was + kept * side
  <2>1. moved = [joined EXCEPT !.journal = books, !.doubt = d, !.room = left, !.share = n]
    BY <1>10
  <2>2. n = new
    BY <1>4 DEF Matching, new
  <2>3. d \in Int
    BY <1>3, <1>4 DEF Pos, Larger
  <2>4. /\ joined \in Ledger /\ joined.leg = L.leg /\ joined.events = L.events
        /\ joined.views = L.views /\ joined.anchor = L.anchor
    BY <1>4 DEF Matching, Alike
  <2>. HIDE DEF d, n, moved
  <2>. QED  BY <1>9, <1>11, <1>12, <2>1, <2>2, <2>3, <2>4 DEF Ledger
<1>. HIDE DEF moved
<1>. DEFINE taken1 == TakeJournal(moved, grown - kept, side)
<1>14. /\ Alike(moved, taken1) /\ taken1.share = new /\ taken1.journal \in Int
       /\ (side = 1 => taken1.journal = books - (grown - kept))
  <2>1. /\ Alike(moved, taken1) /\ taken1.share = moved.share
        /\ (side = 1 => taken1.journal = moved.journal - (grown - kept))
    BY <1>9, <1>13, JournalTaken
  <2>2. taken1 \in Ledger
    BY <2>1 DEF Alike
  <2>. HIDE DEF taken1
  <2>. QED  BY <1>13, <2>1, <2>2, LegFigures
<1>. HIDE DEF taken1
<1>15. BoundsOk(taken1) /\ ListsOk(taken1) /\ taken1 \in Ledger
       /\ taken1.events = L.events /\ taken1.views = L.views /\ taken1.anchor = L.anchor
  <2>1. new <= Pos(taken1.journal)
    BY <1>9, <1>14 DEF Pos, Larger
  <2>2. left[1] <= L.leg - new
    BY <1>1, <1>9, <1>11
  <2>. QED  BY <1>9, <1>11, <1>13, <1>14, <2>1, <2>2 DEF Alike, BoundsOk, ListsOk
<1>16. Matching(taken1, booked)
  BY <1>1, <1>9, <1>15, CreditAdded DEF taken1
<1>. HIDE DEF booked
<1>17. Matching(booked, DoubtKept(booked, e, kept))
  BY <1>9, <1>16, DoubtKeptMatches DEF Matching, Alike
<1>18. Matching(DoubtKept(booked, e, kept), CapDoubt(DoubtKept(booked, e, kept)))
  BY <1>17, DoubtCapped DEF Matching, Alike
<1>19. Matching(taken1, LateOwn(L, e).led)
  BY <1>2, <1>16, <1>17, <1>18 DEF Matching, Alike
<1>20. Judgement(taken1, LateOwn(L, e).led)
  BY <1>15, <1>19, MatchingJudgement
<1>. QED  BY <1>15, <1>20 DEF Judgement

(***************************************************************************)
(* The plugin around the ledger, and the theorem.                          *)
(***************************************************************************)
Shaped(D) == D = [led |-> D.led, rows |-> D.rows, known |-> D.known, reports |-> D.reports]
PluginOk(D) == Shaped(D) /\ LedgerOk(D.led) /\ D.rows \in Int

Concluded == [id : Int, seq : Int, delta : Int, own : BOOLEAN]

LEMMA MatchingKept ==
  ASSUME NEW L, LedgerOk(L), NEW M, Matching(L, M)
  PROVE  /\ LedgerOk(M) /\ M.events = L.events /\ M.cursor = L.cursor /\ M.anchor = L.anchor
         /\ (Started(M) <=> Started(L))
BY DEF LedgerOk, Matching, Alike, ListsOk, BoundsOk, Started

\* What an update of the plugin's record leaves.
LEMMA ShapedUpdates ==
  ASSUME NEW D, Shaped(D), NEW x, NEW y
  PROVE  /\ [D EXCEPT !.led = x]
               = [led |-> x, rows |-> D.rows, known |-> D.known, reports |-> D.reports]
         /\ [D EXCEPT !.rows = x, !.known = y]
               = [led |-> D.led, rows |-> x, known |-> y, reports |-> D.reports]
         /\ [D EXCEPT !.known = y]
               = [led |-> D.led, rows |-> D.rows, known |-> y, reports |-> D.reports]
         /\ [D EXCEPT !.reports = x]
               = [led |-> D.led, rows |-> D.rows, known |-> D.known, reports |-> x]
<1>. DEFINE l == D.led
            r == D.rows
            k == D.known
            p == D.reports
<1>1. D = [led |-> l, rows |-> r, known |-> k, reports |-> p]
  BY DEF Shaped
<1>2. l = D.led /\ r = D.rows /\ k = D.known /\ p = D.reports
  OBVIOUS
<1>. HIDE DEF l, r, k, p
<1>. DEFINE R == [led |-> l, rows |-> r, known |-> k, reports |-> p]
<1>3. /\ [R EXCEPT !.led = x] = [led |-> x, rows |-> r, known |-> k, reports |-> p]
      /\ [R EXCEPT !.rows = x, !.known = y] = [led |-> l, rows |-> x, known |-> y, reports |-> p]
      /\ [R EXCEPT !.known = y] = [led |-> l, rows |-> r, known |-> y, reports |-> p]
      /\ [R EXCEPT !.reports = x] = [led |-> l, rows |-> r, known |-> k, reports |-> x]
  <2>1. [R EXCEPT !.led = x] = [led |-> x, rows |-> r, known |-> k, reports |-> p]
    OBVIOUS
  <2>2. [R EXCEPT !.rows = x, !.known = y]
          = [led |-> l, rows |-> x, known |-> y, reports |-> p]
    <3>. DEFINE Q == [R EXCEPT !.rows = x]
    <3>1. Q = [led |-> l, rows |-> x, known |-> k, reports |-> p]
      OBVIOUS
    <3>2. [R EXCEPT !.rows = x, !.known = y] = [Q EXCEPT !.known = y]
      OBVIOUS
    <3>. HIDE DEF Q
    <3>. QED  BY <3>1, <3>2
  <2>3. [R EXCEPT !.known = y] = [led |-> l, rows |-> r, known |-> y, reports |-> p]
    OBVIOUS
  <2>4. [R EXCEPT !.reports = x] = [led |-> l, rows |-> r, known |-> k, reports |-> x]
    OBVIOUS
  <2>. QED  BY <2>1, <2>2, <2>3, <2>4
<1>4. D = R
  BY <1>1
<1>. HIDE DEF R
<1>5. /\ [D EXCEPT !.led = x] = [led |-> x, rows |-> r, known |-> k, reports |-> p]
      /\ [D EXCEPT !.rows = x, !.known = y] = [led |-> l, rows |-> x, known |-> y, reports |-> p]
      /\ [D EXCEPT !.known = y] = [led |-> l, rows |-> r, known |-> y, reports |-> p]
      /\ [D EXCEPT !.reports = x] = [led |-> l, rows |-> r, known |-> k, reports |-> x]
  BY <1>3, <1>4
<1>. QED  BY <1>5 DEF l, r, k, p

LEMMA JournalNetted ==
  ASSUME NEW D, PluginOk(D)
  PROVE  /\ PluginOk(SyncLegJournal(D)) /\ Matching(D.led, SyncLegJournal(D).led)
<1>. DEFINE S == {e \in D.led.events : e.own}
            target == D.led.journal + ShareIn(S)
            left == IF D.rows > target THEN Pos(target) ELSE D.rows
            M == [D.led EXCEPT !.toNet = NothingToNet]
            f == [e \in S |-> e.share]
<1>1. D.led \in Ledger /\ ListsOk(D.led) /\ D.rows \in Int /\ D.led.journal \in Int /\ Shaped(D)
  BY LegFigures DEF PluginOk, LedgerOk
<1>2. ShareIn(S) \in Int
  <2>1. IsFiniteSet(S)
    BY <1>1, FS_Subset DEF ListsOk, Distinct
  <2>2. \A e \in S : f[e] \in Int
    BY <1>1 DEF Ledger, LegExecution
  <2>3. ShareIn(S) = SumOver(f, S)
    BY DEF ShareIn, Total, SumOver
  <2>. HIDE DEF f, S
  <2>. QED  BY <2>1, <2>2, <2>3, SumInt
<1>. HIDE DEF S
<1>3. left \in Int
  BY <1>1, <1>2 DEF Pos, Larger
<1>4. SyncLegJournal(D) = [D EXCEPT !.rows = left, !.led.toNet = NothingToNet]
  BY DEF SyncLegJournal, S
<1>. HIDE DEF left
<1>5. SyncLegJournal(D) = [led |-> M, rows |-> left, known |-> D.known, reports |-> D.reports]
  BY <1>1, <1>4 DEF Shaped
<1>6. Matching(D.led, M)
  <2>1. NothingToNet \in [Sides -> Int]
    BY DEF NothingToNet
  <2>. QED  BY <1>1, <2>1 DEF Matching, Alike, Ledger
<1>. HIDE DEF M
<1>7. LedgerOk(M)
  BY <1>6, MatchingKept DEF PluginOk
<1>. QED  BY <1>3, <1>5, <1>6, <1>7 DEF PluginOk, Shaped

LEMMA CreditReduced ==
  ASSUME NEW L \in Ledger, NEW e \in Concluded
  PROVE  LET T == ReduceCredit(L, e)
         IN  Matching(L, T.led) /\ T.taken \in Int
<1>1. e.delta \in Int /\ -e.delta \in Int
  BY DEF Concluded
<1>2. CASE e.delta < 0 /\ Late(L, e)
  BY <1>1, <1>2, CreditTaken DEF ReduceCredit
<1>3. CASE ~(e.delta < 0 /\ Late(L, e))
  BY <1>3 DEF ReduceCredit, Matching, Alike
<1>. QED  BY <1>2, <1>3

\* D2 is the plugin after D noted the execution of a seq.
Noted(D, D2, seq) ==
    /\ PluginOk(D2) /\ From(D.led, D2.led)
    /\ \A f \in D2.led.events : f \in D.led.events \/ f.seq = seq

LEMMA OwnNoted ==
  ASSUME NEW D, PluginOk(D), NEW e \in Concluded, e.id = e.seq,
         \A f \in D.led.events : f.seq # e.seq
  PROVE  Noted(D, NoteOwn(D, e), e.seq)
<1>. DEFINE credit == ReduceCredit(D.led, e)
            L == credit.led
            booked == IF e.delta > 0 THEN D.rows + e.delta
                      ELSE D.rows - Smaller(D.rows, -e.delta - credit.taken)
            event == [id |-> e.id, seq |-> e.seq, delta |-> e.delta, own |-> TRUE,
                      share |-> booked - D.rows, credit |-> credit.taken]
            known1 == D.known \union {e.seq}
            seen == [D EXCEPT !.rows = booked, !.known = @ \union {e.seq}]
            late == LateOwn(L, event)
            enrolled == [seen EXCEPT !.led = late.led]
<1>1. D.led \in Ledger /\ D.rows \in Int /\ Shaped(D) /\ LedgerOk(D.led)
  BY DEF PluginOk, LedgerOk
<1>2. Matching(D.led, L) /\ credit.taken \in Int
  BY <1>1, CreditReduced
<1>3. NoteOwn(D, e) = IF ~Late(D.led, e) THEN [seen EXCEPT !.led = AddEvent(L, event)]
                      ELSE EnterLate(seen, late)
  BY DEF NoteOwn
<1>4. e.seq \in Int /\ e.delta \in Int /\ e.id \in Int
  BY DEF Concluded
<1>. HIDE DEF credit
<1>5. booked \in Int
  BY <1>1, <1>2, <1>4 DEF Smaller
<1>. HIDE DEF booked
<1>6. event \in LegExecution /\ event.seq = e.seq /\ event.id = e.seq
  BY <1>1, <1>2, <1>4, <1>5 DEF LegExecution
<1>. HIDE DEF event
<1>7. LedgerOk(L) /\ L.events = D.led.events /\ L.cursor = D.led.cursor
      /\ (Started(L) <=> Started(D.led)) /\ From(D.led, L)
  BY <1>1, <1>2, MatchingKept, FromJudged DEF Matching
<1>8. seen = [led |-> D.led, rows |-> booked, known |-> known1, reports |-> D.reports]
  <2>1. seen = [D EXCEPT !.rows = booked, !.known = known1]
    OBVIOUS
  <2>. HIDE DEF seen, known1
  <2>. QED  BY <1>1, <2>1, ShapedUpdates
<1>. HIDE DEF known1, seen, L
<1>9. CASE ~Late(D.led, e)
  <2>. DEFINE M == AddEvent(L, event)
  <2>1. LedgerOk(M) /\ M.events \in SUBSET (L.events \union {event}) /\ From(D.led, M)
    BY <1>6, <1>7, EventAdded, FromOn
  <2>2. NoteOwn(D, e) = [led |-> M, rows |-> booked, known |-> known1, reports |-> D.reports]
    BY <1>3, <1>8, <1>9
  <2>. HIDE DEF M
  <2>. QED  BY <1>5, <1>6, <1>7, <2>1, <2>2 DEF Noted, PluginOk, Shaped
<1>10. CASE Late(D.led, e)
  <2>1. L \in Ledger /\ ListsOk(L) /\ BoundsOk(L)
    BY <1>7, <1>10 DEF Late, LedgerOk
  <2>2. Judgement(L, late.led) /\ From(D.led, late.led)
    <3>1. Judgement(L, late.led)
      BY <1>6, <2>1, LateOwnKeeps
    <3>. HIDE DEF late
    <3>. QED  BY <1>7, <3>1, FromJudged, FromOn
  <2>. HIDE DEF late
  <2>3. enrolled = [led |-> late.led, rows |-> booked, known |-> known1, reports |-> D.reports]
    BY <1>8
  <2>4. PluginOk(enrolled) /\ enrolled.led = late.led
    BY <1>5, <2>2, <2>3 DEF PluginOk, Shaped, Judgement, LedgerOk
  <2>. HIDE DEF enrolled
  <2>5. PluginOk(SyncLegJournal(enrolled)) /\ Matching(late.led, SyncLegJournal(enrolled).led)
    BY <2>4, JournalNetted
  <2>6. NoteOwn(D, e) = IF late.out = <<>> THEN enrolled ELSE SyncLegJournal(enrolled)
    BY <1>3, <1>10 DEF EnterLate, enrolled
  <2>7. From(D.led, enrolled.led) /\ From(D.led, SyncLegJournal(enrolled).led)
    BY <2>2, <2>4, <2>5, FromJudged, FromOn DEF Matching
  <2>. QED  BY <1>7, <2>2, <2>4, <2>5, <2>6, <2>7 DEF Noted, Judgement, Matching, Alike
<1>. QED  BY <1>9, <1>10

LEMMA ForeignNoted ==
  ASSUME NEW D, PluginOk(D), NEW e \in Concluded, e.id = e.seq,
         \A f \in D.led.events : f.seq # e.seq
  PROVE  Noted(D, NoteForeign(D, e), e.seq)
<1>. DEFINE event == [id |-> e.id, seq |-> e.seq, delta |-> e.delta, own |-> FALSE,
                      share |-> 0, credit |-> 0]
            known1 == D.known \union {e.seq}
            seen == [D EXCEPT !.known = @ \union {e.seq}]
            M == AddEvent(D.led, event)
            N == LateForeign(D.led, event)
<1>1. D.led \in Ledger /\ D.rows \in Int /\ Shaped(D) /\ LedgerOk(D.led)
  BY DEF PluginOk, LedgerOk
<1>2. event \in LegExecution /\ event.seq = e.seq /\ event.id = e.seq
  BY DEF Concluded, LegExecution
<1>3. seen = [led |-> D.led, rows |-> D.rows, known |-> known1, reports |-> D.reports]
  BY <1>1 DEF Shaped
<1>4. \/ NoteForeign(D, e) = [seen EXCEPT !.led = AddEvent(@, event)]
      \/ NoteForeign(D, e) = [seen EXCEPT !.led = LateForeign(@, event)]
      \/ NoteForeign(D, e) = seen
  BY DEF NoteForeign
<1>. HIDE DEF event, known1, seen
<1>5. LedgerOk(M) /\ M.events \in SUBSET (D.led.events \union {event}) /\ From(D.led, M)
  BY <1>1, <1>2, EventAdded
<1>6. LedgerOk(N) /\ N.events = D.led.events /\ From(D.led, N)
  <2>1. Matching(D.led, N)
    BY <1>1, <1>2, GapJoined DEF LateForeign
  <2>. HIDE DEF N
  <2>. QED  BY <1>1, <2>1, MatchingKept, FromJudged DEF Matching
<1>. HIDE DEF M, N
<1>7. \/ NoteForeign(D, e) = [led |-> M, rows |-> D.rows, known |-> known1, reports |-> D.reports]
      \/ NoteForeign(D, e) = [led |-> N, rows |-> D.rows, known |-> known1, reports |-> D.reports]
      \/ NoteForeign(D, e) = seen
  BY <1>3, <1>4 DEF M, N
<1>8. From(D.led, D.led)
  BY FromItself
<1>. QED  BY <1>1, <1>2, <1>3, <1>5, <1>6, <1>7, <1>8 DEF Noted, PluginOk, Shaped

LEMMA BatchNoted ==
  ASSUME NEW D, PluginOk(D), NEW batch, batch \subseteq Concluded, Distinct(batch),
         \A f \in D.led.events, e \in batch : f.seq # e.seq
  PROVE  LET N == NoteAll(D, InOrder(batch))
         IN  /\ PluginOk(N) /\ From(D.led, N.led)
             /\ \A f \in N.led.events : f \in D.led.events \/ \E e \in batch : f.seq = e.seq
<1>. DEFINE list == InOrder(batch)
            m == Len(list)
            F == NoteSteps(D, list)
            Fine(n) == /\ PluginOk(F[n]) /\ From(D.led, F[n].led)
                       /\ \A f \in F[n].led.events :
                             f \in D.led.events \/ \E i \in 1 .. n : f.seq = list[i].seq
            G == {n \in Nat : n <= m => Fine(n)}
<1>1. InSeqOrder(batch, list)
  BY BatchIsListed
<1>2. list \in Seq(batch) /\ m = Cardinality(batch) /\ m \in Nat
  BY <1>1, SeqOrderNamesAll
<1>3. /\ \A i \in 1 .. m : list[i] \in batch
      /\ \A i, j \in 1 .. m : i < j => list[i].seq < list[j].seq
      /\ \A i \in 1 .. m : list[i].seq \in Int /\ list[i].id = list[i].seq
  BY <1>1, <1>2 DEF InSeqOrder, Distinct
<1>4. /\ F[0] = D
      /\ \A n \in 1 .. m : F[n] = Note(F[n - 1], list[n])
  <2>. HIDE DEF list
  <2>. QED  BY <1>2, NoteStepwise
<1>. HIDE DEF list, m, F
<1>5. 0 \in G
  BY <1>4, FromItself
<1>6. ASSUME NEW n \in Nat, n \in G
      PROVE  n + 1 \in G
  <2>. SUFFICES ASSUME n + 1 <= m
                PROVE  Fine(n + 1)
    OBVIOUS
  <2>1. Fine(n) /\ n + 1 \in 1 .. m /\ (n + 1) - 1 = n
    BY <1>2, <1>6
  <2>. DEFINE e == list[n + 1]
  <2>2. F[n + 1] = Note(F[n], e) /\ e \in batch /\ e.seq \in Int /\ e.id = e.seq
    BY <1>3, <1>4, <2>1
  <2>3. \A i \in 1 .. n : list[i].seq # e.seq
    <3>1. \A i \in 1 .. n : i \in 1 .. m /\ i < n + 1
      BY <1>2, <2>1
    <3>. QED  BY <1>3, <2>1, <3>1
  <2>. HIDE DEF e
  <2>4. \A f \in F[n].led.events : f.seq # e.seq
    BY <2>1, <2>2, <2>3
  <2>5. Noted(F[n], F[n + 1], e.seq)
    <3>1. e \in Concluded /\ PluginOk(F[n])
      BY <2>1, <2>2
    <3>2. Noted(F[n], NoteOwn(F[n], e), e.seq) /\ Noted(F[n], NoteForeign(F[n], e), e.seq)
      BY <2>2, <2>4, <3>1, OwnNoted, ForeignNoted
    <3>. QED  BY <2>2, <3>2 DEF Note
  <2>6. PluginOk(F[n + 1]) /\ From(D.led, F[n + 1].led)
    BY <2>1, <2>5, FromOn DEF Noted
  <2>7. ASSUME NEW f \in F[n + 1].led.events
        PROVE  f \in D.led.events \/ \E i \in 1 .. n + 1 : f.seq = list[i].seq
    <3>1. f \in F[n].led.events \/ f.seq = e.seq
      BY <2>5 DEF Noted
    <3>2. \A i \in 1 .. n : i \in 1 .. n + 1
      OBVIOUS
    <3>3. n + 1 \in 1 .. n + 1
      OBVIOUS
    <3>. QED  BY <2>1, <3>1, <3>2, <3>3 DEF e
  <2>. QED  BY <2>6, <2>7
<1>7. Fine(m)
  <2>1. m \in G
    <3>. HIDE DEF G
    <3>. QED  BY <1>2, <1>5, <1>6, EveryNat
  <2>. QED  BY <1>2, <2>1
<1>8. NoteAll(D, InOrder(batch)) = F[m]
  BY DEF NoteAll, F, m, list
<1>. QED  BY <1>3, <1>7, <1>8

LEMMA LegAdvanced ==
  ASSUME NEW D, PluginOk(D), NEW out, NEW provable, NEW expired
  PROVE  LET N == AdvanceLeg(D, out, provable, expired)
         IN  PluginOk(N) /\ N.led.events \in SUBSET D.led.events /\ From(D.led, N.led)
<1>. DEFINE judged == Advance(D.led, D.known, provable, expired)
            E == [D EXCEPT !.led = judged.led]
            all == out \o judged.out
            N == AdvanceLeg(D, out, provable, expired)
<1>1. LedgerOk(D.led) /\ D.led \in Ledger /\ ListsOk(D.led) /\ Shaped(D) /\ D.rows \in Int
  BY DEF PluginOk, LedgerOk
<1>2. LedgerOk(judged.led) /\ judged.led.events \in SUBSET D.led.events
      /\ From(D.led, judged.led)
  <2>1. CASE Started(D.led)
    <3>1. BoundsOk(D.led)
      BY <1>1, <2>1 DEF LedgerOk
    <3>2. Judgement(D.led, judged.led)
      BY <1>1, <3>1, JudgedWell
    <3>3. From(D.led, judged.led)
      BY <3>2, FromJudged
    <3>. QED  BY <3>2, <3>3 DEF Judgement, LedgerOk
  <2>2. CASE ~Started(D.led)
    BY <1>1, <2>2, FromItself DEF Advance
  <2>. QED  BY <2>1, <2>2
<1>3. N = IF all = <<>> THEN E ELSE LedgerApply(SyncLegJournal(E), all)
  BY DEF AdvanceLeg, JudgeLeg, Applied
<1>. HIDE DEF judged, all
<1>4. PluginOk(E) /\ E.led = judged.led
  BY <1>1, <1>2 DEF PluginOk, Shaped
<1>. HIDE DEF E
<1>. DEFINE S == SyncLegJournal(E)
            A == LedgerApply(S, all)
<1>5. PluginOk(S) /\ Matching(E.led, S.led)
  BY <1>4, JournalNetted
<1>. HIDE DEF S
<1>6. PluginOk(A) /\ A.led = S.led
  <2>. DEFINE new == {[seq |-> all[i].id, qty |-> all[i].consumed - all[i].doubtful] :
                         i \in {j \in DOMAIN all : Reported(all[j])}}
              more == S.reports \union new
  <2>1. A = [S EXCEPT !.reports = more]
    BY DEF LedgerApply
  <2>. HIDE DEF more, A
  <2>2. A = [led |-> S.led, rows |-> S.rows, known |-> S.known, reports |-> more]
    BY <1>5, <2>1, ShapedUpdates DEF PluginOk
  <2>. QED  BY <1>5, <2>2 DEF PluginOk, Shaped
<1>7. N = IF all = <<>> THEN E ELSE A
  BY <1>3 DEF S
<1>. HIDE DEF A, N
<1>8. PluginOk(N) /\ N.led.events \in SUBSET D.led.events
  BY <1>2, <1>4, <1>5, <1>6, <1>7 DEF Matching, Alike
<1>9. From(D.led, N.led)
  <2>1. From(E.led, S.led)
    BY <1>5, FromJudged DEF Matching
  <2>. QED  BY <1>2, <1>4, <1>6, <1>7, <2>1, FromOn
<1>. QED  BY <1>8, <1>9 DEF N

LEMMA LedgerJudged ==
  ASSUME NEW D, PluginOk(D), NEW provable, NEW expired
  PROVE  LET N == LedgerAdvance(D, provable, expired)
         IN  PluginOk(N) /\ N.led.events \in SUBSET D.led.events /\ From(D.led, N.led)
<1>1. LedgerOk(D.led) /\ Shaped(D) /\ D.rows \in Int
  BY DEF PluginOk
<1>2. CASE Started(D.led)
  <2>. DEFINE M == SyncJournal(D.led, D.rows)
              E == [D EXCEPT !.led = M]
  <2>1. Kept(D.led, M)
    BY <1>1, JournalSynced
  <2>2. LedgerAdvance(D, provable, expired) = AdvanceLeg(E, <<>>, provable, expired)
    BY <1>2 DEF LedgerAdvance
  <2>. HIDE DEF M
  <2>3. PluginOk(E) /\ E.led = M
    BY <1>1, <2>1 DEF PluginOk, Shaped, Kept
  <2>. HIDE DEF E
  <2>. DEFINE N == AdvanceLeg(E, <<>>, provable, expired)
  <2>4. PluginOk(N) /\ N.led.events \in SUBSET E.led.events /\ From(E.led, N.led)
    BY <2>3, LegAdvanced
  <2>. HIDE DEF N
  <2>5. PluginOk(N) /\ N.led.events \in SUBSET D.led.events /\ From(D.led, N.led)
    BY <2>1, <2>3, <2>4, FromOn DEF Kept
  <2>. QED  BY <2>2, <2>5 DEF N
<1>3. CASE ~Started(D.led)
  <2>. DEFINE first == Start(D.led, D.rows)
              E == [D EXCEPT !.led = first.led]
              B == Begun(D, first)
  <2>1. Kept(D.led, first.led)
    BY <1>1, Anchored
  <2>2. LedgerAdvance(D, provable, expired) = AdvanceLeg(B, first.out, provable, expired)
    BY <1>3 DEF LedgerAdvance, BeginLeg
  <2>3. B = IF first.out = <<>> THEN E ELSE SyncLegJournal(E)
    BY DEF Begun
  <2>. HIDE DEF first
  <2>4. PluginOk(E) /\ E.led = first.led
    BY <1>1, <2>1 DEF PluginOk, Shaped, Kept
  <2>. HIDE DEF E, B
  <2>5. PluginOk(B) /\ B.led.events = first.led.events /\ From(D.led, B.led)
    <3>1. PluginOk(B) /\ (Matching(first.led, B.led) \/ B = E)
      BY <2>3, <2>4, JournalNetted
    <3>2. From(first.led, B.led)
      BY <2>4, <3>1, FromJudged, FromItself DEF Matching
    <3>. QED  BY <2>1, <2>4, <3>1, <3>2, FromOn DEF Kept, Matching, Alike
  <2>. DEFINE N == AdvanceLeg(B, first.out, provable, expired)
  <2>6. PluginOk(N) /\ N.led.events \in SUBSET B.led.events /\ From(B.led, N.led)
    BY <2>5, LegAdvanced
  <2>. HIDE DEF N
  <2>7. PluginOk(N) /\ N.led.events \in SUBSET D.led.events /\ From(D.led, N.led)
    BY <2>1, <2>5, <2>6, FromOn DEF Kept
  <2>. QED  BY <2>2, <2>7 DEF N
<1>. QED  BY <1>2, <1>3

RecordInv ==
    /\ LedgerOk(led) /\ rows \in Int
    /\ pending \subseteq Concluded /\ Distinct(pending)
    /\ \A e \in pending : e.seq <= LastSeq /\ \A f \in led.events : f.seq # e.seq
    /\ \A f \in led.events : f.seq <= LastSeq
    /\ history \in Seq([leg : Nat, share : Int, upd : Int]) /\ history # <<>>

LEMMA JudgeKeeps ==
  ASSUME NEW D, PluginOk(D), Judge(D)
  PROVE  /\ LedgerOk(led') /\ rows' \in Int /\ led'.events \in SUBSET D.led.events
         /\ From(D.led, led')
<1>1. PICK expired \in BOOLEAN : Becomes(LedgerAdvance(D, ~hold, expired))
  BY DEF Judge
<1>. DEFINE N == LedgerAdvance(D, ~hold, expired)
<1>2. PluginOk(N) /\ N.led.events \in SUBSET D.led.events /\ From(D.led, N.led)
  BY LedgerJudged
<1>. HIDE DEF N
<1>3. led' = N.led /\ rows' = N.rows
  BY <1>1 DEF Becomes, N
<1>. QED  BY <1>2, <1>3 DEF PluginOk

LEMMA NewLedgerOk == LedgerOk(NewLedger)
<1>1. NewLedger \in Ledger
  BY DEF NewLedger, Ledger, NoView, Unset, NothingToNet
<1>2. ListsOk(NewLedger) /\ ~Started(NewLedger)
  BY FS_EmptySet DEF NewLedger, ListsOk, Distinct, Started
<1>. QED  BY <1>1, <1>2 DEF LedgerOk

LEMMA RecordInit == LegInit => RecordInv
<1>. SUFFICES ASSUME LegInit PROVE RecordInv
  OBVIOUS
<1>1. PICK late \in LateStarts :
        \E leg \in IF late THEN {0} ELSE 0 .. MaxSize : \E share \in 0 .. leg :
            /\ history = <<[leg |-> leg, share |-> share, upd |-> 0]>>
            /\ rows = share
            /\ LET seen == [led |-> AddView(NewLedger, [seq |-> 0, size |-> leg, upd |-> 0]),
                            rows |-> share, known |-> {}, reports |-> {}]
               IN  led = IF late THEN NewLedger ELSE LedgerAdvance(seen, FALSE, FALSE).led
            /\ pending = {}
  BY DEF LegInit
<1>10. PICK leg \in IF late THEN {0} ELSE 0 .. MaxSize :
        \E share \in 0 .. leg :
            /\ history = <<[leg |-> leg, share |-> share, upd |-> 0]>>
            /\ rows = share
            /\ LET seen == [led |-> AddView(NewLedger, [seq |-> 0, size |-> leg, upd |-> 0]),
                            rows |-> share, known |-> {}, reports |-> {}]
               IN  led = IF late THEN NewLedger ELSE LedgerAdvance(seen, FALSE, FALSE).led
            /\ pending = {}
  BY <1>1
<1>11. PICK share \in 0 .. leg :
            /\ history = <<[leg |-> leg, share |-> share, upd |-> 0]>>
            /\ rows = share
            /\ LET seen == [led |-> AddView(NewLedger, [seq |-> 0, size |-> leg, upd |-> 0]),
                            rows |-> share, known |-> {}, reports |-> {}]
               IN  led = IF late THEN NewLedger ELSE LedgerAdvance(seen, FALSE, FALSE).led
            /\ pending = {}
  BY <1>10
<1>2. leg \in Nat /\ share \in Int
  BY <1>10, <1>11, LegAssumption
<1>. DEFINE v == [seq |-> 0, size |-> leg, upd |-> 0]
            M == AddView(NewLedger, v)
            seen == [led |-> M, rows |-> share, known |-> {}, reports |-> {}]
<1>3. LedgerOk(M) /\ M.events = {}
  <2>1. v \in [seq : Int, size : Nat, upd : Int]
    BY <1>2
  <2>. HIDE DEF v
  <2>. QED  BY <2>1, NewLedgerOk, ViewAdded DEF NewLedger
<1>. HIDE DEF M
<1>4. PluginOk(seen)
  BY <1>2, <1>3 DEF PluginOk, Shaped
<1>. DEFINE N == LedgerAdvance(seen, FALSE, FALSE)
<1>5. PluginOk(N) /\ N.led.events \in SUBSET seen.led.events
  <2>. HIDE DEF seen
  <2>. QED  BY <1>4, LedgerJudged
<1>6. led = IF late THEN NewLedger ELSE N.led
  BY <1>11 DEF M
<1>. HIDE DEF N
<1>7. LedgerOk(led) /\ led.events = {}
  BY <1>3, <1>5, <1>6, NewLedgerOk DEF PluginOk, NewLedger
<1>8. history \in Seq([leg : Nat, share : Int, upd : Int]) /\ history # <<>>
  BY <1>11, <1>2
<1>9. Distinct(pending)
  BY <1>11, FS_EmptySet DEF Distinct
<1>. QED  BY <1>11, <1>2, <1>7, <1>8, <1>9 DEF RecordInv

LEMMA RecordNext == RecordInv /\ [LegNext]_legVars => RecordInv'
<1>. SUFFICES ASSUME RecordInv, [LegNext]_legVars PROVE RecordInv'
  OBVIOUS
<1>. DEFINE Row == [leg : Nat, share : Int, upd : Int]
<1>1. LedgerOk(led) /\ rows \in Int /\ PluginOk(Plugin) /\ Plugin.led = led
  BY DEF RecordInv, PluginOk, Shaped, Plugin
<1>2. /\ history \in Seq(Row) /\ Len(history) \in Nat /\ Len(history) >= 1
      /\ Now \in Row /\ LastSeq \in Int /\ Now.leg \in Int /\ Now.share \in Int
  <2>1. history \in Seq(Row) /\ history # <<>>
    BY DEF RecordInv
  <2>. HIDE DEF Row
  <2>2. Len(history) \in Nat /\ Len(history) >= 1 /\ history[Len(history)] \in Row
    BY <2>1
  <2>. QED  BY <2>1, <2>2 DEF Now, LastSeq, Row
<1>3. /\ pending \subseteq Concluded /\ Distinct(pending)
      /\ \A e \in pending : e.seq <= LastSeq /\ \A f \in led.events : f.seq # e.seq
      /\ \A f \in led.events : f.seq <= LastSeq /\ f.seq \in Int
  BY <1>1 DEF RecordInv, LedgerOk, ListsOk, Distinct
<1>4. ASSUME Execute PROVE RecordInv'
  <2>1. PICK mine \in BOOLEAN, q \in Quantities, grow \in BOOLEAN :
          LET delta == IF grow THEN q ELSE -q
              seq == LastSeq + 1
              share == TrueShare(mine, delta)
          IN  /\ Now.leg + delta \in 0 .. MaxSize
              /\ history' = Append(history, [leg |-> Now.leg + delta, share |-> share, upd |-> seq])
              /\ pending' = pending \union
                    {[id |-> seq, seq |-> seq, delta |-> delta, own |-> mine]}
    BY <1>4 DEF Execute
  <2>. DEFINE delta == IF grow THEN q ELSE -q
              seq == LastSeq + 1
              share == TrueShare(mine, delta)
              x == [id |-> seq, seq |-> seq, delta |-> delta, own |-> mine]
              row == [leg |-> Now.leg + delta, share |-> share, upd |-> seq]
  <2>2. delta \in Int /\ seq \in Int /\ seq = LastSeq + 1
    BY <1>2, LegAssumption
  <2>. HIDE DEF delta, seq
  <2>3. share \in Int
    BY <1>2, <2>2 DEF TrueShare, Pos, Larger, Smaller
  <2>. HIDE DEF share
  <2>4. Now.leg + delta \in Nat
    BY <2>1, LegAssumption DEF delta
  <2>5. history' = Append(history, row) /\ pending' = pending \union {x}
        /\ led' = led /\ rows' = rows
    BY <1>4, <2>1 DEF Execute, plugin, delta, seq, share
  <2>6. x \in Concluded /\ x.seq = seq /\ x.id = seq
    BY <2>2 DEF Concluded
  <2>7. row \in Row
    BY <2>2, <2>3, <2>4
  <2>. HIDE DEF x, row, Row
  <2>8. history' \in Seq(Row) /\ Len(history') = Len(history) + 1 /\ history' # <<>>
    BY <1>2, <2>5, <2>7, AppendProperties
  <2>9. LastSeq' = seq
    BY <1>2, <2>2, <2>8 DEF LastSeq
  <2>10. Distinct(pending') /\ pending' \subseteq Concluded
    <3>1. \A e \in pending : e.seq # x.seq /\ e.seq \in Int
      BY <1>2, <1>3, <2>2, <2>6 DEF Distinct
    <3>2. IsFiniteSet(pending')
      BY <1>3, <2>5, FS_AddElement DEF Distinct
    <3>. QED  BY <1>3, <2>2, <2>5, <2>6, <3>1, <3>2 DEF Distinct
  <2>11. \A e \in pending' : e.seq <= seq /\ \A f \in led.events : f.seq # e.seq
    <3>1. \A e \in pending : e.seq \in Int
      BY <1>3 DEF Distinct
    <3>2. \A f \in led.events : f.seq # seq
      BY <1>2, <1>3, <2>2
    <3>. QED  BY <1>2, <1>3, <2>2, <2>5, <2>6, <3>1, <3>2
  <2>12. \A f \in led.events : f.seq <= seq
    BY <1>2, <1>3, <2>2
  <2>. QED  BY <1>1, <2>5, <2>8, <2>9, <2>10, <2>11, <2>12 DEF RecordInv, Row
<1>5. ASSUME OtherTransaction PROVE RecordInv'
  <2>1. history' = Append(history, Now) /\ pending' = pending /\ led' = led /\ rows' = rows
    BY <1>5 DEF OtherTransaction, plugin
  <2>2. history' \in Seq(Row) /\ Len(history') = Len(history) + 1 /\ history' # <<>>
    <3>. HIDE DEF Row
    <3>. QED  BY <1>2, <2>1, AppendProperties
  <2>3. LastSeq' = LastSeq + 1
    BY <1>2, <2>2 DEF LastSeq
  <2>4. \A e \in pending : e.seq \in Int
    BY <1>3 DEF Distinct
  <2>5. /\ \A e \in pending : e.seq <= LastSeq'
        /\ \A f \in led.events : f.seq <= LastSeq'
    BY <1>2, <1>3, <2>3, <2>4
  <2>. QED  BY <1>1, <1>3, <2>1, <2>2, <2>5 DEF RecordInv
<1>6. ASSUME Executions PROVE RecordInv'
  <2>1. PICK batch \in SUBSET pending :
          /\ pending' = pending \ batch
          /\ Judge(NoteAll(Plugin, InOrder(batch)))
    BY <1>6 DEF Executions
  <2>2. history' = history /\ LastSeq' = LastSeq
    BY <1>6 DEF Executions, venue, LastSeq
  <2>. DEFINE N == NoteAll(Plugin, InOrder(batch))
  <2>3. batch \subseteq Concluded /\ Distinct(batch) /\ Distinct(pending')
    BY <1>3, <2>1, FS_Subset DEF Distinct
  <2>4. PluginOk(N)
        /\ \A f \in N.led.events : f \in led.events \/ \E e \in batch : f.seq = e.seq
    <3>1. \A f \in Plugin.led.events, e \in batch : f.seq # e.seq
      BY <1>1, <1>3
    <3>. QED  BY <1>1, <2>3, <3>1, BatchNoted
  <2>. HIDE DEF N
  <2>5. LedgerOk(led') /\ rows' \in Int /\ led'.events \in SUBSET N.led.events
    BY <2>1, <2>4, JudgeKeeps DEF N
  <2>6. \A f \in led'.events : f \in led.events \/ \E e \in batch : f.seq = e.seq
    BY <2>4, <2>5
  <2>7. \A f \in led'.events : f.seq <= LastSeq
    BY <1>3, <2>6
  <2>8. \A e \in pending' : e.seq <= LastSeq /\ \A f \in led'.events : f.seq # e.seq
    BY <1>3, <2>1, <2>6 DEF Distinct
  <2>9. pending' \subseteq Concluded
    BY <1>3, <2>1
  <2>. QED  BY <1>2, <2>2, <2>3, <2>5, <2>7, <2>8, <2>9 DEF RecordInv
<1>7. ASSUME PositionView PROVE RecordInv'
  <2>1. PICK seq \in IF OnBaseline THEN 0 .. LastSeq ELSE 1 .. LastSeq :
          Judge([Plugin EXCEPT !.led =
               AddView(@, [seq |-> seq, size |-> At(seq).leg, upd |-> At(seq).upd])])
    BY <1>7 DEF PositionView
  <2>. DEFINE v == [seq |-> seq, size |-> At(seq).leg, upd |-> At(seq).upd]
              M == AddView(led, v)
              D == [Plugin EXCEPT !.led = AddView(@, v)]
  <2>2. seq \in Int /\ seq + 1 \in 1 .. Len(history)
    BY <1>2 DEF LastSeq
  <2>3. At(seq) \in Row
    <3>. HIDE DEF Row
    <3>. QED  BY <1>2, <2>2 DEF At
  <2>4. v \in [seq : Int, size : Nat, upd : Int]
    BY <2>2, <2>3
  <2>5. LedgerOk(M) /\ M.events = led.events
    <3>. HIDE DEF v
    <3>. QED  BY <1>1, <2>4, ViewAdded
  <2>6. D = [led |-> M, rows |-> rows, known |-> known, reports |-> reports]
    BY DEF Plugin
  <2>7. Judge(D)
    BY <2>1
  <2>. HIDE DEF D, M
  <2>8. PluginOk(D) /\ D.led = M
    BY <1>1, <2>5, <2>6 DEF PluginOk, Shaped
  <2>9. LedgerOk(led') /\ rows' \in Int /\ led'.events \in SUBSET led.events
    BY <2>5, <2>7, <2>8, JudgeKeeps
  <2>10. history' = history /\ LastSeq' = LastSeq /\ pending' = pending
    BY <1>7 DEF PositionView, venue, LastSeq
  <2>. QED  BY <1>2, <1>3, <2>9, <2>10 DEF RecordInv
<1>8. ASSUME Reconcile PROVE RecordInv'
  <2>1. LedgerOk(led') /\ rows' \in Int /\ led'.events \in SUBSET led.events
    BY <1>1, <1>8, JudgeKeeps DEF Reconcile
  <2>2. history' = history /\ LastSeq' = LastSeq /\ pending' = pending
    BY <1>8 DEF Reconcile, venue, LastSeq
  <2>. QED  BY <1>2, <1>3, <2>1, <2>2 DEF RecordInv
<1>9. ASSUME Outage \/ LiftHold \/ UNCHANGED legVars PROVE RecordInv'
  <2>1. history' = history /\ LastSeq' = LastSeq /\ pending' = pending /\ led' = led /\ rows' = rows
    BY <1>9 DEF Outage, LiftHold, legVars, venue, plugin, LastSeq
  <2>. QED  BY <2>1 DEF RecordInv
<1>. QED  BY <1>4, <1>5, <1>6, <1>7, <1>8, <1>9 DEF LegNext

\* The share stays on the leg and within the journal.
THEOREM ShareStaysInBounds == LegSpec => []ShareWithinBounds
<1>1. RecordInv => ShareWithinBounds
  BY DEF RecordInv, LedgerOk, BoundsOk, ShareWithinBounds
<1>. QED  BY <1>1, RecordInit, RecordNext, PTL DEF LegSpec

(***************************************************************************)
(* Sums over executions.                                                   *)
(***************************************************************************)
Counted(S) == IsFiniteSet(S) /\ \A e \in S : e.delta \in Int

LEMMA SumAlike ==
  ASSUME NEW f, NEW h, NEW S, IsFiniteSet(S), \A i \in S : f[i] \in Int /\ h[i] = f[i]
  PROVE  SumOver(f, S) = SumOver(h, S)
<1>. DEFINE Same(T) == SumOver(f, T) = SumOver(h, T)
            G == {n \in Nat : \A T \in SUBSET S : Cardinality(T) <= n => Same(T)}
<1>1. \A T \in SUBSET S : IsFiniteSet(T) /\ Cardinality(T) \in Nat
  BY FS_Subset, FS_CardinalityType
<1>2. 0 \in G
  <2>1. \A T \in SUBSET S : Cardinality(T) <= 0 => T = {}
    BY <1>1, FS_EmptySet
  <2>2. Same({})
    BY SumEmpty
  <2>. HIDE DEF Same
  <2>. QED  BY <2>1, <2>2
<1>3. ASSUME NEW n \in Nat, n \in G
      PROVE  n + 1 \in G
  <2>. SUFFICES ASSUME NEW T \in SUBSET S, Cardinality(T) <= n + 1
                PROVE  Same(T)
    BY <1>3
  <2>1. CASE T = {}
    BY <2>1, SumEmpty
  <2>2. CASE T # {}
    <3>1. PICK y \in T : TRUE
      BY <2>2
    <3>2. T \ {y} \in SUBSET S /\ Cardinality(T \ {y}) <= n
      BY <1>1, <3>1, FS_RemoveElement
    <3>3. Same(T \ {y})
      BY <1>3, <3>2
    <3>4. SumOver(f, T) = f[y] + SumOver(f, T \ {y}) /\ SumOver(h, T) = h[y] + SumOver(h, T \ {y})
      BY <1>1, <3>1, SumRemove
    <3>. QED  BY <3>1, <3>3, <3>4
  <2>. QED  BY <2>1, <2>2
<1>4. \A n \in Nat : n \in G
  <2>. HIDE DEF G
  <2>. QED  BY <1>2, <1>3, EveryNat
<1>5. Cardinality(S) \in Nat /\ Cardinality(S) \in G
  BY <1>1, <1>4
<1>. QED  BY <1>1, <1>5

LEMMA DeltaOf ==
  ASSUME NEW S, Counted(S)
  PROVE  /\ DeltaIn(S) \in Int
         /\ DeltaIn({}) = 0
         /\ \A e \in S : DeltaIn(S) = e.delta + DeltaIn(S \ {e})
<1>. DEFINE f(T) == [e \in T |-> e.delta]
<1>1. \A T : DeltaIn(T) = SumOver(f(T), T)
  BY DEF DeltaIn, Total, SumOver
<1>2. IsFiniteSet(S) /\ \A e \in S : f(S)[e] \in Int /\ f(S)[e] = e.delta
  BY DEF Counted
<1>3. DeltaIn(S) \in Int
  <2>. HIDE DEF f
  <2>. QED  BY <1>1, <1>2, SumInt
<1>4. DeltaIn({}) = 0
  <2>. HIDE DEF f
  <2>. QED  BY <1>1, SumEmpty
<1>5. ASSUME NEW e \in S
      PROVE  DeltaIn(S) = e.delta + DeltaIn(S \ {e})
  <2>. DEFINE T == S \ {e}
  <2>1. SumOver(f(S), S) = e.delta + SumOver(f(S), T)
    <3>. HIDE DEF f
    <3>. QED  BY <1>2, SumRemove
  <2>2. IsFiniteSet(T) /\ \A i \in T : f(S)[i] \in Int /\ f(T)[i] = f(S)[i]
    BY <1>2, FS_Subset
  <2>3. SumOver(f(S), T) = SumOver(f(T), T)
    <3>. HIDE DEF f, T
    <3>. QED  BY <2>2, SumAlike
  <2>. QED  BY <1>1, <2>1, <2>3
<1>. QED  BY <1>3, <1>4, <1>5

LEMMA DeltaAdded ==
  ASSUME NEW S, Counted(S), NEW e, e \notin S, e.delta \in Int
  PROVE  Counted(S \union {e}) /\ DeltaIn(S \union {e}) = e.delta + DeltaIn(S)
<1>1. Counted(S \union {e})
  BY FS_AddElement DEF Counted
<1>2. (S \union {e}) \ {e} = S
  OBVIOUS
<1>. QED  BY <1>1, <1>2, DeltaOf

LEMMA ShareIsDelta ==
  ASSUME NEW S, Counted(S), \A e \in S : e.share = e.delta
  PROVE  ShareIn(S) = DeltaIn(S)
<1>. DEFINE f == [e \in S |-> e.delta]
            h == [e \in S |-> e.share]
<1>1. ShareIn(S) = SumOver(h, S) /\ DeltaIn(S) = SumOver(f, S)
  BY DEF DeltaIn, ShareIn, Total, SumOver
<1>2. IsFiniteSet(S) /\ \A i \in S : f[i] \in Int /\ h[i] = f[i]
  BY DEF Counted
<1>. HIDE DEF f, h
<1>. QED  BY <1>1, <1>2, SumAlike

(***************************************************************************)
(* The true history.                                                       *)
(***************************************************************************)
Row == [leg : Nat, share : Nat, upd : Nat]

HistoryInv ==
    /\ history \in Seq(Row) /\ taken \in Seq(Nat)
    /\ Len(taken) = Len(history) /\ Len(history) \in 1 .. MaxSeq + 1
    /\ \A s \in 0 .. LastSeq : At(s).share <= At(s).leg /\ At(s).upd <= s
    /\ \A s \in 1 .. LastSeq :
          \/ At(s).upd = s
          \/ At(s).leg = At(s - 1).leg /\ At(s).share = At(s - 1).share /\ taken[s + 1] = 0

\* The execution of a seq, as it really was.
StepTrue(e) ==
    /\ e.seq \in 1 .. LastSeq /\ e.id = e.seq /\ e.delta \in Int /\ e.delta # 0
    /\ e.own \in BOOLEAN
    /\ At(e.seq).upd = e.seq
    /\ At(e.seq).leg = At(e.seq - 1).leg + e.delta
    /\ e.own => At(e.seq).share = At(e.seq - 1).share + e.delta /\ taken[e.seq + 1] = 0
    /\ ~e.own => /\ At(e.seq).share = Smaller(At(e.seq - 1).share, At(e.seq).leg)
                 /\ taken[e.seq + 1] = At(e.seq - 1).share - At(e.seq).share

\* E holds every execution beyond cursor.
Whole(E, cursor) ==
    /\ IsFiniteSet(E)
    /\ \A e, f \in E : e.seq = f.seq => e = f
    /\ \A e \in E : StepTrue(e) /\ e.seq > cursor
    /\ \A s \in cursor + 1 .. LastSeq : At(s).upd = s => \E e \in E : e.seq = s

LEMMA HistoryOf ==
  ASSUME HistoryInv
  PROVE  /\ LastSeq \in Nat /\ LastSeq <= MaxSeq /\ MaxSeq \in Nat
         /\ \A s \in 0 .. LastSeq : /\ At(s).leg \in Nat /\ At(s).share \in Nat /\ At(s).upd \in Nat
                                    /\ At(s) \in Row /\ taken[s + 1] \in Nat
                                    /\ At(s).share <= At(s).leg
<1>1. /\ Len(history) \in Nat /\ Len(history) >= 1 /\ MaxSeq \in Nat /\ Len(history) <= MaxSeq + 1
      /\ Len(taken) = Len(history)
  BY LegAssumption DEF HistoryInv
<1>2. LastSeq \in Nat /\ LastSeq <= MaxSeq
  BY <1>1 DEF LastSeq
<1>3. ASSUME NEW s \in 0 .. LastSeq
      PROVE  At(s) \in Row /\ taken[s + 1] \in Nat
  <2>1. s + 1 \in 1 .. Len(history) /\ s + 1 \in 1 .. Len(taken)
    BY <1>1, <1>3 DEF LastSeq
  <2>2. history \in Seq(Row) /\ taken \in Seq(Nat)
    BY DEF HistoryInv
  <2>. QED  BY <2>1, <2>2 DEF At
<1>. QED  BY <1>1, <1>2, <1>3 DEF HistoryInv, Row

\* Where no execution is, nothing changes.
LEMMA Quiet ==
  ASSUME HistoryInv, NEW E, NEW c \in 0 .. LastSeq, Whole(E, c), NEW a \in c .. LastSeq,
         NEW b \in a .. LastSeq, \A e \in E : ~(a < e.seq /\ e.seq <= b)
  PROVE  /\ At(b).leg = At(a).leg /\ At(b).share = At(a).share
         /\ \A s \in a + 1 .. b : taken[s + 1] = 0
<1>. DEFINE Still(s) == /\ At(s).leg = At(a).leg /\ At(s).share = At(a).share
                        /\ \A r \in a + 1 .. s : taken[r + 1] = 0
            G == {n \in Nat : a + n <= b => Still(a + n)}
<1>1. LastSeq \in Nat /\ c \in Nat /\ a \in Nat /\ b \in Nat /\ a <= b /\ c <= a /\ b <= LastSeq
  BY HistoryOf
<1>2. 0 \in G
  BY <1>1
<1>3. ASSUME NEW n \in Nat, n \in G
      PROVE  n + 1 \in G
  <2>. SUFFICES ASSUME a + (n + 1) <= b
                PROVE  Still(a + (n + 1))
    OBVIOUS
  <2>. DEFINE s == a + (n + 1)
  <2>1. s - 1 = a + n /\ s \in c + 1 .. LastSeq /\ s \in 1 .. LastSeq /\ a < s /\ s <= b
        /\ s \in Nat /\ a + n <= b
    BY <1>1
  <2>2. Still(s - 1)
    BY <1>3, <2>1
  <2>3. At(s).upd # s
    BY <2>1 DEF Whole
  <2>4. At(s).leg = At(s - 1).leg /\ At(s).share = At(s - 1).share /\ taken[s + 1] = 0
    BY <2>1, <2>3 DEF HistoryInv
  <2>5. \A r \in a + 1 .. s : r \in a + 1 .. s - 1 \/ r = s
    BY <1>1, <2>1
  <2>. QED  BY <2>2, <2>4, <2>5
<1>4. \A n \in Nat : n \in G
  <2>. HIDE DEF G
  <2>. QED  BY <1>2, <1>3, EveryNat
<1>5. b - a \in Nat /\ a + (b - a) = b
  BY <1>1
<1>6. Still(b)
  BY <1>4, <1>5
<1>. QED  BY <1>6

Upto(E, s) == {e \in E : e.seq <= s}
OwnOf(S) == {e \in S : e.own}

\* The executions of a whole account sum up to the leg; the own ones build at least the share.
LEMMA SumsUp ==
  ASSUME HistoryInv, NEW E, NEW c \in 0 .. LastSeq, Whole(E, c), NEW b \in c .. LastSeq
  PROVE  /\ Counted(E)
         /\ At(c).leg + DeltaIn(Upto(E, b)) = At(b).leg
         /\ At(c).share + DeltaIn(OwnOf(Upto(E, b))) >= At(b).share
<1>. DEFINE All(s) == DeltaIn(Upto(E, s))
            Mine(s) == DeltaIn(OwnOf(Upto(E, s)))
            Sum(s) == /\ At(c).leg + All(s) = At(s).leg
                      /\ At(c).share + Mine(s) >= At(s).share
            G == {n \in Nat : c + n <= b => Sum(c + n)}
<1>1. LastSeq \in Nat /\ c \in Nat /\ b \in Nat /\ c <= b /\ b <= LastSeq
  BY HistoryOf
<1>2. /\ IsFiniteSet(E) /\ \A e, f \in E : e.seq = f.seq => e = f
      /\ \A e \in E : e.seq \in Nat /\ e.seq > c /\ e.delta \in Int /\ e.own \in BOOLEAN
                      /\ At(e.seq).upd = e.seq
  BY <1>1 DEF Whole, StepTrue
<1>3. Counted(E) /\ \A s : Counted(Upto(E, s)) /\ Counted(OwnOf(Upto(E, s)))
  BY <1>2, FS_Subset DEF Counted, Upto, OwnOf
<1>4. \A s : All(s) \in Int /\ Mine(s) \in Int
  BY <1>3, DeltaOf
<1>5. 0 \in G
  <2>1. Upto(E, c) = {} /\ OwnOf(Upto(E, c)) = {}
    BY <1>1, <1>2 DEF Upto, OwnOf
  <2>2. All(c) = 0 /\ Mine(c) = 0
    BY <1>3, <2>1, DeltaOf
  <2>3. At(c).leg \in Nat /\ At(c).share \in Nat /\ c + 0 = c
    BY <1>1, HistoryOf
  <2>. HIDE DEF All, Mine
  <2>. QED  BY <2>2, <2>3
<1>6. ASSUME NEW n \in Nat, n \in G
      PROVE  n + 1 \in G
  <2>. SUFFICES ASSUME c + (n + 1) <= b
                PROVE  Sum(c + (n + 1))
    OBVIOUS
  <2>. DEFINE s == c + (n + 1)
              r == c + n
  <2>1. s \in Nat /\ r \in Nat /\ r = s - 1 /\ s \in c + 1 .. LastSeq /\ s \in 1 .. LastSeq
        /\ r \in 0 .. LastSeq /\ s \in 0 .. LastSeq /\ r <= b
    BY <1>1
  <2>2. Sum(r)
    BY <1>6, <2>1
  <2>. HIDE DEF s, r
  <2>3. /\ At(r).leg \in Nat /\ At(r).share \in Nat /\ At(s).leg \in Nat /\ At(s).share \in Nat
        /\ At(c).leg \in Nat /\ At(c).share \in Nat
    BY <2>1, HistoryOf
  <2>4. CASE At(s).upd # s
    <3>1. \A e \in E : e.seq # s
      BY <1>2, <2>4
    <3>2. Upto(E, s) = Upto(E, r)
      BY <1>2, <2>1, <3>1 DEF Upto
    <3>3. At(s).leg = At(r).leg /\ At(s).share = At(r).share
      BY <2>1, <2>4 DEF HistoryInv
    <3>. QED  BY <2>2, <3>2, <3>3 DEF s, r
  <2>5. CASE At(s).upd = s
    <3>1. PICK e \in E : e.seq = s
      BY <2>1, <2>5 DEF Whole
    <3>2. Upto(E, s) = Upto(E, r) \union {e} /\ e \notin Upto(E, r)
      BY <1>2, <2>1, <3>1 DEF Upto
    <3>3. All(s) = e.delta + All(r)
      BY <1>2, <1>3, <3>1, <3>2, DeltaAdded
    <3>4. StepTrue(e)
      BY <3>1 DEF Whole
    <3>5. At(s).leg = At(r).leg + e.delta
      BY <2>1, <3>1, <3>4 DEF StepTrue
    <3>6. CASE e.own
      <4>1. OwnOf(Upto(E, s)) = OwnOf(Upto(E, r)) \union {e} /\ e \notin OwnOf(Upto(E, r))
        BY <3>2, <3>6 DEF OwnOf
      <4>2. Mine(s) = e.delta + Mine(r)
        BY <1>2, <1>3, <3>1, <4>1, DeltaAdded
      <4>3. At(s).share = At(r).share + e.delta
        BY <2>1, <3>1, <3>4, <3>6 DEF StepTrue
      <4>4. e.delta \in Int /\ All(r) \in Int /\ Mine(r) \in Int
        BY <1>2, <1>4
      <4>. HIDE DEF All, Mine
      <4>5. Sum(s)
        BY <2>2, <2>3, <3>3, <3>5, <4>2, <4>3, <4>4
      <4>. QED  BY <4>5 DEF s, All, Mine
    <3>7. CASE ~e.own
      <4>1. OwnOf(Upto(E, s)) = OwnOf(Upto(E, r))
        BY <3>2, <3>7 DEF OwnOf
      <4>2. Mine(s) = Mine(r)
        BY <4>1
      <4>3. At(s).share = Smaller(At(r).share, At(s).leg)
        BY <2>1, <3>1, <3>4, <3>7 DEF StepTrue
      <4>4. At(s).share <= At(r).share
        BY <2>3, <4>3 DEF Smaller
      <4>5. e.delta \in Int /\ All(r) \in Int /\ Mine(r) \in Int
        BY <1>2, <1>4
      <4>. HIDE DEF All, Mine
      <4>6. Sum(s)
        BY <2>2, <2>3, <3>3, <3>5, <4>2, <4>4, <4>5
      <4>. QED  BY <4>6 DEF s, All, Mine
    <3>. QED  BY <3>6, <3>7
  <2>. QED  BY <2>4, <2>5
<1>7. \A n \in Nat : n \in G
  <2>. HIDE DEF G
  <2>. QED  BY <1>5, <1>6, EveryNat
<1>8. b - c \in Nat /\ c + (b - c) = b
  BY <1>1
<1>9. Sum(b)
  BY <1>7, <1>8
<1>. QED  BY <1>3, <1>9

(***************************************************************************)
(* A ledger that is exact at its cursor, P the executions it still misses. *)
(***************************************************************************)
Sure(L) == L.doubt = 0 /\ L.gaps = <<>> /\ L.credits = <<>>

Exact(L, P) ==
    /\ LedgerOk(L) /\ Sure(L) /\ L.cursor \in 0 .. LastSeq
    /\ L.leg = At(L.cursor).leg /\ L.share = At(L.cursor).share
    /\ \A e \in L.events : e.share = IF e.own THEN e.delta ELSE 0
    /\ Whole(L.events \union P, L.cursor)
    /\ \A e \in L.events, p \in P : e.seq # p.seq /\ (e.own /\ p.own => e.seq < p.seq)
    /\ \A v \in L.views : v.seq \in 0 .. LastSeq /\ v.size = At(v.seq).leg

\* The own executions of such a ledger never take more than the share.
LEMMA OwnHeld ==
  ASSUME HistoryInv, NEW L, NEW P, Exact(L, P)
  PROVE  /\ Counted(L.events)
         /\ ShareIn(OwnOf(L.events)) = DeltaIn(OwnOf(L.events))
         /\ ShareIn(OwnOf(L.events)) \in Int /\ L.share \in Nat
         /\ L.share + ShareIn(OwnOf(L.events)) >= 0
         /\ \A p \in P : p.own /\ (\A q \in P : q.own => p.seq <= q.seq) =>
               L.share + ShareIn(OwnOf(L.events)) + p.delta >= 0
<1>. DEFINE E == L.events \union P
            c == L.cursor
            mine == OwnOf(L.events)
<1>1. /\ Whole(E, c) /\ c \in 0 .. LastSeq /\ L.share = At(c).share
      /\ \A e \in L.events, p \in P : e.own /\ p.own => e.seq < p.seq
      /\ \A e \in L.events : e.own => e.share = e.delta
  BY DEF Exact
<1>2. LastSeq \in Nat /\ c \in Nat /\ At(c).share \in Nat /\ c <= LastSeq
  BY <1>1, HistoryOf
<1>3. IsFiniteSet(E) /\ \A e \in E : StepTrue(e) /\ e.seq > c
  BY <1>1 DEF Whole
<1>4. Counted(L.events) /\ Counted(mine) /\ IsFiniteSet(mine)
  BY <1>3, FS_Subset DEF Counted, OwnOf, StepTrue
<1>. HIDE DEF E, c
<1>5. ShareIn(mine) = DeltaIn(mine) /\ DeltaIn(mine) \in Int
  <2>1. \A e \in mine : e.share = e.delta
    BY <1>1 DEF OwnOf
  <2>. HIDE DEF mine
  <2>. QED  BY <1>4, <2>1, ShareIsDelta, DeltaOf
<1>6. \A e \in E : e.seq \in c .. LastSeq /\ e.seq \in Nat /\ e.own \in BOOLEAN
  BY <1>2, <1>3 DEF StepTrue
<1>7. \A b \in c .. LastSeq : At(c).share + DeltaIn(OwnOf(Upto(E, b))) >= At(b).share
                              /\ At(b).share \in Nat
  BY <1>1, <1>2, SumsUp, HistoryOf
<1>8. L.share + ShareIn(mine) >= 0
  <2>1. CASE mine = {}
    BY <1>1, <1>2, <1>4, <1>5, <2>1, DeltaOf
  <2>2. CASE mine # {}
    <3>1. \A e \in mine : e.seq \in Int
      BY <1>6 DEF OwnOf, E
    <3>2. PICK x \in mine : \A f \in mine : f.seq <= x.seq
      <4>. HIDE DEF mine
      <4>. QED  BY <1>4, <2>2, <3>1, SomeLatest
    <3>3. x \in L.events /\ x.own /\ x \in E
      BY <3>2 DEF OwnOf, E
    <3>4. OwnOf(Upto(E, x.seq)) = mine
      <4>1. \A e \in E : e.own /\ e.seq <= x.seq => e \in L.events
        BY <1>1, <1>6, <3>3 DEF E
      <4>. QED  BY <3>2, <4>1 DEF OwnOf, Upto, E
    <3>5. At(c).share + DeltaIn(mine) >= At(x.seq).share /\ At(x.seq).share \in Nat
      BY <1>6, <1>7, <3>3, <3>4
    <3>. QED  BY <1>1, <1>2, <1>5, <3>5
  <2>. QED  BY <2>1, <2>2
<1>9. ASSUME NEW p \in P, p.own, \A q \in P : q.own => p.seq <= q.seq
      PROVE  L.share + ShareIn(mine) + p.delta >= 0
  <2>1. p \in E /\ StepTrue(p) /\ p.seq > c
    BY <1>3 DEF E
  <2>. DEFINE s == p.seq
              r == p.seq - 1
  <2>2. s \in Nat /\ r \in c .. LastSeq /\ s \in c .. LastSeq /\ p.delta \in Int /\ r < s /\ r \in Nat
    BY <1>2, <2>1 DEF StepTrue
  <2>3. At(s).share = At(r).share + p.delta
    BY <1>9, <2>1 DEF StepTrue
  <2>. HIDE DEF s, r
  <2>4. OwnOf(Upto(E, r)) = mine
    <3>1. \A e \in E : e.own /\ e.seq <= r => e \in L.events
      <4>1. \A q \in P : q.own => ~(q.seq <= r)
        BY <1>6, <1>9, <2>2 DEF r, s, E
      <4>. QED  BY <4>1 DEF E
    <3>2. \A e \in L.events : e.own => e.seq <= r
      <4>1. \A e \in L.events : e.own => e.seq < s /\ e.seq \in Nat
        BY <1>1, <1>6, <1>9 DEF E, s
      <4>. QED  BY <2>2, <4>1 DEF r, s
    <3>. QED  BY <3>1, <3>2 DEF OwnOf, Upto, E
  <2>5. At(c).share + DeltaIn(mine) >= At(r).share /\ At(r).share \in Nat
    BY <1>7, <2>2, <2>4
  <2>6. At(s).share \in Nat
    BY <1>7, <2>2
  <2>. QED  BY <1>1, <1>2, <1>5, <2>2, <2>3, <2>5, <2>6
<1>. QED  BY <1>1, <1>2, <1>4, <1>5, <1>8, <1>9

LEMMA SureKept ==
  ASSUME NEW L \in Ledger, Sure(L)
  PROVE  /\ Sure(CapDoubt(L)) /\ Matching(L, CapDoubt(L))
         /\ \A q \in Int, side \in {0, 1, -1} : Sure(TakeJournal(L, q, side))
         /\ \A M : SameFigures(L, M) => Sure(M)
<1>1. Sure(CapDoubt(L))
  <2>1. Smaller(L.doubt, Size(L.share)) = 0
    BY LegFigures DEF Sure, Smaller, Size
  <2>2. CapDoubt(L) = [L EXCEPT !.doubt = 0, !.gaps = <<>>]
    BY <2>1 DEF CapDoubt
  <2>. QED  BY <2>2 DEF Sure, Ledger
<1>2. ASSUME NEW q \in Int, NEW side \in {0, 1, -1}
      PROVE  Sure(TakeJournal(L, q, side))
  BY DEF TakeJournal, Sure, Ledger
<1>. QED  BY <1>1, <1>2, DoubtCapped DEF SameFigures, Sure

\* An exact own step.
LEMMA OwnExact ==
  ASSUME NEW L \in Ledger, Sure(L), L.journal = L.share, NEW leg \in Nat,
         NEW e \in LegExecution, 0 <= L.share + e.share, L.share + e.share <= leg,
         NEW step, step = WalkOwn(L, leg, e, TRUE)
  PROVE  /\ Passed(L, step.led) /\ Sure(step.led) /\ step.out = <<>>
         /\ step.led.share = L.share + e.share /\ step.led.journal = L.share + e.share
<1>. DEFINE books == L.share + e.share
            M == [L EXCEPT !.journal = books, !.share = books]
<1>1. L.share \in Int /\ e.share \in Int /\ books \in Int /\ 0 <= books /\ books <= leg
      /\ leg \in Int
  BY LegFigures DEF LegExecution
<1>. HIDE DEF books
<1>2. Capped(books, leg) = books
  <2>1. Capped(books, leg) = Smaller(Pos(books), leg)
    BY <1>1, CappedTo
  <2>. QED  BY <1>1, <2>1 DEF Smaller, Pos, Larger
<1>3. Bounded(books, books) = books
  BY <1>1 DEF Bounded, Size
<1>4. L.journal + e.share = books /\ L.share + e.share = books
  BY DEF books
<1>5. Size(books) - Size(books) = 0
  BY <1>1 DEF Size
<1>6. step.led = NoteRoomIf(TRUE, CapDoubt(M), leg) /\ step.out = <<>>
  <2>. DEFINE wanted == Bounded(L.share + e.share, L.journal + e.share)
              share == Bounded(Capped(L.share + e.share, leg), L.journal + e.share)
              clipped == Size(wanted) - Size(share)
  <2>1. wanted = books /\ share = books
    BY <1>2, <1>3, <1>4
  <2>2. ~(clipped > 0)
    BY <1>5, <2>1
  <2>3. /\ step.led = NoteRoomIf(TRUE, CapDoubt([L EXCEPT !.journal = L.journal + e.share,
                                                       !.share = share]), leg)
        /\ step.out = IF clipped > 0 THEN <<ClippedOutcome(e, clipped)>> ELSE <<>>
    BY DEF WalkOwn
  <2>4. [L EXCEPT !.journal = L.journal + e.share, !.share = share] = M
    BY <1>4, <2>1
  <2>. HIDE DEF clipped, share, M
  <2>5. step.led = NoteRoomIf(TRUE, CapDoubt(M), leg)
    BY <2>3, <2>4
  <2>. QED  BY <2>2, <2>3, <2>5
<1>7. Passed(L, step.led)
  <2>1. TRUE \in BOOLEAN
    OBVIOUS
  <2>. DEFINE proven == TRUE
  <2>2. proven \in BOOLEAN /\ step = WalkOwn(L, leg, e, proven)
    OBVIOUS
  <2>. HIDE DEF proven
  <2>. QED  BY <1>1, <2>2, OwnWalked
<1>8. M \in Ledger /\ Sure(M) /\ M.share = books /\ M.journal = books
  BY <1>1 DEF Ledger, Sure
<1>. HIDE DEF M
<1>9. Sure(CapDoubt(M)) /\ CapDoubt(M).share = books /\ CapDoubt(M).journal = books
      /\ CapDoubt(M) \in Ledger
  BY <1>8, SureKept DEF Matching, Alike
<1>10. SameFigures(CapDoubt(M), step.led)
  BY <1>1, <1>6, <1>9, RoomNotedIf
<1>11. Sure(step.led) /\ step.led.share = books /\ step.led.journal = books
  BY <1>9, <1>10, SureKept DEF SameFigures
<1>. QED  BY <1>6, <1>7, <1>11 DEF books

\* An exact foreign step: the run keeps what the leg still holds.
LEMMA ForeignExact ==
  ASSUME NEW L \in Ledger, Sure(L), L.journal = L.share, NEW leg \in Nat,
         NEW e \in LegExecution, L.share \in Nat, L.share <= leg, leg + e.delta \in Nat,
         NEW step, step = WalkForeign(L, leg, e, TRUE)
  PROVE  LET left == Smaller(L.share, leg + e.delta)
         IN  /\ Passed(L, step.led) /\ Sure(step.led)
             /\ step.led.share = left /\ step.led.journal = left
             /\ step.out = <<ForeignOutcome(e, L.share - left, 0, TRUE)>>
<1>. DEFINE side == Direction(L.share)
            share == Size(L.share)
            after == (leg + e.delta) * side
            consumed == IF e.delta * side < 0 THEN Smaller(share, Pos(share - after)) ELSE 0
            doubtful == consumed - Smaller(consumed, Pos(share - L.doubt - after))
            left == Smaller(L.share, leg + e.delta)
            rest == L.share - consumed * side
            sure == Pos(L.doubt - doubtful)
            N == [L EXCEPT !.share = rest, !.doubt = sure]
            netted == TakeJournal(N, consumed, side)
<1>1. e.delta \in Int /\ leg + e.delta \in Int /\ leg \in Int /\ L.doubt = 0
  BY DEF LegExecution, Sure
<1>2. share = L.share /\ side \in {0, 1}
      /\ (side = 1 => after = leg + e.delta) /\ (side = 0 => L.share = 0 /\ after = 0)
  BY <1>1 DEF Direction, Size
<1>3. consumed = L.share - left /\ consumed \in Nat /\ left \in Nat
  <2>1. CASE side = 0
    <3>1. e.delta * side = 0
      BY <1>1, <2>1
    <3>2. consumed = 0
      BY <3>1
    <3>. HIDE DEF consumed, side, share, after
    <3>. QED  BY <1>1, <1>2, <2>1, <3>2 DEF Smaller
  <2>2. CASE side = 1
    <3>1. e.delta * side = e.delta
      BY <1>1, <2>2
    <3>2. consumed = IF e.delta < 0 THEN Smaller(L.share, Pos(L.share - (leg + e.delta))) ELSE 0
      <4>. HIDE DEF side, share, after
      <4>. QED  BY <1>2, <2>2, <3>1
    <3>. HIDE DEF consumed
    <3>3. CASE e.delta < 0
      BY <1>1, <3>2, <3>3 DEF Smaller, Pos, Larger
    <3>4. CASE ~(e.delta < 0)
      BY <1>1, <3>2, <3>4 DEF Smaller
    <3>. QED  BY <3>3, <3>4
  <2>. QED  BY <1>2, <2>1, <2>2
<1>4. doubtful = 0
  <2>1. CASE e.delta * side < 0
    <3>1. consumed = Smaller(share, Pos(share - after))
      BY <2>1
    <3>2. after \in Int /\ share \in Nat /\ share - L.doubt - after = share - after
      BY <1>1, <1>2
    <3>. HIDE DEF consumed, share, after
    <3>3. doubtful = consumed - Smaller(consumed, Pos(share - after))
      BY <3>2
    <3>. QED  BY <1>3, <3>1, <3>2, <3>3 DEF Smaller, Pos, Larger
  <2>2. CASE ~(e.delta * side < 0)
    <3>1. consumed = 0
      BY <2>2
    <3>2. share - L.doubt - after \in Int
      BY <1>1, <1>2
    <3>. HIDE DEF consumed, share, after
    <3>. QED  BY <3>1, <3>2 DEF Smaller, Pos, Larger
  <2>. QED  BY <2>1, <2>2
<1>5. step.led = NoteRoomIf(TRUE, CapDoubt(AddCredit(netted, L.doubtSeq, doubtful, side)),
                            leg + e.delta)
      /\ step.out = <<ForeignOutcome(e, consumed, doubtful, TRUE)>>
  BY DEF WalkForeign
<1>. HIDE DEF doubtful
<1>6. step.led = NoteRoomIf(TRUE, CapDoubt(netted), leg + e.delta)
      /\ step.out = <<ForeignOutcome(e, L.share - left, 0, TRUE)>>
  BY <1>3, <1>4, <1>5 DEF AddCredit
<1>7. rest = left /\ sure = 0
  <2>1. rest = left
    <3>. HIDE DEF consumed, left, side
    <3>. QED  BY <1>2, <1>3
  <2>2. sure = 0
    BY <1>1, <1>4 DEF Pos, Larger
  <2>. QED  BY <2>1, <2>2
<1>8. N \in Ledger /\ N.share = left /\ N.journal = L.share /\ Sure(N)
  <2>1. N = [L EXCEPT !.share = rest, !.doubt = sure]
    OBVIOUS
  <2>2. rest \in Int /\ sure \in Int /\ L.journal = L.share
    BY <1>3, <1>7
  <2>. HIDE DEF left, N, rest, sure, consumed, netted, side, share, after
  <2>3. N \in Ledger /\ N.share = rest /\ N.doubt = sure /\ N.journal = L.journal
        /\ N.gaps = L.gaps /\ N.credits = L.credits
    BY <2>1, <2>2 DEF Ledger
  <2>. QED  BY <1>7, <2>2, <2>3 DEF Sure
<1>. HIDE DEF rest, sure, consumed, left, after, share
<1>. HIDE DEF N
<1>9. /\ Sure(netted) /\ netted \in Ledger /\ netted.share = left
      /\ (side = 0 => netted.journal = L.share) /\ (side = 1 => netted.journal = L.share - consumed)
  <2>1. side \in {0, 1, -1} /\ consumed \in Int
    BY <1>2, <1>3
  <2>. HIDE DEF side
  <2>2. Sure(netted)
    BY <1>8, <2>1, SureKept
  <2>3. /\ Alike(N, netted) /\ netted.share = N.share
        /\ (side = 0 => netted.journal = N.journal)
        /\ (side = 1 => netted.journal = N.journal - consumed)
    BY <1>8, <2>1, JournalTaken
  <2>. HIDE DEF netted
  <2>. QED  BY <1>8, <2>2, <2>3 DEF Alike
<1>. HIDE DEF netted
<1>10. netted.journal = left
  BY <1>2, <1>3, <1>7, <1>9 DEF rest
<1>11. Sure(CapDoubt(netted)) /\ CapDoubt(netted) \in Ledger
       /\ CapDoubt(netted).share = left /\ CapDoubt(netted).journal = left
  BY <1>9, <1>10, SureKept DEF Matching, Alike
<1>12. SameFigures(CapDoubt(netted), step.led)
  BY <1>1, <1>6, <1>11, RoomNotedIf
<1>13. Sure(step.led) /\ step.led.share = left /\ step.led.journal = left
  BY <1>11, <1>12, SureKept DEF SameFigures
<1>14. Passed(L, step.led)
  <2>1. Within(L.share, L.journal)
    BY DEF Within
  <2>. QED  BY <1>1, <2>1, ForeignWalked
<1>. QED  BY <1>6, <1>13, <1>14 DEF left

(***************************************************************************)
(* What a judgement reports.                                               *)
(***************************************************************************)
Outcome == [id : Int, own : BOOLEAN, consumed : Int, doubtful : Int, clipped : Int,
            proven : BOOLEAN]
RepSet(out) == {[seq |-> out[i].id, qty |-> out[i].consumed - out[i].doubtful] :
                   i \in {j \in DOMAIN out : Reported(out[j])}}

\* What the executions between two seqs took of the run.
Lost(a, b) == {[seq |-> s, qty |-> taken[s + 1]] : s \in {n \in a + 1 .. b : taken[n + 1] > 0}}

LEMMA OutcomesJoined ==
  ASSUME NEW a \in Seq(Outcome), NEW b \in Seq(Outcome)
  PROVE  /\ a \o b \in Seq(Outcome) /\ RepSet(a \o b) = RepSet(a) \union RepSet(b)
         /\ (a \o b = <<>> <=> a = <<>> /\ b = <<>>)
<1>. DEFINE rep(o) == [seq |-> o.id, qty |-> o.consumed - o.doubtful]
            all == a \o b
<1>1. /\ all \in Seq(Outcome) /\ Len(all) = Len(a) + Len(b) /\ Len(a) \in Nat /\ Len(b) \in Nat
      /\ DOMAIN all = 1 .. Len(all) /\ DOMAIN a = 1 .. Len(a) /\ DOMAIN b = 1 .. Len(b)
      /\ \A i \in 1 .. Len(all) : all[i] = IF i <= Len(a) THEN a[i] ELSE b[i - Len(a)]
  BY ConcatProperties
<1>2. RepSet(a) = {rep(a[i]) : i \in {j \in DOMAIN a : Reported(a[j])}}
      /\ RepSet(b) = {rep(b[i]) : i \in {j \in DOMAIN b : Reported(b[j])}}
      /\ RepSet(all) = {rep(all[i]) : i \in {j \in DOMAIN all : Reported(all[j])}}
  BY DEF RepSet
<1>. HIDE DEF rep, all
<1>3. ASSUME NEW i \in 1 .. Len(all)
      PROVE  \/ i \in 1 .. Len(a) /\ all[i] = a[i]
             \/ \E k \in 1 .. Len(b) : all[i] = b[k]
  <2>1. CASE i <= Len(a)
    BY <1>1, <2>1
  <2>2. CASE ~(i <= Len(a))
    <3>1. i - Len(a) \in 1 .. Len(b)
      BY <1>1, <2>2
    <3>2. all[i] = b[i - Len(a)]
      BY <1>1, <2>2
    <3>. QED  BY <3>1, <3>2
  <2>. QED  BY <2>1, <2>2
<1>4. \A i \in 1 .. Len(a) : i \in 1 .. Len(all) /\ all[i] = a[i]
  BY <1>1
<1>5. ASSUME NEW i \in 1 .. Len(b)
      PROVE  \E k \in 1 .. Len(all) : all[k] = b[i]
  <2>1. i + Len(a) \in 1 .. Len(all) /\ ~(i + Len(a) <= Len(a)) /\ (i + Len(a)) - Len(a) = i
    BY <1>1
  <2>2. all[i + Len(a)] = b[(i + Len(a)) - Len(a)]
    BY <1>1, <2>1
  <2>. QED  BY <2>1, <2>2
<1>6. RepSet(all) \subseteq RepSet(a) \union RepSet(b)
  BY <1>1, <1>2, <1>3
<1>7. RepSet(a) \subseteq RepSet(all) /\ RepSet(b) \subseteq RepSet(all)
  <2>1. RepSet(a) \subseteq RepSet(all)
    BY <1>1, <1>2, <1>4
  <2>2. RepSet(b) \subseteq RepSet(all)
    BY <1>1, <1>2, <1>5
  <2>. QED  BY <2>1, <2>2
<1>8. all = <<>> <=> a = <<>> /\ b = <<>>
  BY <1>1
<1>. QED  BY <1>1, <1>6, <1>7, <1>8 DEF all

LEMMA LostJoined ==
  ASSUME NEW a \in Int, NEW b \in Int, NEW c \in Int, a <= b, b <= c
  PROVE  Lost(a, c) = Lost(a, b) \union Lost(b, c) /\ Lost(a, a) = {}
<1>1. a + 1 .. c = (a + 1 .. b) \union (b + 1 .. c) /\ a + 1 .. a = {}
  OBVIOUS
<1>. QED  BY <1>1 DEF Lost

LEMMA NothingLost ==
  ASSUME NEW a \in Int, NEW b \in Int, \A s \in a + 1 .. b : taken[s + 1] = 0
  PROVE  Lost(a, b) = {}
BY DEF Lost

(***************************************************************************)
(* A walk of an exact ledger.                                              *)
(***************************************************************************)
Mine(S) == DeltaIn(OwnOf(S))

\* The walk w of L reached s, the executions of rest ahead.
Walked(L, w, s, rest) ==
    /\ Passed(L, w.led) /\ Sure(w.led)
    /\ s \in L.cursor .. LastSeq /\ w.leg = At(s).leg
    /\ w.led.share = At(s).share /\ w.led.journal = At(s).share
    /\ w.out \in Seq(Outcome) /\ RepSet(w.out) = Lost(L.cursor, s)
    /\ At(s).share + Mine(rest) <= L.share + Mine(L.events)
    /\ w.out = <<>> => At(s).share + Mine(rest) = L.share + Mine(L.events)

LEMMA OneReport ==
  ASSUME NEW o \in Outcome
  PROVE  /\ <<o>> \in Seq(Outcome) /\ <<o>> # <<>>
         /\ RepSet(<<o>>) = IF Reported(o) THEN {[seq |-> o.id, qty |-> o.consumed - o.doubtful]}
                            ELSE {}
<1>1. DOMAIN <<o>> = {1} /\ <<o>>[1] = o
  OBVIOUS
<1>. QED  BY <1>1 DEF RepSet

LEMMA StepExact ==
  ASSUME HistoryInv, NEW L, NEW P, Exact(L, P), NEW w, NEW s, NEW rest, Walked(L, w, s, rest),
         rest \subseteq L.events, NEW e \in rest, s < e.seq,
         \A f \in L.events \union P : ~(s < f.seq /\ f.seq < e.seq)
  PROVE  Walked(L, WalkOne(w, e, TRUE), e.seq, rest \ {e})
<1>. DEFINE E == L.events \union P
            c == L.cursor
            n == WalkOne(w, e, TRUE)
            t == e.seq
            r == e.seq - 1
            after == rest \ {e}
            mine == WalkOwn(w.led, w.leg + e.delta, e, TRUE)
            other == WalkForeign(w.led, w.leg, e, TRUE)
<1>1. /\ Whole(E, c) /\ c \in 0 .. LastSeq /\ LedgerOk(L) /\ L.leg \in Int
      /\ e.share = IF e.own THEN e.delta ELSE 0
      /\ e \in E /\ e \in L.events /\ L \in Ledger
      /\ \A f \in L.events : f.seq \in Int /\ f.id = f.seq
      /\ e \in LegExecution
  <2>1. LedgerOk(L) /\ L \in Ledger
    BY DEF Exact, LedgerOk
  <2>2. L.leg \in Int /\ L.events \subseteq LegExecution
    BY <2>1 DEF Ledger
  <2>. QED  BY <2>1, <2>2 DEF Exact, LedgerOk, ListsOk, Distinct
<1>2. /\ LastSeq \in Nat /\ c \in Nat /\ s \in Nat /\ s \in c .. LastSeq /\ s \in 0 .. LastSeq
  BY <1>1, HistoryOf DEF Walked
<1>3. StepTrue(e)
  BY <1>1 DEF Whole
<1>4. /\ t \in Nat /\ r \in Nat /\ r \in s .. LastSeq /\ t \in 1 .. LastSeq /\ t \in c .. LastSeq
      /\ r \in 0 .. LastSeq /\ t \in 0 .. LastSeq /\ e.delta \in Int /\ s < t /\ r = t - 1
      /\ s <= t /\ c <= s /\ s <= r /\ r <= t /\ e.own \in BOOLEAN
  BY <1>2, <1>3 DEF StepTrue
<1>5. /\ At(r).leg = At(s).leg /\ At(r).share = At(s).share
      /\ \A x \in s + 1 .. r : taken[x + 1] = 0
  <2>1. \A f \in E : ~(s < f.seq /\ f.seq <= r)
    <3>1. \A f \in E : f.seq \in Int
      BY <1>1 DEF Whole, StepTrue
    <3>. QED  BY <1>4, <3>1
  <2>. HIDE DEF E, c, r
  <2>. QED  BY <1>1, <1>2, <1>4, <2>1, Quiet
<1>6. /\ At(s).leg \in Nat /\ At(s).share \in Nat /\ At(t).leg \in Nat /\ At(t).share \in Nat
      /\ At(s).share <= At(s).leg /\ At(t).share <= At(t).leg /\ taken[t + 1] \in Nat
  BY <1>2, <1>4, HistoryOf
<1>7. At(t).leg = At(s).leg + e.delta
  BY <1>3, <1>5 DEF StepTrue
<1>8. /\ w.led \in Ledger /\ Sure(w.led) /\ w.leg = At(s).leg /\ w.led.share = At(s).share
      /\ w.led.journal = w.led.share /\ w.out \in Seq(Outcome) /\ RepSet(w.out) = Lost(c, s)
  BY DEF Walked, Passed
<1>9. /\ Counted(rest) /\ Counted(OwnOf(rest)) /\ Counted(OwnOf(after)) /\ Counted(L.events)
      /\ Mine(rest) \in Int /\ Mine(after) \in Int /\ Mine(L.events) \in Int /\ L.share \in Int
  <2>1. Counted(L.events) /\ L.share \in Int
    BY OwnHeld
  <2>2. Counted(rest) /\ Counted(after)
    BY <2>1, FS_Subset DEF Counted
  <2>3. Counted(OwnOf(rest)) /\ Counted(OwnOf(after)) /\ Counted(OwnOf(L.events))
    <3>. HIDE DEF after
    <3>. QED  BY <2>1, <2>2, FS_Subset DEF Counted, OwnOf
  <2>. HIDE DEF after
  <2>. QED  BY <2>1, <2>2, <2>3, DeltaOf DEF Mine
<1>10. Mine(rest) = (IF e.own THEN e.delta ELSE 0) + Mine(after)
  <2>1. CASE e.own
    <3>1. OwnOf(rest) \ {e} = OwnOf(after) /\ e \in OwnOf(rest)
      BY <2>1 DEF OwnOf
    <3>2. Mine(rest) = e.delta + DeltaIn(OwnOf(rest) \ {e})
      BY <1>9, <3>1, DeltaOf DEF Mine
    <3>. QED  BY <2>1, <3>1, <3>2 DEF Mine
  <2>2. CASE ~e.own
    <3>1. OwnOf(rest) = OwnOf(after)
      BY <2>2 DEF OwnOf
    <3>. QED  BY <1>9, <2>2, <3>1 DEF Mine
  <2>. QED  BY <2>1, <2>2
<1>11. Lost(c, t) = Lost(c, s) \union Lost(r, t) /\ Lost(r, t) = IF taken[t + 1] > 0
                        THEN {[seq |-> t, qty |-> taken[t + 1]]} ELSE {}
  <2>. HIDE DEF c, t, r
  <2>1. Lost(s, r) = {}
    <3>1. s \in Int /\ r \in Int
      BY <1>2, <1>4
    <3>2. \A x \in s + 1 .. r : taken[x + 1] = 0
      BY <1>5
    <3>. QED  BY <3>1, <3>2, NothingLost
  <2>2. Lost(c, t) = Lost(c, s) \union Lost(s, t) /\ Lost(s, t) = Lost(s, r) \union Lost(r, t)
    BY <1>2, <1>4, LostJoined
  <2>3. r + 1 .. t = {t}
    BY <1>4
  <2>. QED  BY <2>1, <2>2, <2>3 DEF Lost
<1>12. n = Onwards(w, w.leg + e.delta, IF e.own THEN mine ELSE other)
  BY DEF WalkOne
<1>13. w.leg + e.delta = At(t).leg /\ w.led.share <= w.leg /\ w.leg \in Nat /\ w.led.share \in Nat
  BY <1>6, <1>7, <1>8
<1>14. /\ At(s).share + Mine(rest) <= L.share + Mine(L.events)
       /\ w.out = <<>> => At(s).share + Mine(rest) = L.share + Mine(L.events)
       /\ Passed(L, w.led)
  BY DEF Walked
<1>. HIDE DEF E, c, n, r, t, after, mine, other
<1>15. CASE e.own
  <2>1. At(t).share = At(s).share + e.delta /\ taken[t + 1] = 0
    BY <1>3, <1>5, <1>15 DEF StepTrue, t, r
  <2>2. w.led.share + e.share = At(t).share
    BY <1>1, <1>8, <1>15, <2>1
  <2>3. /\ Passed(w.led, mine.led) /\ Sure(mine.led) /\ mine.out = <<>>
        /\ mine.led.share = At(t).share /\ mine.led.journal = At(t).share
    <3>. DEFINE leg == w.leg + e.delta
                M == w.led
    <3>1. leg \in Nat /\ At(t).share <= leg /\ M \in Ledger /\ Sure(M) /\ M.journal = M.share
          /\ M.share + e.share = At(t).share /\ 0 <= M.share + e.share /\ M.share + e.share <= leg
          /\ mine = WalkOwn(M, leg, e, TRUE)
      BY <1>6, <1>8, <1>13, <2>2 DEF mine
    <3>. HIDE DEF leg, M
    <3>2. /\ Passed(M, mine.led) /\ Sure(mine.led) /\ mine.out = <<>>
          /\ mine.led.share = M.share + e.share /\ mine.led.journal = M.share + e.share
      BY <1>1, <3>1, OwnExact
    <3>. QED  BY <3>1, <3>2 DEF M
  <2>4. n.led = mine.led /\ n.leg = At(t).leg /\ n.out = w.out
    <3>1. n.led = mine.led /\ n.leg = w.leg + e.delta /\ n.out = w.out \o mine.out
      BY <1>12, <1>15 DEF Onwards
    <3>2. w.out \o <<>> = w.out
      BY <1>8
    <3>. QED  BY <1>13, <2>3, <3>1, <3>2
  <2>5. Passed(L, n.led) /\ Sure(n.led) /\ n.led.share = At(t).share /\ n.led.journal = At(t).share
    BY <1>1, <1>14, <2>3, <2>4, PassedOn
  <2>6. RepSet(n.out) = Lost(c, t)
    BY <1>8, <1>11, <2>1, <2>4
  <2>7. At(t).share + Mine(after) = At(s).share + Mine(rest)
    BY <1>4, <1>6, <1>9, <1>10, <1>15, <2>1
  <2>. QED  BY <1>4, <1>8, <1>14, <2>4, <2>5, <2>6, <2>7 DEF Walked, c, n, t, after
<1>16. CASE ~e.own
  <2>. DEFINE left == At(t).share
              o == ForeignOutcome(e, w.led.share - left, 0, TRUE)
  <2>1. left = Smaller(At(s).share, At(t).leg) /\ taken[t + 1] = At(s).share - left
    BY <1>3, <1>5, <1>16 DEF StepTrue, t, r
  <2>2. /\ Passed(w.led, other.led) /\ Sure(other.led) /\ other.led.share = left
        /\ other.led.journal = left /\ other.out = <<o>>
    <3>. DEFINE leg == w.leg
                M == w.led
                kept == Smaller(M.share, leg + e.delta)
    <3>1. leg \in Nat /\ M \in Ledger /\ Sure(M) /\ M.journal = M.share
          /\ M.share \in Nat /\ M.share <= leg /\ leg + e.delta \in Nat
          /\ other = WalkForeign(M, leg, e, TRUE) /\ kept = left
      BY <1>6, <1>8, <1>13, <2>1 DEF other
    <3>. HIDE DEF left
    <3>2. o = ForeignOutcome(e, M.share - left, 0, TRUE)
      OBVIOUS
    <3>. HIDE DEF leg, M, o
    <3>3. /\ Passed(M, other.led) /\ Sure(other.led) /\ other.led.share = kept
          /\ other.led.journal = kept
          /\ other.out = <<ForeignOutcome(e, M.share - kept, 0, TRUE)>>
      BY <1>1, <3>1, ForeignExact
    <3>. QED  BY <3>1, <3>2, <3>3 DEF M
  <2>3. n.led = other.led /\ n.leg = At(t).leg /\ n.out = w.out \o <<o>>
    <3>1. n.led = other.led /\ n.leg = w.leg + e.delta /\ n.out = w.out \o other.out
      BY <1>12, <1>16 DEF Onwards
    <3>. QED  BY <1>13, <2>2, <3>1
  <2>4. Passed(L, n.led) /\ Sure(n.led) /\ n.led.share = At(t).share /\ n.led.journal = At(t).share
    BY <1>1, <1>14, <2>2, <2>3, PassedOn
  <2>5. /\ o \in Outcome /\ o.consumed = taken[t + 1] /\ o.doubtful = 0 /\ o.id = t
        /\ (Reported(o) <=> taken[t + 1] > 0)
    <3>1. w.led.share - left = taken[t + 1]
      BY <1>8, <2>1
    <3>2. e.id = t /\ e.id \in Int
      BY <1>1, <1>4 DEF t
    <3>3. o = [id |-> t, own |-> FALSE, consumed |-> taken[t + 1], doubtful |-> 0, clipped |-> 0,
               proven |-> TRUE]
      BY <3>1, <3>2 DEF ForeignOutcome
    <3>. HIDE DEF o
    <3>. QED  BY <1>6, <3>2, <3>3 DEF Outcome, Reported
  <2>6. RepSet(<<o>>) = Lost(r, t) /\ <<o>> \in Seq(Outcome) /\ <<o>> # <<>>
    <3>. HIDE DEF o
    <3>1. o.consumed - o.doubtful = taken[t + 1]
      BY <1>6, <2>5
    <3>. QED  BY <1>11, <2>5, <3>1, OneReport
  <2>7. RepSet(n.out) = Lost(c, t) /\ n.out \in Seq(Outcome) /\ n.out # <<>>
    <3>. HIDE DEF o
    <3>. QED  BY <1>8, <1>11, <2>3, <2>6, OutcomesJoined
  <2>8. At(t).share + Mine(after) <= At(s).share + Mine(rest)
    <3>1. At(t).share <= At(s).share
      BY <1>6, <2>1 DEF Smaller
    <3>. QED  BY <1>6, <1>9, <1>10, <1>16, <3>1
  <2>9. At(t).share + Mine(after) <= L.share + Mine(L.events)
    BY <1>6, <1>9, <1>14, <2>8
  <2>. QED  BY <1>4, <2>3, <2>4, <2>7, <2>9 DEF Walked, c, n, t, after
<1>. QED  BY <1>15, <1>16

\* The walk w moved onto the next view, as R, with its figures and its reports as they were.
MovedOn(w, due, R) ==
    /\ Sure(R.led) /\ R.led.share = w.led.share /\ R.led.journal = w.led.share
    /\ R.out = w.out /\ R.led.events = w.led.events \ due

LEMMA CursorExact ==
  ASSUME NEW w, w.led \in Ledger, Sure(w.led), w.led.journal = w.led.share,
         NEW view \in LegView, Capped(w.led.share, view.size) = w.led.share, NEW due,
         NEW M, M = CursorOnto(w, view, due, TRUE)
  PROVE  MovedOn(w, due, M)
<1>. DEFINE L == w.led
            share == Capped(L.share, view.size)
            events == L.events \ due
            views == {v \in L.views : v.seq >= view.seq}
            c == view.seq
            z == view.size
            N == [L EXCEPT !.events = events, !.views = views, !.cursor = c,
                           !.leg = z, !.share = share]
<1>1. c \in Int /\ z \in Int /\ z \in Nat
  BY DEF LegView
<1>2. events \in SUBSET LegExecution /\ views \in SUBSET LegView
  BY DEF Ledger
<1>3. share = L.share /\ share \in Int
  BY DEF Ledger
<1>4. M.led = NoteRoomIf(TRUE, CapDoubt(N), z) /\ M.out = w.out
  BY DEF CursorOnto
<1>. HIDE DEF L, events, views, c, z, share
<1>5. /\ N \in Ledger /\ N.share = share /\ N.journal = L.journal /\ N.events = events
      /\ N.doubt = L.doubt /\ N.gaps = L.gaps /\ N.credits = L.credits
  <2>. DEFINE A == [L EXCEPT !.events = events, !.views = views]
              X == [A EXCEPT !.cursor = c, !.leg = z]
  <2>0. L \in Ledger
    BY DEF L
  <2>1. A \in Ledger /\ A.events = events /\ A.journal = L.journal
        /\ A.doubt = L.doubt /\ A.gaps = L.gaps /\ A.credits = L.credits
    BY <1>2, <2>0 DEF Ledger
  <2>2. N = [X EXCEPT !.share = share]
    BY <2>0 DEF Ledger
  <2>. HIDE DEF A, N
  <2>3. X \in Ledger /\ X.events = events /\ X.journal = L.journal
        /\ X.doubt = L.doubt /\ X.gaps = L.gaps /\ X.credits = L.credits
    BY <1>1, <2>1 DEF Ledger
  <2>. HIDE DEF X
  <2>. QED  BY <1>3, <2>2, <2>3 DEF Ledger
<1>. HIDE DEF N
<1>6. Sure(N) /\ N.journal = N.share
  BY <1>3, <1>5 DEF Sure, L
<1>7. Sure(CapDoubt(N)) /\ CapDoubt(N) \in Ledger /\ CapDoubt(N).share = share
      /\ CapDoubt(N).journal = share /\ CapDoubt(N).events = events
  BY <1>5, <1>6, SureKept DEF Matching, Alike
<1>8. SameFigures(CapDoubt(N), M.led) /\ Passed(CapDoubt(N), M.led)
  BY <1>1, <1>4, <1>7, RoomNotedIf
<1>. QED  BY <1>3, <1>4, <1>7, <1>8, SureKept DEF SameFigures, Passed, MovedOn, L, events

\* What a judgement of an exact ledger L leaves: an exact ledger M, and the reports of what the
\* executions between really took.
Fair(L, P, M, out) ==
    /\ Exact(M, P) /\ M.journal = M.share
    /\ L.cursor <= M.cursor /\ M.events \subseteq L.events
    /\ out \in Seq(Outcome) /\ RepSet(out) = Lost(L.cursor, M.cursor)
    /\ M.share + Mine(M.events) <= L.share + Mine(L.events)
    /\ out = <<>> => M.share + Mine(M.events) = L.share + Mine(L.events)

LEMMA ExactTyped ==
  ASSUME HistoryInv, NEW L, NEW P, Exact(L, P)
  PROVE  /\ L \in Ledger /\ LedgerOk(L) /\ ListsOk(L) /\ BoundsOk(L) /\ Started(L)
         /\ L.cursor \in Nat /\ L.share \in Nat /\ L.leg \in Nat /\ L.share <= L.leg
         /\ Mine(L.events) \in Int /\ Counted(L.events) /\ L.views \subseteq LegView
         /\ L.events \subseteq LegExecution
<1>1. LastSeq \in Nat /\ L.cursor \in 0 .. LastSeq /\ LedgerOk(L)
  BY HistoryOf DEF Exact
<1>2. Started(L) /\ L.cursor \in Nat
  BY <1>1 DEF Started, Unset
<1>3. L \in Ledger /\ ListsOk(L) /\ BoundsOk(L)
  BY <1>1, <1>2 DEF LedgerOk
<1>4. L.share \in Nat /\ L.leg \in Nat /\ L.share <= L.leg
  BY <1>1, HistoryOf DEF Exact
<1>5. Counted(L.events) /\ Mine(L.events) \in Int
  <2>1. Counted(L.events)
    BY OwnHeld
  <2>2. Counted(OwnOf(L.events))
    BY <2>1, FS_Subset DEF Counted, OwnOf
  <2>. QED  BY <2>1, <2>2, DeltaOf DEF Mine
<1>6. L.views \subseteq LegView /\ L.events \subseteq LegExecution
  BY <1>3 DEF Ledger
<1>. QED  BY <1>1, <1>2, <1>3, <1>4, <1>5, <1>6

LEMMA FairItself ==
  ASSUME HistoryInv, NEW L, NEW P, Exact(L, P), L.journal = L.share
  PROVE  Fair(L, P, L, <<>>)
<1>1. L.cursor \in Nat /\ L.share \in Nat /\ Mine(L.events) \in Int
  BY ExactTyped
<1>2. Lost(L.cursor, L.cursor) = {}
  BY <1>1, LostJoined
<1>3. <<>> \in Seq(Outcome) /\ RepSet(<<>>) = {}
  BY DEF RepSet
<1>. QED  BY <1>1, <1>2, <1>3 DEF Fair

LEMMA FairOn ==
  ASSUME HistoryInv, NEW P, NEW L, Exact(L, P), NEW M, NEW a, Fair(L, P, M, a),
         NEW N, NEW b, Fair(M, P, N, b)
  PROVE  Fair(L, P, N, a \o b)
<1>1. Exact(M, P) /\ Exact(N, P)
  BY DEF Fair
<1>2. /\ L.cursor \in Nat /\ L.share \in Nat /\ Mine(L.events) \in Int
      /\ M.cursor \in Nat /\ M.share \in Nat /\ Mine(M.events) \in Int
      /\ N.cursor \in Nat /\ N.share \in Nat /\ Mine(N.events) \in Int
  BY <1>1, ExactTyped
<1>3. Lost(L.cursor, N.cursor) = Lost(L.cursor, M.cursor) \union Lost(M.cursor, N.cursor)
  BY <1>2, LostJoined DEF Fair
<1>4. /\ a \o b \in Seq(Outcome) /\ RepSet(a \o b) = RepSet(a) \union RepSet(b)
      /\ (a \o b = <<>> => a = <<>> /\ b = <<>>)
  BY OutcomesJoined DEF Fair
<1>5. L.cursor <= N.cursor /\ N.events \subseteq L.events
  BY <1>2 DEF Fair
<1>6. N.share + Mine(N.events) <= L.share + Mine(L.events)
  BY <1>2 DEF Fair
<1>7. a \o b = <<>> => N.share + Mine(N.events) = L.share + Mine(L.events)
  BY <1>4 DEF Fair
<1>. QED  BY <1>3, <1>4, <1>5, <1>6, <1>7 DEF Fair

LEMMA WaitingExact ==
  ASSUME HistoryInv, NEW L, NEW P, Exact(L, P), L.journal = L.share, NEW b \in BOOLEAN
  PROVE  LET M == [L EXCEPT !.waiting = b]
         IN  Fair(L, P, M, <<>>) /\ M.views = L.views /\ M.cursor = L.cursor
<1>. DEFINE M == [L EXCEPT !.waiting = b]
<1>1. L \in Ledger /\ LedgerOk(L)
  BY ExactTyped
<1>2. /\ M.views = L.views /\ M.events = L.events /\ M.cursor = L.cursor /\ M.leg = L.leg
      /\ M.share = L.share /\ M.journal = L.journal /\ M.doubt = L.doubt /\ M.gaps = L.gaps
      /\ M.credits = L.credits
  BY <1>1 DEF Ledger
<1>3. LedgerOk(M)
  <2>1. Matching(L, M)
    BY <1>1, WaitingSet
  <2>. HIDE DEF M
  <2>. QED  BY <1>1, <2>1, MatchingKept
<1>. HIDE DEF M
<1>4. Exact(M, P)
  BY <1>2, <1>3 DEF Exact, Sure
<1>5. Fair(L, P, L, <<>>)
  BY FairItself
<1>6. Fair(L, P, M, <<>>)
  BY <1>2, <1>4, <1>5 DEF Fair
<1>. QED  BY <1>2, <1>6 DEF M

\* An exact ledger walks onto a view up to which nothing is missing.
LEMMA WalkExact ==
  ASSUME HistoryInv, NEW L, NEW P, Exact(L, P), L.journal = L.share,
         NEW view \in L.views, L.cursor < view.seq, \A p \in P : view.seq < p.seq
  PROVE  LET M == Walk(L, view, TRUE) IN Fair(L, P, M.led, M.out)
<1>. DEFINE M == Walk(L, view, TRUE)
            c == L.cursor
            z == view.seq
            E == L.events \union P
            due == Due(L, z)
            list == DueInOrder(L, z)
            N == Len(list)
            S == WalkSteps(L, list, TRUE)
            Reached(n) == IF n = 0 THEN c ELSE list[n].seq
            Ahead(n) == L.events \ {list[i] : i \in 1 .. n}
            G == {n \in Nat : n <= N => Walked(L, S[n], Reached(n), Ahead(n))}
<1>1. /\ L \in Ledger /\ ListsOk(L) /\ BoundsOk(L) /\ L.share \in Nat /\ L.leg \in Nat
      /\ Mine(L.events) \in Int /\ L.views \subseteq LegView /\ c \in Nat /\ LastSeq \in Nat
      /\ view \in LegView
  BY ExactTyped, HistoryOf
<1>2. z \in 0 .. LastSeq /\ view.size = At(z).leg /\ z \in Nat /\ c < z /\ z <= LastSeq
      /\ z \in c .. LastSeq
  BY <1>1 DEF Exact
<1>3. Whole(E, c) /\ c \in 0 .. LastSeq /\ Sure(L) /\ L.share = At(c).share /\ L.leg = At(c).leg
  BY DEF Exact
<1>4. \A e \in E : e.seq \in Nat /\ e.seq > c /\ e.seq \in c .. LastSeq
  BY <1>1, <1>3 DEF Whole, StepTrue
<1>5. /\ N \in Nat /\ list \in Seq(due)
      /\ \A i \in 1 .. N : list[i] \in due
      /\ \A i, j \in 1 .. N : i < j => list[i].seq < list[j].seq
      /\ \A e \in due : \E i \in 1 .. N : list[i] = e
      /\ due = {e \in L.events : e.seq <= z}
  <2>1. Distinct(due) /\ InSeqOrder(due, list)
    BY <1>1, DueIsListed DEF ListsOk
  <2>2. due = {e \in L.events : e.seq <= z}
    BY <1>4 DEF Due
  <2>. HIDE DEF due, list
  <2>3. list \in Seq(due) /\ N = Cardinality(due) /\ N \in Nat
        /\ \A e \in due : \E i \in 1 .. N : list[i] = e
    BY <2>1, SeqOrderNamesAll
  <2>. QED  BY <2>1, <2>2, <2>3 DEF InSeqOrder
<1>. HIDE DEF c, z, E, due
<1>6. /\ S[0] = [led |-> L, leg |-> L.leg, out |-> <<>>]
      /\ \A n \in 1 .. N : S[n] = WalkOne(S[n - 1], list[n], TRUE)
  <2>. DEFINE proven == TRUE
  <2>1. S = WalkSteps(L, list, proven) /\ Len(list) \in Nat /\ N = Len(list)
    BY <1>5
  <2>. HIDE DEF proven, list, S, N
  <2>2. /\ S[0] = [led |-> L, leg |-> L.leg, out |-> <<>>]
        /\ \A n \in 1 .. Len(list) : S[n] = WalkOne(S[n - 1], list[n], proven)
    BY <2>1, WalkStepwise
  <2>. QED  BY <2>1, <2>2 DEF proven
<1>. HIDE DEF list, N, S
<1>7. 0 \in G
  <2>1. Ahead(0) = L.events /\ Reached(0) = c
    OBVIOUS
  <2>2. Passed(L, L)
    <3>1. \A s \in Sides : L.room[s] \in Int
      BY <1>1 DEF Ledger
    <3>. QED  BY <1>1, <3>1 DEF Passed
  <2>3. RepSet(<<>>) = {} /\ <<>> \in Seq(Outcome) /\ Lost(c, c) = {}
    BY <1>1, LostJoined DEF RepSet, c
  <2>4. c \in c .. LastSeq
    BY <1>1, <1>3
  <2>5. Walked(L, S[0], c, L.events)
    BY <1>1, <1>3, <1>6, <2>2, <2>3, <2>4 DEF Walked, c
  <2>. QED  BY <2>1, <2>5
<1>8. ASSUME NEW n \in Nat, n \in G
      PROVE  n + 1 \in G
  <2>. SUFFICES ASSUME n + 1 <= N
                PROVE  Walked(L, S[n + 1], Reached(n + 1), Ahead(n + 1))
    OBVIOUS
  <2>. DEFINE e == list[n + 1]
              s == Reached(n)
  <2>1. n <= N /\ n + 1 \in 1 .. N /\ (n + 1) - 1 = n /\ n + 1 # 0
    BY <1>5
  <2>2. Walked(L, S[n], s, Ahead(n))
    BY <1>8, <2>1
  <2>3. e \in due /\ e \in L.events /\ e \in E /\ e.seq <= z /\ e.seq \in Nat /\ e.seq > c
    BY <1>4, <1>5, <2>1 DEF E
  <2>4. s \in Nat /\ s < e.seq /\ \A i \in 1 .. n : list[i].seq <= s /\ list[i].seq < e.seq
    <3>1. CASE n = 0
      BY <1>1, <2>3, <3>1 DEF c
    <3>2. CASE n # 0
      <4>1. n \in 1 .. N /\ s = list[n].seq /\ n < n + 1
        BY <1>5, <2>1, <3>2
      <4>2. s < e.seq /\ s \in Nat
        BY <1>4, <1>5, <2>1, <4>1 DEF E
      <4>3. \A i \in 1 .. n : i \in 1 .. N /\ (i < n \/ i = n) /\ i < n + 1
        BY <1>5, <2>1
      <4>. HIDE DEF e, s
      <4>4. \A i \in 1 .. n : list[i].seq < s \/ list[i].seq = s
        BY <1>5, <4>1, <4>3
      <4>5. \A i \in 1 .. n : list[i].seq \in Nat
        BY <1>4, <1>5, <4>3 DEF E
      <4>. QED  BY <2>3, <4>2, <4>4, <4>5
    <3>. QED  BY <3>1, <3>2
  <2>5. e \in Ahead(n)
    <3>1. \A i \in 1 .. n : list[i] # e
      BY <2>3, <2>4
    <3>. QED  BY <2>3, <3>1
  <2>6. ASSUME NEW f \in E, s < f.seq, f.seq < e.seq
        PROVE  FALSE
    <3>1. f.seq \in Nat /\ f.seq <= z
      BY <1>2, <1>4, <2>3, <2>6
    <3>2. f \in due
      BY <1>2, <1>5, <3>1 DEF E, z
    <3>3. PICK i \in 1 .. N : list[i] = f
      BY <1>5, <3>2
    <3>4. CASE i <= n
      <4>1. i \in 1 .. n
        BY <3>4
      <4>2. f.seq <= s
        BY <2>4, <3>3, <4>1
      <4>. QED  BY <2>4, <2>6, <3>1, <4>2
    <3>5. CASE i = n + 1
      BY <2>3, <2>6, <3>3, <3>5
    <3>6. CASE i > n + 1
      <4>1. e.seq < f.seq
        BY <1>5, <2>1, <3>3, <3>6
      <4>. QED  BY <2>3, <2>6, <3>1, <4>1
    <3>. QED  BY <3>4, <3>5, <3>6
  <2>7. Ahead(n + 1) = Ahead(n) \ {e}
    <3>1. 1 .. n + 1 = (1 .. n) \union {n + 1}
      OBVIOUS
    <3>2. {list[i] : i \in 1 .. n + 1} = {list[i] : i \in 1 .. n} \union {e}
      BY <3>1
    <3>. QED  BY <3>2
  <2>8. Reached(n + 1) = e.seq /\ S[n + 1] = WalkOne(S[n], e, TRUE)
    BY <1>6, <2>1
  <2>9. Ahead(n) \subseteq L.events
    OBVIOUS
  <2>. DEFINE rest == Ahead(n)
              w == S[n]
  <2>. HIDE DEF e, s, rest, w
  <2>10. Walked(L, WalkOne(w, e, TRUE), e.seq, rest \ {e})
    <3>1. Walked(L, w, s, rest) /\ rest \subseteq L.events /\ e \in rest /\ s < e.seq
      BY <2>2, <2>4, <2>5, <2>9 DEF rest, w
    <3>2. \A f \in L.events \union P : ~(s < f.seq /\ f.seq < e.seq)
      BY <2>6 DEF E
    <3>. QED  BY <3>1, <3>2, StepExact
  <2>. QED  BY <2>7, <2>8, <2>10 DEF rest, w
<1>9. Walked(L, S[N], Reached(N), Ahead(N))
  <2>1. N \in G
    <3>. HIDE DEF G
    <3>. QED  BY <1>5, <1>7, <1>8, EveryNat
  <2>. QED  BY <1>5, <2>1
<1>. DEFINE w == S[N]
            s == Reached(N)
<1>10. Ahead(N) = L.events \ due
  BY <1>5
<1>11. s \in Nat /\ s \in c .. z /\ s \in c .. LastSeq /\ \A e \in due : e.seq <= s
  <2>1. CASE N = 0
    <3>1. due = {}
      BY <1>5, <2>1
    <3>. QED  BY <1>1, <1>2, <2>1, <3>1 DEF c
  <2>2. CASE N # 0
    <3>1. N \in 1 .. N /\ s = list[N].seq
      BY <1>5, <2>2
    <3>2. list[N] \in L.events /\ list[N].seq <= z
      BY <1>5, <3>1
    <3>3. s \in Nat /\ s > c /\ s <= z
      BY <1>4, <3>1, <3>2 DEF E
    <3>4. ASSUME NEW e \in due
          PROVE  e.seq <= s
      <4>1. PICK i \in 1 .. N : list[i] = e
        BY <1>5
      <4>2. i < N \/ i = N
        BY <1>5
      <4>3. e.seq < s \/ e.seq = s
        BY <1>5, <3>1, <4>1, <4>2
      <4>4. e.seq \in Nat
        BY <1>4, <1>5 DEF E
      <4>. QED  BY <3>3, <4>3, <4>4
    <3>. QED  BY <1>1, <1>2, <3>3, <3>4 DEF c
  <2>. QED  BY <2>1, <2>2
<1>. HIDE DEF w, s, Ahead
<1>12. /\ At(z).leg = At(s).leg /\ At(z).share = At(s).share
       /\ \A x \in s + 1 .. z : taken[x + 1] = 0
  <2>1. \A f \in E : ~(s < f.seq /\ f.seq <= z)
    <3>. SUFFICES ASSUME NEW f \in E, s < f.seq, f.seq <= z PROVE FALSE
      OBVIOUS
    <3>1. f.seq \in Nat
      BY <1>4
    <3>2. f \in due
      BY <1>2, <1>5, <3>1 DEF E, z
    <3>. QED  BY <1>11, <3>1, <3>2
  <2>2. z \in s .. LastSeq
    BY <1>2, <1>11
  <2>. QED  BY <1>3, <1>11, <2>1, <2>2, Quiet
<1>13. /\ w.led \in Ledger /\ Sure(w.led) /\ w.led.share = At(z).share
       /\ w.led.journal = At(z).share /\ w.out \in Seq(Outcome) /\ RepSet(w.out) = Lost(c, s)
       /\ At(z).share + Mine(L.events \ due) <= L.share + Mine(L.events)
       /\ (w.out = <<>> => At(z).share + Mine(L.events \ due) = L.share + Mine(L.events))
       /\ w.led.events = L.events
  BY <1>9, <1>10, <1>12 DEF Walked, Passed, w, s, c
<1>14. Lost(c, z) = Lost(c, s)
  <2>1. c \in Int /\ s \in Int /\ z \in Int /\ c <= s /\ s <= z
    BY <1>1, <1>2, <1>11 DEF c
  <2>2. Lost(s, z) = {}
    BY <1>12, <2>1, NothingLost
  <2>3. Lost(c, z) = Lost(c, s) \union Lost(s, z)
    BY <2>1, LostJoined
  <2>. QED  BY <2>2, <2>3
<1>15. At(z).share \in Nat /\ At(z).share <= At(z).leg
  BY <1>2, HistoryOf
<1>16. M = CursorOnto(w, view, due, TRUE)
  BY DEF Walk, WalkAll, w, S, N, list, due, z
<1>. HIDE DEF M
<1>17. /\ Sure(M.led) /\ M.led.share = At(z).share /\ M.led.journal = At(z).share
       /\ M.led.events = L.events \ due /\ M.out = w.out
  <2>0. w.led.share \in Nat /\ view.size \in Nat /\ w.led.share <= view.size
    BY <1>1, <1>2, <1>13, <1>15 DEF LegView
  <2>1. w.led.journal = w.led.share /\ Capped(w.led.share, view.size) = w.led.share
        /\ view \in LegView /\ w.led \in Ledger /\ Sure(w.led)
    <3>1. Capped(w.led.share, view.size) = Smaller(Pos(w.led.share), view.size)
      BY <2>0, CappedTo
    <3>2. Capped(w.led.share, view.size) = w.led.share
      BY <2>0, <3>1 DEF Smaller, Pos, Larger
    <3>. QED  BY <1>1, <1>13, <3>2
  <2>2. MovedOn(w, due, M)
    BY <1>16, <2>1, CursorExact
  <2>. QED  BY <1>13, <2>2 DEF MovedOn
<1>18. /\ M.led \in Ledger /\ ListsOk(M.led) /\ BoundsOk(M.led)
       /\ M.led.views \in SUBSET L.views /\ M.led.cursor = z /\ M.led.leg = At(z).leg
  <2>1. /\ Walk(L, view, TRUE).led \in Ledger /\ ListsOk(Walk(L, view, TRUE).led)
        /\ BoundsOk(Walk(L, view, TRUE).led)
        /\ Walk(L, view, TRUE).led.views \in SUBSET L.views
        /\ Walk(L, view, TRUE).led.cursor = view.seq
        /\ Walk(L, view, TRUE).led.leg = view.size
    BY <1>1, WalkKeeps
  <2>. QED  BY <1>2, <2>1 DEF M, z
<1>19. Whole(M.led.events \union P, z)
  <2>. DEFINE X == M.led.events \union P
  <2>1. X \subseteq E /\ \A e \in X : e.seq > z
    <3>1. \A e \in L.events \ due : e.seq > z
      BY <1>2, <1>4, <1>5 DEF E
    <3>. QED  BY <1>17, <3>1 DEF E, z
  <2>2. \A e \in E : e.seq > z => e \in X
    <3>1. \A e \in due : ~(e.seq > z)
      BY <1>2, <1>4, <1>5 DEF E
    <3>. QED  BY <1>17, <3>1 DEF E
  <2>3. \A n \in z + 1 .. LastSeq : n \in c + 1 .. LastSeq /\ n > z
    BY <1>1, <1>2 DEF c
  <2>. HIDE DEF X
  <2>. QED  BY <1>3, <2>1, <2>2, <2>3, FS_Subset DEF Whole, X
<1>20. Exact(M.led, P)
  BY <1>2, <1>17, <1>18, <1>19 DEF Exact, LedgerOk
<1>21. M.out \in Seq(Outcome) /\ RepSet(M.out) = Lost(c, z)
  BY <1>13, <1>14, <1>17
<1>22. /\ M.led.share + Mine(M.led.events) <= L.share + Mine(L.events)
       /\ (M.out = <<>> => M.led.share + Mine(M.led.events) = L.share + Mine(L.events))
  BY <1>13, <1>17
<1>23. L.cursor <= M.led.cursor /\ M.led.cursor = z /\ M.led.events \subseteq L.events
       /\ M.led.journal = M.led.share
  <2>1. L.cursor <= z
    BY <1>1, <1>2 DEF c
  <2>2. M.led.events \subseteq L.events
    BY <1>17
  <2>3. M.led.journal = M.led.share
    BY <1>17
  <2>. QED  BY <1>18, <2>1, <2>2, <2>3
<1>24. Fair(L, P, M.led, M.out)
  BY <1>20, <1>21, <1>22, <1>23 DEF Fair, c
<1>. QED  BY <1>24 DEF M

\* Of the executions not entered, at most one is behind one that is.
Overtook(P, seqs) ==
    /\ \A p \in P : p.seq \notin seqs
    /\ \A p, q \in Overtaken(P, seqs) : p = q

\* With one execution missing at most, a view that sums up misses none.
LEMMA NothingMissing ==
  ASSUME HistoryInv, NEW L, NEW P, Exact(L, P), NEW seqs, Overtook(P, seqs),
         NEW v \in Provable(L, seqs)
  PROVE  v \in L.views /\ L.cursor < v.seq /\ \A p \in P : v.seq < p.seq
<1>. DEFINE E == L.events \union P
            c == L.cursor
            z == v.seq
            seen == Upto(L.events, z)
<1>1. v \in L.views /\ v.seq > L.cursor /\ Matches(L, v, seqs)
  <2>1. v \in Later(L) /\ \A w \in Later(L) : w.seq <= v.seq => Matches(L, w, seqs)
    BY DEF Provable
  <2>2. v \in L.views /\ v.seq > L.cursor
    BY <2>1 DEF Later
  <2>3. z \in Int
    BY <2>2, HistoryOf DEF Exact
  <2>. QED  BY <2>1, <2>2, <2>3
<1>2. /\ Whole(E, c) /\ c \in 0 .. LastSeq /\ LastSeq \in Nat /\ c \in Nat
      /\ z \in c .. LastSeq /\ z \in Nat /\ z > c
      /\ L.leg = At(c).leg /\ v.size = At(z).leg /\ L.leg \in Int
  BY <1>1, HistoryOf DEF Exact
<1>3. \A e \in E : e.seq \in Nat /\ e.seq > c /\ e.delta \in Int /\ e.delta # 0
  BY <1>2 DEF Whole, StepTrue
<1>4. z \in seqs /\ L.leg + DeltaIn(seen) = v.size
  <2>1. {e \in L.events : c < e.seq /\ e.seq <= z} = seen
    BY <1>2, <1>3 DEF Upto
  <2>. QED  BY <1>1, <2>1 DEF Matches, ExpectedLeg
<1>5. Counted(E) /\ L.leg + DeltaIn(Upto(E, z)) = v.size
  BY <1>2, SumsUp
<1>6. Counted(seen) /\ seen \subseteq E
  BY <1>5, FS_Subset DEF Counted, Upto
<1>7. ASSUME NEW p \in P, ~(z < p.seq)
      PROVE  FALSE
  <2>1. p.seq \in Nat /\ p.seq < z /\ p.delta \in Int /\ p.delta # 0
    BY <1>2, <1>3, <1>4, <1>7 DEF Overtook
  <2>2. \A q \in P : q.seq <= z => q = p
    <3>1. \A q \in P : q.seq <= z => q \in Overtaken(P, seqs)
      BY <1>2, <1>3, <1>4 DEF Overtook, Overtaken
    <3>2. p \in Overtaken(P, seqs)
      BY <1>2, <2>1, <3>1
    <3>. QED  BY <3>1, <3>2 DEF Overtook
  <2>3. p \notin seen
    BY DEF Exact, Upto
  <2>4. Upto(E, z) = seen \union {p}
    BY <1>2, <2>1, <2>2 DEF Upto
  <2>5. DeltaIn(Upto(E, z)) = p.delta + DeltaIn(seen) /\ DeltaIn(seen) \in Int
    BY <1>6, <2>1, <2>3, <2>4, DeltaAdded, DeltaOf
  <2>. HIDE DEF seen
  <2>. QED  BY <1>2, <1>4, <1>5, <2>1, <2>5
<1>. QED  BY <1>1, <1>7

LEMMA FairQuietly ==
  ASSUME HistoryInv, NEW P, NEW L, Exact(L, P), NEW M, NEW a, Fair(L, P, M, a),
         NEW N, Fair(M, P, N, <<>>)
  PROVE  Fair(L, P, N, a)
<1>1. a \in Seq(Outcome)
  BY DEF Fair
<1>2. a \o <<>> = a
  BY <1>1
<1>3. Fair(L, P, N, a \o <<>>)
  BY FairOn
<1>. QED  BY <1>2, <1>3

LEMMA RoundExact ==
  ASSUME HistoryInv, NEW P, NEW L, Exact(L, P), NEW judged, Fair(L, P, judged.led, judged.out),
         NEW seqs, NEW provable \in BOOLEAN, provable => Overtook(P, seqs)
  PROVE  LET R == AdvanceRound(judged, seqs, provable, FALSE)
         IN  Fair(L, P, R.led, R.out)
<1>. DEFINE N == [judged.led EXCEPT !.waiting = FALSE]
            W == [N EXCEPT !.waiting = TRUE]
            target == IF provable THEN Provable(N, seqs) ELSE {}
            R == AdvanceRound(judged, seqs, provable, FALSE)
            M == Walk(N, Furthest(target), TRUE)
<1>1. Exact(judged.led, P) /\ judged.led.journal = judged.led.share
  BY DEF Fair
<1>2. Fair(judged.led, P, N, <<>>)
  BY <1>1, WaitingExact
<1>. HIDE DEF N
<1>3. Fair(L, P, N, judged.out)
  BY <1>2, FairQuietly
<1>4. Exact(N, P) /\ N.journal = N.share
  BY <1>2 DEF Fair
<1>5. Fair(L, P, W, judged.out)
  <2>1. Fair(N, P, W, <<>>)
    BY <1>4, WaitingExact
  <2>. HIDE DEF W
  <2>. QED  BY <1>3, <2>1, FairQuietly
<1>6. ASSUME target # {}
      PROVE  Fair(L, P, M.led, judged.out \o M.out)
  <2>1. provable /\ target = Provable(N, seqs)
    BY <1>6
  <2>2. Furthest(target) \in target
    <3>1. N \in Ledger /\ ListsOk(N)
      BY <1>4, ExactTyped
    <3>2. target \subseteq N.views
      BY <2>1 DEF Provable, Later
    <3>3. IsFiniteSet(target) /\ target \subseteq LegView
      BY <3>1, <3>2, FS_Subset DEF ListsOk, Ledger
    <3>. HIDE DEF target
    <3>. QED  BY <1>6, <3>3, FurthestAndFirst
  <2>. DEFINE view == Furthest(target)
  <2>3. view \in N.views /\ N.cursor < view.seq /\ \A p \in P : view.seq < p.seq
    BY <1>4, <2>1, <2>2, NothingMissing
  <2>. HIDE DEF view
  <2>4. Fair(N, P, Walk(N, view, TRUE).led, Walk(N, view, TRUE).out)
    BY <1>4, <2>3, WalkExact
  <2>5. Fair(N, P, M.led, M.out)
    BY <2>4 DEF view
  <2>. HIDE DEF M
  <2>. QED  BY <1>3, <2>5, FairOn
<1>. HIDE DEF W, target, M
<1>7. R = IF judged.done THEN judged
          ELSE IF Later(N) = {} THEN Stop(judged, N)
          ELSE IF target # {} THEN GoOn(judged, M)
          ELSE Stop(judged, W)
  BY DEF AdvanceRound, N, W, M, target
<1>. HIDE DEF R
<1>8. ASSUME R = Stop(judged, N) PROVE Fair(L, P, R.led, R.out)
  BY <1>3, <1>8 DEF Stop
<1>9. ASSUME R = Stop(judged, W) PROVE Fair(L, P, R.led, R.out)
  BY <1>5, <1>9 DEF Stop
<1>10. ASSUME target # {}, R = GoOn(judged, M) PROVE Fair(L, P, R.led, R.out)
  BY <1>6, <1>10 DEF GoOn
<1>. QED  BY <1>7, <1>8, <1>9, <1>10 DEF R

LEMMA RoundsExact ==
  ASSUME HistoryInv, NEW P, NEW L, Exact(L, P), L.journal = L.share,
         NEW seqs, NEW provable \in BOOLEAN, provable => Overtook(P, seqs)
  PROVE  LET J == Judged([led |-> L, out |-> <<>>], seqs, provable, FALSE)
         IN  Fair(L, P, J.led, J.out)
<1>. DEFINE settled == [led |-> L, out |-> <<>>]
            expired == FALSE
            F == JudgeRounds(settled, seqs, provable, expired)
            m == Rounds(settled.led)
            G == {n \in Nat : n <= m => Fair(L, P, F[n].led, F[n].out)}
<1>1. m \in Nat
  <2>1. ListsOk(L) /\ settled.led = L
    BY ExactTyped
  <2>. QED  BY <2>1, FS_CardinalityType DEF Rounds, ListsOk
<1>0. settled.led = L /\ settled.out = <<>>
  OBVIOUS
<1>. HIDE DEF F, m, settled, expired
<1>2. /\ F[0] = [led |-> settled.led, out |-> settled.out, done |-> FALSE]
      /\ \A n \in 1 .. m : F[n] = AdvanceRound(F[n - 1], seqs, provable, expired)
  BY <1>1, JudgeStepwise DEF F, m
<1>3. 0 \in G
  <2>1. Fair(L, P, L, <<>>)
    BY FairItself
  <2>. QED  BY <1>0, <1>2, <2>1
<1>4. ASSUME NEW n \in Nat, n \in G
      PROVE  n + 1 \in G
  <2>. SUFFICES ASSUME n + 1 <= m
                PROVE  Fair(L, P, F[n + 1].led, F[n + 1].out)
    OBVIOUS
  <2>1. Fair(L, P, F[n].led, F[n].out) /\ n + 1 \in 1 .. m /\ (n + 1) - 1 = n
    BY <1>1, <1>4
  <2>2. F[n + 1] = AdvanceRound(F[n], seqs, provable, expired)
    BY <1>2, <2>1
  <2>3. F[n + 1] = AdvanceRound(F[n], seqs, provable, FALSE)
    BY <2>2 DEF expired
  <2>4. Fair(L, P, AdvanceRound(F[n], seqs, provable, FALSE).led,
             AdvanceRound(F[n], seqs, provable, FALSE).out)
    BY <2>1, RoundExact
  <2>. QED  BY <2>3, <2>4
<1>5. m \in G
  <2>. HIDE DEF G
  <2>. QED  BY <1>1, <1>3, <1>4, EveryNat
<1>6. Judged(settled, seqs, provable, FALSE) = F[m]
  BY DEF Judged, F, m, expired
<1>7. Judged([led |-> L, out |-> <<>>], seqs, provable, FALSE) = F[m]
  BY <1>6 DEF settled
<1>8. Fair(L, P, F[m].led, F[m].out)
  <2>1. m <= m
    BY <1>1
  <2>. QED  BY <1>5, <2>1
<1>. QED  BY <1>7, <1>8

LEMMA AdvanceExact ==
  ASSUME HistoryInv, NEW P, NEW L, Exact(L, P), L.journal = L.share,
         NEW seqs, NEW provable \in BOOLEAN, provable => Overtook(P, seqs)
  PROVE  LET J == Advance(L, seqs, provable, FALSE)
         IN  Fair(L, P, J.led, J.out)
<1>1. SettleGaps(L, seqs) = [led |-> L, out |-> <<>>]
  <2>1. Len(L.gaps) = 0
    BY DEF Exact, Sure
  <2>. DEFINE F == SettleSteps(L, seqs)
  <2>2. F[0] = [led |-> L, out |-> <<>>]
    BY <2>1, SettleStepwise
  <2>. QED  BY <2>1, <2>2 DEF SettleGaps
<1>2. Started(L)
  BY ExactTyped
<1>3. Advance(L, seqs, provable, FALSE)
        = Judged([led |-> L, out |-> <<>>], seqs, provable, FALSE)
  BY <1>1, <1>2 DEF Advance
<1>. QED  BY <1>3, RoundsExact

LEMMA LostSince ==
  ASSUME NEW b \in Nat, NEW c \in Nat, b <= c
  PROVE  Lost(0, c) = Lost(0, b) \union Lost(b, c)
<1>1. 0 + 1 .. c = (0 + 1 .. b) \union (b + 1 .. c)
  OBVIOUS
<1>. QED  BY <1>1 DEF Lost

LEMMA ExactAlike ==
  ASSUME NEW L, NEW P, Exact(L, P), NEW M, Matching(L, M), Sure(M)
  PROVE  Exact(M, P)
<1>1. LedgerOk(L)
  BY DEF Exact
<1>2. LedgerOk(M)
  BY <1>1, MatchingKept
<1>. QED  BY <1>2 DEF Exact, Matching, Alike

\* The journal of an exact ledger follows the rows.
LEMMA SyncExact ==
  ASSUME HistoryInv, NEW L, NEW P, Exact(L, P), NEW j, j = L.share + Mine(L.events)
  PROVE  LET M == SyncJournal(L, j)
         IN  /\ Exact(M, P) /\ M.journal = M.share /\ M.share = L.share
             /\ M.events = L.events /\ M.cursor = L.cursor
<1>. DEFINE N == [L EXCEPT !.journal = L.share, !.share = L.share]
<1>1. /\ L \in Ledger /\ Started(L) /\ L.share \in Nat /\ Mine(L.events) \in Int /\ LedgerOk(L)
      /\ L.share <= L.leg /\ L.leg \in Nat /\ ListsOk(L) /\ BoundsOk(L)
  BY ExactTyped
<1>2. OwnBeyond(L, L.cursor) = Mine(L.events)
  <2>1. \A e \in L.events : e.seq > L.cursor
    BY DEF Exact, Whole
  <2>2. {e \in L.events : e.own /\ e.seq > L.cursor} = OwnOf(L.events)
    BY <2>1 DEF OwnOf
  <2>3. ShareIn(OwnOf(L.events)) = Mine(L.events)
    BY OwnHeld DEF Mine
  <2>. QED  BY <2>2, <2>3 DEF OwnBeyond
<1>3. j - OwnBeyond(L, L.cursor) = L.share
  BY <1>1, <1>2
<1>4. Bounded(L.share, L.share) = L.share
  BY <1>1 DEF Bounded, Size
<1>5. SyncJournal(L, j) = CapDoubt(N)
  BY <1>1, <1>3, <1>4 DEF SyncJournal
<1>6. /\ N \in Ledger /\ N.share = L.share /\ N.journal = L.share /\ N.events = L.events
      /\ N.cursor = L.cursor /\ N.leg = L.leg /\ N.room = L.room /\ N.views = L.views
      /\ N.doubt = L.doubt /\ N.gaps = L.gaps /\ N.credits = L.credits
  BY <1>1 DEF Ledger
<1>. HIDE DEF N
<1>7. LedgerOk(N) /\ Sure(N)
  <2>1. Sure(N)
    BY <1>6 DEF Exact, Sure
  <2>2. ListsOk(N)
    BY <1>1, <1>6 DEF ListsOk
  <2>3. BoundsOk(N)
    BY <1>1, <1>6 DEF BoundsOk, Pos, Larger
  <2>. QED  BY <1>6, <2>1, <2>2, <2>3 DEF LedgerOk
<1>8. Exact(N, P)
  BY <1>6, <1>7 DEF Exact
<1>9. Sure(CapDoubt(N)) /\ Matching(N, CapDoubt(N))
  BY <1>6, <1>7, SureKept
<1>10. Exact(CapDoubt(N), P)
  BY <1>8, <1>9, ExactAlike
<1>. QED  BY <1>5, <1>6, <1>9, <1>10 DEF Matching, Alike

(***************************************************************************)
(* The plugin around an exact ledger.                                      *)
(***************************************************************************)
PluginExact(D, P) ==
    /\ Shaped(D) /\ Exact(D.led, P)
    /\ D.rows = D.led.share + Mine(D.led.events)
    /\ D.reports = Lost(0, D.led.cursor)

\* Netting takes the rows down to what an exact ledger holds.
LEMMA NettedExact ==
  ASSUME HistoryInv, NEW D, NEW P, Shaped(D), Exact(D.led, P), D.led.journal = D.led.share,
         D.rows \in Int, D.led.share + Mine(D.led.events) <= D.rows
  PROVE  LET S == SyncLegJournal(D)
         IN  /\ Shaped(S) /\ Exact(S.led, P) /\ S.known = D.known /\ S.reports = D.reports
             /\ S.rows = S.led.share + Mine(S.led.events)
             /\ S.led.events = D.led.events /\ S.led.cursor = D.led.cursor
<1>. DEFINE target == D.led.journal + ShareIn(OwnOf(D.led.events))
            left == IF D.rows > target THEN Pos(target) ELSE D.rows
            M == [D.led EXCEPT !.toNet = NothingToNet]
            S == SyncLegJournal(D)
<1>1. D.led \in Ledger /\ D.led.share \in Nat /\ Mine(D.led.events) \in Int
  BY ExactTyped
<1>2. target = D.led.share + Mine(D.led.events) /\ target >= 0 /\ target \in Int
  BY <1>1, OwnHeld DEF Mine
<1>. HIDE DEF target
<1>3. left = D.led.share + Mine(D.led.events)
  BY <1>2 DEF Pos, Larger
<1>4. S = [led |-> M, rows |-> left, known |-> D.known, reports |-> D.reports]
  <2>1. S = [D EXCEPT !.rows = left, !.led.toNet = NothingToNet]
    BY DEF SyncLegJournal, target, OwnOf
  <2>. HIDE DEF left, S
  <2>. QED  BY <2>1 DEF Shaped
<1>5. Matching(D.led, M) /\ Sure(M)
  <2>1. NothingToNet \in [Sides -> Int]
    BY DEF NothingToNet
  <2>. QED  BY <1>1, <2>1 DEF Matching, Alike, Ledger, Sure, Exact
<1>. HIDE DEF M, left
<1>6. Exact(M, P)
  BY <1>5, ExactAlike
<1>. HIDE DEF S
<1>7. /\ Shaped(S) /\ S.led = M /\ S.rows = left /\ S.known = D.known /\ S.reports = D.reports
  BY <1>4 DEF Shaped
<1>. QED  BY <1>3, <1>5, <1>6, <1>7 DEF Matching, Alike, S

LEMMA JudgedExact ==
  ASSUME HistoryInv, NEW D, NEW P, PluginExact(D, P), NEW provable \in BOOLEAN,
         provable => Overtook(P, D.known)
  PROVE  LET N == LedgerAdvance(D, provable, FALSE)
         IN  PluginExact(N, P) /\ N.known = D.known
<1>. DEFINE L == SyncJournal(D.led, D.rows)
            E == [D EXCEPT !.led = L]
            J == Advance(L, D.known, provable, FALSE)
            B == [led |-> J.led, rows |-> D.rows, known |-> D.known, reports |-> D.reports]
            N == LedgerAdvance(D, provable, FALSE)
<1>1. /\ Shaped(D) /\ Exact(D.led, P) /\ D.rows = D.led.share + Mine(D.led.events)
      /\ D.reports = Lost(0, D.led.cursor) /\ Started(D.led)
  BY ExactTyped DEF PluginExact
<1>2. /\ Exact(L, P) /\ L.journal = L.share /\ L.share = D.led.share
      /\ L.events = D.led.events /\ L.cursor = D.led.cursor
  BY <1>1, SyncExact
<1>3. N = AdvanceLeg(E, <<>>, provable, FALSE)
  BY <1>1 DEF LedgerAdvance
<1>. HIDE DEF L
<1>4. E = [led |-> L, rows |-> D.rows, known |-> D.known, reports |-> D.reports]
  BY <1>1 DEF Shaped
<1>. HIDE DEF E
<1>5. Fair(L, P, J.led, J.out)
  BY <1>2, AdvanceExact
<1>0. J = Advance(L, D.known, provable, FALSE)
  OBVIOUS
<1>. HIDE DEF J
<1>6. J.out \in Seq(Outcome) /\ <<>> \o J.out = J.out
  <2>1. J.out \in Seq(Outcome)
    BY <1>5 DEF Fair
  <2>. QED  BY <2>1
<1>7. [E EXCEPT !.led = J.led] = B /\ E.led = L /\ E.known = D.known
  BY <1>4
<1>8. N = IF J.out = <<>> THEN B ELSE LedgerApply(SyncLegJournal(B), J.out)
  <2>1. N = JudgeLeg(E, <<>>, J)
    BY <1>0, <1>3, <1>7 DEF AdvanceLeg
  <2>2. N = Applied([E EXCEPT !.led = J.led], <<>> \o J.out)
    BY <2>1 DEF JudgeLeg
  <2>. QED  BY <1>6, <1>7, <2>2 DEF Applied
<1>. DEFINE M == J.led
            out == J.out
<1>9. /\ Exact(M, P) /\ M.journal = M.share /\ L.cursor <= M.cursor
      /\ RepSet(out) = Lost(L.cursor, M.cursor)
      /\ M.share + Mine(M.events) <= L.share + Mine(L.events)
      /\ (out = <<>> => M.share + Mine(M.events) = L.share + Mine(L.events))
  BY <1>5 DEF Fair
<1>. HIDE DEF M, out
<1>10. /\ L.share \in Nat /\ Mine(L.events) \in Int /\ L.cursor \in Nat
       /\ M.share \in Nat /\ Mine(M.events) \in Int /\ M.cursor \in Nat
  BY <1>2, <1>9, ExactTyped
<1>11. Lost(0, M.cursor) = Lost(0, L.cursor) \union RepSet(out)
  <2>1. Lost(0, M.cursor) = Lost(0, L.cursor) \union Lost(L.cursor, M.cursor)
    BY <1>9, <1>10, LostSince
  <2>. QED  BY <1>9, <2>1
<1>12. B = [led |-> M, rows |-> D.rows, known |-> D.known, reports |-> D.reports]
  BY DEF M
<1>. HIDE DEF B
<1>13. Shaped(B) /\ B.led = M /\ B.rows = D.rows /\ B.known = D.known /\ B.reports = D.reports
  BY <1>12 DEF Shaped
<1>14. CASE out = <<>>
  <2>1. N = B
    BY <1>8, <1>14 DEF out
  <2>2. RepSet(out) = {}
    BY <1>14 DEF RepSet
  <2>3. B.reports = Lost(0, M.cursor)
    BY <1>1, <1>2, <1>11, <1>13, <2>2
  <2>. HIDE DEF N
  <2>4. PluginExact(N, P) /\ N.known = D.known
    BY <1>1, <1>2, <1>9, <1>13, <1>14, <2>1, <2>3 DEF PluginExact
  <2>. QED  BY <2>4 DEF N
<1>15. CASE out # <<>>
  <2>. DEFINE S == SyncLegJournal(B)
              more == S.reports \union RepSet(out)
  <2>1. N = LedgerApply(S, out)
    BY <1>8, <1>15 DEF out
  <2>2. /\ Shaped(S) /\ Exact(S.led, P) /\ S.known = D.known /\ S.reports = D.reports
        /\ S.rows = S.led.share + Mine(S.led.events)
        /\ S.led.events = M.events /\ S.led.cursor = M.cursor
    <3>1. B.rows \in Int /\ M.share + Mine(M.events) <= B.rows
      BY <1>1, <1>2, <1>9, <1>10, <1>13
    <3>2. /\ Shaped(S) /\ Exact(S.led, P) /\ S.known = B.known /\ S.reports = B.reports
          /\ S.rows = S.led.share + Mine(S.led.events)
          /\ S.led.events = B.led.events /\ S.led.cursor = B.led.cursor
      BY <1>9, <1>13, <3>1, NettedExact
    <3>. QED  BY <1>13, <3>2
  <2>. HIDE DEF S
  <2>3. N = [S EXCEPT !.reports = more]
    BY <2>1 DEF LedgerApply, RepSet
  <2>4. more = Lost(0, M.cursor)
    BY <1>1, <1>2, <1>11, <2>2
  <2>. HIDE DEF N, more
  <2>5. N = [led |-> S.led, rows |-> S.rows, known |-> S.known, reports |-> more]
    BY <2>2, <2>3, ShapedUpdates
  <2>6. PluginExact(N, P) /\ N.known = D.known
    BY <2>2, <2>4, <2>5 DEF PluginExact, Shaped
  <2>. QED  BY <2>6 DEF N
<1>. QED  BY <1>14, <1>15

\* A view of the leg as it was, however old.
ShownAt(seq) == [seq |-> seq, size |-> At(seq).leg, upd |-> At(seq).upd]

LEMMA ViewExact ==
  ASSUME HistoryInv, NEW D, NEW P, PluginExact(D, P), NEW seq \in 0 .. LastSeq,
         NEW E, E = [D EXCEPT !.led = AddView(@, ShownAt(seq))]
  PROVE  PluginExact(E, P) /\ E.known = D.known
<1>. DEFINE L == D.led
            v == ShownAt(seq)
            M == AddView(L, v)
            view == [seq |-> v.seq, size |-> v.size]
            kept == {w \in L.views : w.seq # v.seq}
            newest == Newest(L, v)
            views == IF Started(L) /\ v.seq <= L.cursor THEN L.views
                     ELSE NewestViews(kept \union {view})
            N == [L EXCEPT !.newest = newest, !.views = views]
<1>1. /\ Shaped(D) /\ Exact(L, P) /\ L \in Ledger /\ LedgerOk(L) /\ LastSeq \in Nat
      /\ D.rows = L.share + Mine(L.events) /\ D.reports = Lost(0, L.cursor)
  BY ExactTyped, HistoryOf DEF PluginExact
<1>2. v \in [seq : Int, size : Nat, upd : Int] /\ v.seq = seq /\ v.size = At(seq).leg
  BY HistoryOf DEF ShownAt
<1>3. M = IF Echo(L, v) THEN L ELSE N
  BY DEF AddView
<1>. HIDE DEF v
<1>4. LedgerOk(M)
  BY <1>1, <1>2, ViewAdded
<1>5. /\ N.events = L.events /\ N.cursor = L.cursor /\ N.leg = L.leg /\ N.share = L.share
      /\ N.doubt = L.doubt /\ N.gaps = L.gaps /\ N.credits = L.credits /\ N.views = views
  BY <1>1 DEF Ledger
<1>6. \A w \in views : w.seq \in 0 .. LastSeq /\ w.size = At(w.seq).leg
  <2>1. \A w \in L.views : w.seq \in 0 .. LastSeq /\ w.size = At(w.seq).leg
    BY <1>1 DEF Exact
  <2>2. view.seq = seq /\ view.size = At(seq).leg
    BY <1>2
  <2>3. views \subseteq L.views \union {view}
    BY DEF NewestViews
  <2>. HIDE DEF views, view
  <2>. QED  BY <2>1, <2>2, <2>3
<1>. HIDE DEF N, views, M, L
<1>7. /\ M.events = L.events /\ M.cursor = L.cursor /\ M.leg = L.leg /\ M.share = L.share
      /\ M.doubt = L.doubt /\ M.gaps = L.gaps /\ M.credits = L.credits
      /\ \A w \in M.views : w.seq \in 0 .. LastSeq /\ w.size = At(w.seq).leg
  <2>1. CASE M = L
    BY <1>1, <2>1 DEF Exact
  <2>2. CASE M = N
    BY <1>5, <1>6, <2>2
  <2>. QED  BY <1>3, <2>1, <2>2
<1>8. Exact(M, P)
  BY <1>1, <1>4, <1>7 DEF Exact, Sure
<1>9. E = [led |-> M, rows |-> D.rows, known |-> D.known, reports |-> D.reports]
  <2>1. E = [D EXCEPT !.led = M]
    BY DEF M, v, L
  <2>. QED  BY <1>1, <2>1, ShapedUpdates
<1>. QED  BY <1>1, <1>7, <1>8, <1>9 DEF PluginExact, Shaped

\* The executions a ledger holds all fit into it.
LEMMA EventsFit ==
  ASSUME HistoryInv, MaxSeq <= MaxEvents, NEW S, IsFiniteSet(S),
         \A e \in S : e.seq \in 1 .. LastSeq,
         \A e, f \in S : e.seq = f.seq => e = f
  PROVE  Cardinality(S) <= MaxEvents
<1>. DEFINE f == [e \in S |-> e.seq]
            T == 1 .. LastSeq
<1>1. LastSeq \in Nat /\ LastSeq <= MaxSeq /\ MaxSeq \in Nat /\ MaxEvents \in Nat
  BY HistoryOf, LedgerAssumption
<1>2. IsFiniteSet(T) /\ Cardinality(T) = LastSeq
  BY <1>1, FS_Interval
<1>3. f \in Injection(S, T)
  BY DEF Injection, IsInjective
<1>. HIDE DEF f, T
<1>4. Cardinality(S) <= LastSeq
  BY <1>2, <1>3, FS_Injection
<1>5. Cardinality(S) \in Nat
  BY FS_CardinalityType
<1>. QED  BY <1>1, <1>4, <1>5

\* What the ledger enters for the execution e.
EventOf(e) ==
    [id |-> e.id, seq |-> e.seq, delta |-> e.delta, own |-> e.own,
     share |-> IF e.own THEN e.delta ELSE 0, credit |-> 0]

LEMMA EventEntered ==
  ASSUME HistoryInv, MaxSeq <= MaxEvents, NEW L, NEW P, Exact(L, P), NEW e \in P,
         e.own => \A q \in P : q.own => e.seq <= q.seq,
         NEW M, M = AddEvent(L, EventOf(e))
  PROVE  /\ Exact(M, P \ {e}) /\ M.share = L.share /\ M.cursor = L.cursor
         /\ Mine(M.events) = Mine(L.events) + (IF e.own THEN e.delta ELSE 0)
<1>. DEFINE x == EventOf(e)
            all == L.events \union {x}
            E == L.events \union P
            X == all \union (P \ {e})
            c == L.cursor
<1>1. /\ L \in Ledger /\ LedgerOk(L) /\ L.events \subseteq LegExecution /\ Mine(L.events) \in Int
      /\ Counted(L.events) /\ Whole(E, c) /\ c \in 0 .. LastSeq
  BY ExactTyped DEF Exact
<1>2. /\ IsFiniteSet(E) /\ \A f, h \in E : f.seq = h.seq => f = h
      /\ \A f \in E : StepTrue(f) /\ f.seq > c
      /\ \A s \in c + 1 .. LastSeq : At(s).upd = s => \E f \in E : f.seq = s
  BY <1>1 DEF Whole
<1>3. StepTrue(e) /\ e.seq > c /\ e \in E /\ e.own \in BOOLEAN /\ e.delta \in Int
      /\ e.seq \in Int /\ e.id = e.seq
  BY <1>2 DEF StepTrue
<1>4. \A f \in L.events : f.seq # e.seq
  BY DEF Exact
<1>5. /\ x.seq = e.seq /\ x.id = e.seq /\ x.delta = e.delta /\ x.own = e.own
      /\ x.share = (IF e.own THEN e.delta ELSE 0) /\ x \in LegExecution
  <2>1. (IF e.own THEN e.delta ELSE 0) \in Int
    BY <1>3
  <2>. QED  BY <1>3, <2>1 DEF EventOf, LegExecution
<1>6. StepTrue(x)
  BY <1>3, <1>5 DEF StepTrue
<1>. HIDE DEF x
<1>7. /\ IsFiniteSet(all) /\ \A f \in all : f.seq \in 1 .. LastSeq
      /\ \A f, h \in all : f.seq = h.seq => f = h
  <2>1. IsFiniteSet(all)
    BY <1>1, FS_AddElement DEF Counted
  <2>2. \A f \in all : f.seq \in 1 .. LastSeq
    BY <1>2, <1>6 DEF StepTrue
  <2>3. \A f, h \in all : f.seq = h.seq => f = h
    BY <1>2, <1>4, <1>5
  <2>. QED  BY <2>1, <2>2, <2>3
<1>8. Cardinality(all) <= MaxEvents
  <2>. HIDE DEF all
  <2>. QED  BY <1>7, EventsFit
<1>9. M = [L EXCEPT !.events = all]
  BY <1>8 DEF AddEvent, x
<1>10. LedgerOk(M)
  <2>1. LedgerOk(AddEvent(L, x))
    BY <1>1, <1>4, <1>5, EventAdded
  <2>. QED  BY <2>1 DEF x
<1>11. /\ M.events = all /\ M.cursor = c /\ M.leg = L.leg /\ M.share = L.share
       /\ M.doubt = L.doubt /\ M.gaps = L.gaps /\ M.credits = L.credits /\ M.views = L.views
  BY <1>1, <1>9 DEF Ledger
<1>12. Whole(X, c)
  <2>1. IsFiniteSet(X)
    <3>1. IsFiniteSet(P \ {e})
      BY <1>2, FS_Subset
    <3>. QED  BY <1>7, <3>1, FS_Union
  <2>2. \A f \in X : f \in E \/ f = x
    OBVIOUS
  <2>3. \A f \in P \ {e} : f.seq # e.seq
    BY <1>2
  <2>4. \A f, h \in X : f.seq = h.seq => f = h
    <3>1. \A f \in X : f # x => f \in E /\ f.seq # x.seq
      BY <1>4, <1>5, <2>3
    <3>. HIDE DEF X, E
    <3>. QED  BY <1>2, <3>1
  <2>5. \A f \in X : StepTrue(f) /\ f.seq > c
    BY <1>2, <1>3, <1>5, <1>6
  <2>6. ASSUME NEW s \in c + 1 .. LastSeq, At(s).upd = s
        PROVE  \E f \in X : f.seq = s
    <3>1. PICK f \in E : f.seq = s
      BY <1>2, <2>6
    <3>2. CASE f = e
      BY <1>5, <3>1, <3>2
    <3>3. CASE f # e
      BY <3>1, <3>3
    <3>. QED  BY <3>2, <3>3
  <2>. HIDE DEF X, c
  <2>. QED  BY <2>1, <2>4, <2>5, <2>6 DEF Whole
<1>13. \A f \in all, p \in P \ {e} : f.seq # p.seq /\ (f.own /\ p.own => f.seq < p.seq)
  <2>1. ASSUME NEW p \in P \ {e}
        PROVE  x.seq # p.seq /\ (x.own /\ p.own => x.seq < p.seq)
    <3>1. p.seq # e.seq /\ p.seq \in Int
      BY <1>2 DEF StepTrue
    <3>. QED  BY <1>3, <1>5, <3>1
  <2>. QED  BY <2>1 DEF Exact
<1>14. \A f \in all : f.share = IF f.own THEN f.delta ELSE 0
  BY <1>5 DEF Exact
<1>15. Exact(M, P \ {e})
  <2>1. Sure(M)
    BY <1>11 DEF Exact, Sure
  <2>2. \A v \in M.views : v.seq \in 0 .. LastSeq /\ v.size = At(v.seq).leg
    BY <1>11 DEF Exact
  <2>3. M.leg = At(M.cursor).leg /\ M.share = At(M.cursor).share /\ M.cursor \in 0 .. LastSeq
    BY <1>11 DEF Exact
  <2>. HIDE DEF all, c
  <2>. QED  BY <1>10, <1>11, <1>12, <1>13, <1>14, <2>1, <2>2, <2>3 DEF Exact
<1>16. Mine(all) = Mine(L.events) + (IF e.own THEN e.delta ELSE 0)
  <2>1. CASE e.own
    <3>1. OwnOf(all) = OwnOf(L.events) \union {x}
      BY <1>5, <2>1 DEF OwnOf
    <3>2. x \notin OwnOf(L.events)
      BY <1>4, <1>5 DEF OwnOf
    <3>3. Counted(OwnOf(L.events))
      BY <1>1, FS_Subset DEF Counted, OwnOf
    <3>4. DeltaIn(OwnOf(all)) = x.delta + DeltaIn(OwnOf(L.events))
      BY <1>3, <1>5, <3>1, <3>2, <3>3, DeltaAdded
    <3>. HIDE DEF all
    <3>. QED  BY <1>1, <1>3, <1>5, <2>1, <3>4 DEF Mine
  <2>2. CASE ~e.own
    <3>1. OwnOf(all) = OwnOf(L.events)
      BY <1>5, <2>2 DEF OwnOf
    <3>2. Mine(all) = Mine(L.events)
      BY <3>1 DEF Mine
    <3>. HIDE DEF all
    <3>. QED  BY <1>1, <2>2, <3>2
  <2>. QED  BY <2>1, <2>2
<1>. QED  BY <1>11, <1>15, <1>16

\* The plugin enters an execution beyond the cursor.
LEMMA NoteExact ==
  ASSUME HistoryInv, MaxSeq <= MaxEvents, NEW D, NEW P, PluginExact(D, P), NEW e \in P,
         e.own => \A q \in P : q.own => e.seq <= q.seq
  PROVE  PluginExact(Note(D, e), P \ {e}) /\ Note(D, e).known = D.known \union {e.seq}
<1>. DEFINE L == D.led
            M == AddEvent(L, EventOf(e))
            known1 == D.known \union {e.seq}
            gain == IF e.own THEN e.delta ELSE 0
            R == [led |-> M, rows |-> D.rows + gain, known |-> known1, reports |-> D.reports]
<1>1. /\ Shaped(D) /\ Exact(L, P) /\ L \in Ledger /\ L.share \in Nat /\ Mine(L.events) \in Int
      /\ D.rows = L.share + Mine(L.events) /\ D.reports = Lost(0, L.cursor) /\ D.rows \in Int
      /\ L.cursor \in Nat
  BY ExactTyped DEF PluginExact
<1>2. /\ e.seq \in Int /\ e.delta \in Int /\ e.delta # 0 /\ e.own \in BOOLEAN /\ e.id = e.seq
      /\ e.seq > L.cursor
  <2>1. e \in L.events \union P
    OBVIOUS
  <2>. QED  BY <1>1, <2>1 DEF Exact, Whole, StepTrue
<1>3. /\ Exact(M, P \ {e}) /\ M.share = L.share /\ M.cursor = L.cursor
      /\ Mine(M.events) = Mine(L.events) + gain
  <2>1. M = AddEvent(L, EventOf(e)) /\ Exact(L, P)
    BY <1>1
  <2>. HIDE DEF L, M
  <2>2. /\ Exact(M, P \ {e}) /\ M.share = L.share /\ M.cursor = L.cursor
        /\ Mine(M.events) = Mine(L.events) + (IF e.own THEN e.delta ELSE 0)
    BY <2>1, EventEntered
  <2>. QED  BY <2>2
<1>4. ~Late(L, e)
  BY <1>1, <1>2 DEF Late
<1>5. ASSUME e.own PROVE Note(D, e) = R
  <2>. DEFINE credit == ReduceCredit(L, e)
              booked == IF e.delta > 0 THEN D.rows + e.delta
                        ELSE D.rows - Smaller(D.rows, -e.delta - credit.taken)
              event == [id |-> e.id, seq |-> e.seq, delta |-> e.delta, own |-> TRUE,
                        share |-> booked - D.rows, credit |-> credit.taken]
              seen == [D EXCEPT !.rows = booked, !.known = @ \union {e.seq}]
  <2>1. credit = [led |-> L, taken |-> 0]
    BY <1>4 DEF ReduceCredit
  <2>2. credit.led = L /\ credit.taken = 0
    BY <2>1
  <2>3. Note(D, e) = [seen EXCEPT !.led = AddEvent(credit.led, event)]
    BY <1>4, <1>5 DEF Note, NoteOwn
  <2>. HIDE DEF credit
  <2>4. D.rows + e.delta >= 0
    BY <1>1, <1>2, <1>5, OwnHeld DEF Mine
  <2>5. booked = D.rows + e.delta
    <3>1. CASE e.delta > 0
      BY <3>1
    <3>2. CASE ~(e.delta > 0)
      <4>1. booked = D.rows - Smaller(D.rows, -e.delta - 0)
        BY <2>2, <3>2
      <4>. HIDE DEF booked
      <4>. QED  BY <1>1, <1>2, <2>4, <4>1 DEF Smaller
    <3>. QED  BY <3>1, <3>2
  <2>. HIDE DEF booked
  <2>6. booked - D.rows = e.delta
    BY <1>1, <1>2, <2>5
  <2>7. event = EventOf(e)
    BY <1>5, <2>2, <2>6 DEF EventOf
  <2>8. booked = D.rows + gain
    BY <1>5, <2>5
  <2>9. seen = [led |-> L, rows |-> booked, known |-> known1, reports |-> D.reports]
    <3>1. seen = [D EXCEPT !.rows = booked, !.known = known1]
      OBVIOUS
    <3>. HIDE DEF seen, known1
    <3>. QED  BY <1>1, <3>1, ShapedUpdates
  <2>. HIDE DEF seen, event
  <2>10. Note(D, e) = [seen EXCEPT !.led = M]
    BY <2>2, <2>3, <2>7
  <2>. HIDE DEF known1, M, gain
  <2>. QED  BY <2>8, <2>9, <2>10 DEF R
<1>6. ASSUME ~e.own PROVE Note(D, e) = R
  <2>. DEFINE event == [id |-> e.id, seq |-> e.seq, delta |-> e.delta, own |-> FALSE,
                        share |-> 0, credit |-> 0]
              seen == [D EXCEPT !.known = @ \union {e.seq}]
  <2>1. event = EventOf(e)
    BY <1>2, <1>6 DEF EventOf
  <2>2. Note(D, e) = [seen EXCEPT !.led = AddEvent(@, event)]
    BY <1>4, <1>6 DEF Note, NoteForeign
  <2>3. seen = [led |-> L, rows |-> D.rows, known |-> known1, reports |-> D.reports]
    <3>1. seen = [D EXCEPT !.known = known1]
      OBVIOUS
    <3>. HIDE DEF seen, known1
    <3>. QED  BY <1>1, <3>1, ShapedUpdates
  <2>4. D.rows + gain = D.rows
    BY <1>1, <1>6
  <2>. HIDE DEF event, known1, gain
  <2>5. Note(D, e) = [seen EXCEPT !.led = AddEvent(@, EventOf(e))]
    BY <2>1, <2>2
  <2>. HIDE DEF seen
  <2>6. Note(D, e) = [led |-> AddEvent(L, EventOf(e)), rows |-> D.rows, known |-> known1,
                      reports |-> D.reports]
    BY <2>3, <2>5
  <2>. QED  BY <2>4, <2>6
<1>7. Note(D, e) = R
  BY <1>5, <1>6
<1>8. gain \in Int
  BY <1>2
<1>. HIDE DEF M, gain, known1
<1>9. R.rows = R.led.share + Mine(R.led.events)
  BY <1>1, <1>3, <1>8
<1>10. PluginExact(R, P \ {e}) /\ R.known = known1
  BY <1>1, <1>3, <1>9 DEF PluginExact, Shaped
<1>. QED  BY <1>7, <1>10 DEF known1

\* A batch whose own executions come before the own ones still missing.
LEMMA BatchExact ==
  ASSUME HistoryInv, MaxSeq <= MaxEvents, NEW D, NEW P, PluginExact(D, P),
         NEW batch \in SUBSET P, NEW left, left = P \ batch,
         ~\E e \in left : e.own /\ \E f \in batch : f.own /\ f.seq > e.seq,
         NEW N, N = NoteAll(D, InOrder(batch))
  PROVE  PluginExact(N, left) /\ N.known = D.known \union SeqsOf(batch)
<1>. DEFINE list == InOrder(batch)
            m == Len(list)
            F == NoteSteps(D, list)
            Rest(n) == P \ {list[i] : i \in 1 .. n}
            Fine(n) == /\ PluginExact(F[n], Rest(n))
                       /\ F[n].known = D.known \union {list[i].seq : i \in 1 .. n}
            G == {n \in Nat : n <= m => Fine(n)}
<1>1. /\ IsFiniteSet(P) /\ \A p \in P : p.seq \in Int /\ p.id = p.seq
      /\ \A p, q \in P : p.seq = q.seq => p = q
  <2>1. Whole(D.led.events \union P, D.led.cursor)
    BY DEF PluginExact, Exact
  <2>. QED  BY <2>1, FS_Subset DEF Whole, StepTrue
<1>2. Distinct(batch)
  BY <1>1, FS_Subset DEF Distinct
<1>3. InSeqOrder(batch, list)
  BY <1>2, BatchIsListed
<1>4. /\ list \in Seq(batch) /\ m \in Nat /\ m = Cardinality(batch)
      /\ \A e \in batch : \E i \in 1 .. m : list[i] = e
  BY <1>2, <1>3, SeqOrderNamesAll
<1>5. /\ \A i \in 1 .. m : list[i] \in batch
      /\ \A i, j \in 1 .. m : i < j => list[i].seq < list[j].seq
  BY <1>3, <1>4 DEF InSeqOrder
<1>6. /\ F[0] = D
      /\ \A n \in 1 .. m : F[n] = Note(F[n - 1], list[n])
  <2>. HIDE DEF list
  <2>. QED  BY <1>4, NoteStepwise
<1>. HIDE DEF list, m, F
<1>7. 0 \in G
  <2>1. Rest(0) = P /\ {list[i].seq : i \in 1 .. 0} = {}
    OBVIOUS
  <2>. HIDE DEF Rest
  <2>. QED  BY <1>6, <2>1
<1>8. ASSUME NEW n \in Nat, n \in G
      PROVE  n + 1 \in G
  <2>. SUFFICES ASSUME n + 1 <= m
                PROVE  Fine(n + 1)
    OBVIOUS
  <2>. DEFINE e == list[n + 1]
  <2>1. Fine(n) /\ n + 1 \in 1 .. m /\ (n + 1) - 1 = n
    BY <1>4, <1>8
  <2>2. F[n + 1] = Note(F[n], e) /\ e \in batch /\ e \in P /\ e.seq \in Int
    BY <1>1, <1>5, <1>6, <2>1
  <2>3. \A i \in 1 .. n : list[i].seq < e.seq /\ list[i] # e
    <3>1. \A i \in 1 .. n : i \in 1 .. m /\ i < n + 1
      BY <1>4, <2>1
    <3>2. \A i \in 1 .. n : list[i].seq < e.seq
      BY <1>5, <2>1, <3>1
    <3>. QED  BY <2>2, <3>2
  <2>4. e \in Rest(n)
    BY <2>2, <2>3
  <2>5. ASSUME e.own, NEW q \in Rest(n), q.own
        PROVE  e.seq <= q.seq
    <3>1. q \in P /\ q.seq \in Int
      BY <1>1
    <3>2. CASE q \in batch
      <4>1. PICK j \in 1 .. m : list[j] = q
        BY <1>4, <3>2
      <4>2. ~(j \in 1 .. n)
        BY <4>1
      <4>3. j = n + 1 \/ n + 1 < j
        BY <1>4, <4>1, <4>2
      <4>4. q = e \/ e.seq < q.seq
        BY <1>5, <2>1, <4>1, <4>3
      <4>. QED  BY <2>2, <3>1, <4>4
    <3>3. CASE q \notin batch
      <4>1. q \in left
        BY <3>1, <3>3
      <4>2. ~(e.seq > q.seq)
        BY <2>2, <2>5, <4>1
      <4>. QED  BY <2>2, <3>1, <4>2
    <3>. QED  BY <3>2, <3>3
  <2>. DEFINE X == F[n]
              R == Rest(n)
  <2>6. Rest(n + 1) = R \ {e}
    <3>1. 1 .. n + 1 = (1 .. n) \union {n + 1}
      OBVIOUS
    <3>2. {list[i] : i \in 1 .. n + 1} = {list[i] : i \in 1 .. n} \union {e}
      BY <3>1
    <3>. QED  BY <3>2
  <2>7. {list[i].seq : i \in 1 .. n + 1} = {list[i].seq : i \in 1 .. n} \union {e.seq}
    <3>1. 1 .. n + 1 = (1 .. n) \union {n + 1}
      OBVIOUS
    <3>. QED  BY <3>1
  <2>8. PluginExact(X, R)
    BY <2>1
  <2>. HIDE DEF e, X, R
  <2>9. PluginExact(Note(X, e), R \ {e}) /\ Note(X, e).known = X.known \union {e.seq}
    BY <2>4, <2>5, <2>8, NoteExact DEF R
  <2>10. PluginExact(F[n + 1], Rest(n + 1))
    BY <2>2, <2>6, <2>9 DEF X
  <2>11. F[n + 1].known = D.known \union {list[i].seq : i \in 1 .. n + 1}
    BY <2>1, <2>2, <2>7, <2>9 DEF X
  <2>. QED  BY <2>10, <2>11
<1>9. Fine(m)
  <2>1. m \in G
    <3>. HIDE DEF G
    <3>. QED  BY <1>4, <1>7, <1>8, EveryNat
  <2>2. m <= m
    BY <1>4
  <2>. HIDE DEF Fine
  <2>. QED  BY <2>1, <2>2
<1>10. {list[i] : i \in 1 .. m} = batch /\ {list[i].seq : i \in 1 .. m} = SeqsOf(batch)
  <2>1. {list[i] : i \in 1 .. m} = batch
    BY <1>4, <1>5
  <2>2. {list[i].seq : i \in 1 .. m} = SeqsOf(batch)
    BY <1>4, <1>5 DEF SeqsOf
  <2>. QED  BY <2>1, <2>2
<1>11. N = F[m]
  BY DEF NoteAll, F, m, list
<1>12. Rest(m) = left
  BY <1>10
<1>. QED  BY <1>9, <1>10, <1>11, <1>12

(***************************************************************************)
(* The venue moves on.                                                     *)
(***************************************************************************)
\* What the venue appends: an execution, or another update of the same leg.
Appended(row, t) ==
    /\ LastSeq < MaxSeq
    /\ row \in Row /\ t \in Nat /\ row.share <= row.leg
    /\ history' = Append(history, row) /\ taken' = Append(taken, t)
    /\ \/ row.upd = LastSeq + 1
       \/ /\ row.upd <= LastSeq /\ t = 0
          /\ row.leg = At(LastSeq).leg /\ row.share = At(LastSeq).share

LEMMA HistoryGrows ==
  ASSUME HistoryInv, NEW row, NEW t, Appended(row, t)
  PROVE  /\ HistoryInv' /\ LastSeq' = LastSeq + 1
         /\ \A s \in 0 .. LastSeq : history'[s + 1] = history[s + 1] /\ taken'[s + 1] = taken[s + 1]
         /\ history'[LastSeq + 2] = row /\ taken'[LastSeq + 2] = t
<1>. DEFINE n == LastSeq
<1>1. /\ n \in Nat /\ MaxSeq \in Nat /\ n < MaxSeq /\ history \in Seq(Row) /\ taken \in Seq(Nat)
      /\ Len(history) = n + 1 /\ Len(taken) = n + 1
  <2>1. history \in Seq(Row) /\ taken \in Seq(Nat) /\ Len(taken) = Len(history)
    BY DEF HistoryInv
  <2>2. Len(history) \in Nat
    BY <2>1
  <2>. QED  BY <2>1, <2>2, HistoryOf DEF LastSeq, Appended
<1>. HIDE DEF n
<1>2. /\ history' \in Seq(Row) /\ Len(history') = n + 2 /\ history'[n + 2] = row
      /\ \A i \in 1 .. n + 1 : history'[i] = history[i]
  BY <1>1, AppendProperties DEF Appended
<1>3. /\ taken' \in Seq(Nat) /\ Len(taken') = n + 2 /\ taken'[n + 2] = t
      /\ \A i \in 1 .. n + 1 : taken'[i] = taken[i]
  BY <1>1, AppendProperties DEF Appended
<1>4. LastSeq' = n + 1
  BY <1>1, <1>2 DEF LastSeq
<1>5. \A s \in 0 .. n : history'[s + 1] = history[s + 1] /\ taken'[s + 1] = taken[s + 1]
  BY <1>1, <1>2, <1>3
<1>6. \A s \in 0 .. n + 1 : history'[s + 1].share <= history'[s + 1].leg
                            /\ history'[s + 1].upd <= s
  <2>1. \A s \in 0 .. n : history[s + 1].share <= history[s + 1].leg /\ history[s + 1].upd <= s
    BY DEF HistoryInv, At, n
  <2>2. row.share <= row.leg /\ row.upd <= n + 1 /\ (n + 1) + 1 = n + 2
    BY <1>1 DEF Appended, Row, n
  <2>3. \A s \in 0 .. n + 1 : s \in 0 .. n \/ s = n + 1
    BY <1>1
  <2>. QED  BY <1>2, <1>5, <2>1, <2>2, <2>3
<1>7. \A s \in 1 .. n + 1 :
         \/ history'[s + 1].upd = s
         \/ /\ history'[s + 1].leg = history'[(s - 1) + 1].leg
            /\ history'[s + 1].share = history'[(s - 1) + 1].share /\ taken'[s + 1] = 0
  <2>1. ASSUME NEW s \in 1 .. n
        PROVE  \/ history'[s + 1].upd = s
               \/ /\ history'[s + 1].leg = history'[(s - 1) + 1].leg
                  /\ history'[s + 1].share = history'[(s - 1) + 1].share /\ taken'[s + 1] = 0
    <3>1. \/ history[s + 1].upd = s
          \/ /\ history[s + 1].leg = history[(s - 1) + 1].leg
             /\ history[s + 1].share = history[(s - 1) + 1].share /\ taken[s + 1] = 0
      BY DEF HistoryInv, At, n
    <3>2. s \in 0 .. n /\ s - 1 \in 0 .. n
      BY <1>1
    <3>. QED  BY <1>5, <3>1, <3>2
  <2>2. \/ row.upd = n + 1
        \/ row.leg = history[n + 1].leg /\ row.share = history[n + 1].share /\ t = 0
    BY DEF Appended, At, n
  <2>3. n + 1 \in 1 .. n + 1 /\ (n + 1) + 1 = n + 2 /\ ((n + 1) - 1) + 1 = n + 1
    BY <1>1
  <2>4. history'[n + 1] = history[n + 1]
    BY <1>2, <2>3
  <2>5. \A s \in 1 .. n + 1 : s \in 1 .. n \/ s = n + 1
    BY <1>1
  <2>. QED  BY <1>2, <1>3, <2>1, <2>2, <2>3, <2>4, <2>5
<1>8. HistoryInv'
  <2>1. Len(history') \in 1 .. MaxSeq + 1 /\ Len(taken') = Len(history')
    BY <1>1, <1>2, <1>3
  <2>. QED  BY <1>2, <1>3, <1>4, <1>6, <1>7, <2>1 DEF HistoryInv, At
<1>. QED  BY <1>2, <1>3, <1>4, <1>5, <1>8 DEF n

LEMMA StepStays ==
  ASSUME HistoryInv, NEW row, NEW t, Appended(row, t), NEW e, StepTrue(e)
  PROVE  StepTrue(e)'
<1>1. /\ LastSeq \in Nat /\ LastSeq' = LastSeq + 1
      /\ \A s \in 0 .. LastSeq : history'[s + 1] = history[s + 1] /\ taken'[s + 1] = taken[s + 1]
  BY HistoryGrows, HistoryOf
<1>2. e.seq \in 0 .. LastSeq /\ e.seq - 1 \in 0 .. LastSeq /\ e.seq \in 1 .. LastSeq'
  BY <1>1 DEF StepTrue
<1>3. /\ history'[e.seq + 1] = history[e.seq + 1] /\ taken'[e.seq + 1] = taken[e.seq + 1]
      /\ history'[(e.seq - 1) + 1] = history[(e.seq - 1) + 1]
  BY <1>1, <1>2
<1>. QED  BY <1>2, <1>3 DEF StepTrue, At

\* The ledger, the rows, the reports and the executions entered follow the true history.
Tracked ==
    /\ PluginExact(Plugin, pending)
    /\ known \subseteq 1 .. LastSeq /\ \A p \in pending : p.seq \notin known
    /\ hold \/ Overtook(pending, known)

\* The executions missing after the venue moved on: a new one, if the row is an execution's.
Missed(row, t, P) ==
    \/ P = pending /\ row.upd # LastSeq + 1
    \/ \E x \in [id : Int, seq : Int, delta : Int, own : BOOLEAN] :
          P = pending \union {x} /\ x.seq = LastSeq + 1 /\ StepTrue(x)'

\* The executions of X account for every transaction from c up to n.
Accounted(L, P, c, n, X) ==
    /\ IsFiniteSet(X) /\ \A e, f \in X : e.seq = f.seq => e = f
    /\ \A e \in X : StepTrue(e)' /\ e.seq > c
    /\ \A s \in c + 1 .. n : history'[s + 1].upd = s => \E e \in X : e.seq = s
    /\ \A e \in L.events, p \in P : e.seq # p.seq /\ (e.own /\ p.own => e.seq < p.seq)

LEMMA LedgerStays ==
  ASSUME HistoryInv, NEW row, NEW t, Appended(row, t), Exact(led, pending), led' = led,
         Missed(row, t, pending')
  PROVE  Exact(led, pending)' /\ Lost(0, led.cursor)' = Lost(0, led.cursor)
<1>. DEFINE E == led.events \union pending
            X == led.events \union pending'
            c == led.cursor
            n == LastSeq
<1>1. /\ n \in Nat /\ LastSeq' = n + 1
      /\ \A s \in 0 .. n : history'[s + 1] = history[s + 1] /\ taken'[s + 1] = taken[s + 1]
      /\ history'[n + 2] = row
  BY HistoryGrows, HistoryOf
<1>2. /\ LedgerOk(led) /\ Sure(led) /\ c \in 0 .. n
      /\ led.leg = history[c + 1].leg /\ led.share = history[c + 1].share
      /\ \A e \in led.events : e.share = IF e.own THEN e.delta ELSE 0
      /\ Whole(E, c)
      /\ \A e \in led.events, p \in pending : e.seq # p.seq /\ (e.own /\ p.own => e.seq < p.seq)
      /\ \A v \in led.views : v.seq \in 0 .. n /\ v.size = history[v.seq + 1].leg
  BY DEF Exact, At
<1>3. /\ IsFiniteSet(E) /\ \A e, f \in E : e.seq = f.seq => e = f
      /\ \A e \in E : StepTrue(e) /\ e.seq > c /\ e.seq \in 1 .. n
      /\ \A s \in c + 1 .. n : history[s + 1].upd = s => \E e \in E : e.seq = s
  BY <1>2 DEF Whole, StepTrue, At
<1>4. \A e \in E : StepTrue(e)'
  BY <1>3, StepStays
<1>5. /\ led'.leg = history'[led'.cursor + 1].leg /\ led'.share = history'[led'.cursor + 1].share
      /\ led'.cursor \in 0 .. n + 1
      /\ \A v \in led'.views : v.seq \in 0 .. n + 1 /\ v.size = history'[v.seq + 1].leg
  BY <1>1, <1>2
<1>6. Accounted(led, pending', c, n + 1, X)
  <2>1. \A s \in c + 1 .. n + 1 : (s \in c + 1 .. n /\ s \in 0 .. n) \/ s = n + 1
    BY <1>1, <1>2
  <2>2. (n + 1) + 1 = n + 2 /\ \A e \in E : e.seq \in Int /\ e.seq < n + 1
    BY <1>1, <1>3
  <2>3. ASSUME pending' = pending, row.upd # n + 1
        PROVE  Accounted(led, pending', c, n + 1, X)
    <3>1. \A s \in c + 1 .. n + 1 : history'[s + 1].upd = s => \E e \in X : e.seq = s
      BY <1>1, <1>3, <2>1, <2>2, <2>3
    <3>. QED  BY <1>2, <1>3, <1>4, <2>3, <3>1 DEF Accounted
  <2>4. ASSUME NEW x, pending' = pending \union {x}, x.seq = n + 1, StepTrue(x)'
        PROVE  Accounted(led, pending', c, n + 1, X)
    <3>1. X = E \union {x} /\ x \notin E
      BY <2>2, <2>4
    <3>2. IsFiniteSet(X)
      BY <1>3, <3>1, FS_AddElement
    <3>3. \A e, f \in X : e.seq = f.seq => e = f
      BY <1>3, <2>2, <2>4, <3>1
    <3>4. \A e \in X : StepTrue(e)' /\ e.seq > c
      BY <1>1, <1>2, <1>3, <1>4, <2>4, <3>1
    <3>5. \A s \in c + 1 .. n + 1 : history'[s + 1].upd = s => \E e \in X : e.seq = s
      <4>1. x \in X
        BY <3>1
      <4>2. \A s \in c + 1 .. n : history'[s + 1].upd = s => \E e \in X : e.seq = s
        BY <1>1, <1>2, <1>3, <3>1
      <4>. QED  BY <2>1, <2>4, <4>1, <4>2
    <3>6. \A e \in led.events, p \in pending' :
             e.seq # p.seq /\ (e.own /\ p.own => e.seq < p.seq)
      BY <1>2, <2>2, <2>4
    <3>. QED  BY <3>2, <3>3, <3>4, <3>5, <3>6 DEF Accounted
  <2>. QED  BY <2>3, <2>4 DEF Missed
<1>. HIDE DEF n
<1>7. Exact(led, pending)'
  BY <1>1, <1>2, <1>5, <1>6 DEF Accounted, Exact, Whole, At, Sure
<1>8. Lost(0, led.cursor)' = Lost(0, led.cursor)
  <2>1. \A s \in 0 + 1 .. led.cursor : taken'[s + 1] = taken[s + 1]
    BY <1>1, <1>2
  <2>. QED  BY <2>1 DEF Lost
<1>. QED  BY <1>7, <1>8

LEMMA VenueMoves ==
  ASSUME HistoryInv, Tracked, NEW row, NEW t, Appended(row, t), Missed(row, t, pending'),
         UNCHANGED <<plugin, hold>>
  PROVE  HistoryInv' /\ Tracked'
<1>. DEFINE n == LastSeq
<1>1. HistoryInv' /\ n \in Nat /\ LastSeq' = n + 1
  BY HistoryGrows, HistoryOf
<1>2. led' = led /\ rows' = rows /\ known' = known /\ reports' = reports /\ hold' = hold
  BY DEF plugin
<1>3. /\ Exact(led, pending) /\ rows = led.share + Mine(led.events)
      /\ reports = Lost(0, led.cursor)
  BY DEF Tracked, PluginExact, Plugin
<1>4. Exact(led, pending)' /\ Lost(0, led.cursor)' = Lost(0, led.cursor)
  BY <1>2, <1>3, LedgerStays
<1>5. PluginExact(Plugin, pending)'
  <2>1. Shaped(Plugin)'
    BY DEF Shaped, Plugin
  <2>2. /\ Plugin'.led = led' /\ Plugin'.rows = rows' /\ Plugin'.reports = reports'
    BY DEF Plugin
  <2>3. rows' = led'.share + Mine(led'.events) /\ reports' = Lost(0, led.cursor)'
    BY <1>2, <1>3, <1>4
  <2>. QED  BY <1>4, <2>1, <2>2, <2>3 DEF PluginExact, Mine
<1>6. /\ known \subseteq 1 .. n /\ \A p \in pending : p.seq \notin known
      /\ hold \/ Overtook(pending, known)
  BY DEF Tracked
<1>. HIDE DEF n
<1>7. known' \subseteq 1 .. n + 1
  BY <1>1, <1>2, <1>6
<1>8. CASE pending' = pending
  BY <1>1, <1>2, <1>5, <1>6, <1>7, <1>8 DEF Tracked, Overtook, Overtaken
<1>9. ASSUME NEW x, pending' = pending \union {x}, x.seq = n + 1
      PROVE  Tracked'
  <2>1. \A p \in pending' : p.seq \notin known
    BY <1>1, <1>6, <1>9
  <2>2. Overtaken(pending', known) = Overtaken(pending, known)
    <3>1. \A s \in known : ~(s > x.seq)
      BY <1>1, <1>6, <1>9
    <3>. QED  BY <1>9, <3>1 DEF Overtaken
  <2>3. hold \/ Overtook(pending', known)
    BY <1>6, <2>1, <2>2 DEF Overtook
  <2>4. (\A p \in pending : p.seq \notin known)' /\ (hold \/ Overtook(pending, known))'
    BY <1>2, <2>1, <2>3 DEF Overtook, Overtaken
  <2>. QED  BY <1>1, <1>5, <1>7, <2>4 DEF Tracked
<1>. QED  BY <1>1, <1>8, <1>9 DEF Missed, n

LEMMA OtherAppends ==
  ASSUME HistoryInv, OtherTransaction
  PROVE  \E row, t : Appended(row, t) /\ Missed(row, t, pending')
<1>. DEFINE n == LastSeq
<1>1. n \in Nat /\ At(n) \in Row /\ At(n).share <= At(n).leg /\ At(n).upd <= n /\ Now = At(n)
  <2>1. n \in Nat /\ n \in 0 .. n /\ Len(history) \in Nat
    BY HistoryOf DEF HistoryInv
  <2>2. Now = At(n)
    BY <2>1 DEF Now, At, LastSeq
  <2>. QED  BY <2>1, <2>2, HistoryOf DEF HistoryInv
<1>2. Appended(Now, 0)
  BY <1>1 DEF Appended, OtherTransaction
<1>3. Missed(Now, 0, pending')
  BY <1>1 DEF Missed, OtherTransaction, Row
<1>. QED  BY <1>2, <1>3

LEMMA ExecuteAppends ==
  ASSUME HistoryInv, Execute
  PROVE  \E row, t : Appended(row, t) /\ Missed(row, t, pending')
<1>. DEFINE n == LastSeq
<1>1. /\ n \in Nat /\ At(n) \in Row /\ At(n).share <= At(n).leg /\ Now = At(n)
      /\ Now.leg \in Nat /\ Now.share \in Nat
  <2>1. n \in Nat /\ n \in 0 .. n /\ Len(history) \in Nat
    BY HistoryOf DEF HistoryInv
  <2>2. Now = At(n)
    BY <2>1 DEF Now, At, LastSeq
  <2>. QED  BY <2>1, <2>2, HistoryOf DEF HistoryInv
<1>2. MaxSize \in Nat /\ \A q \in Quantities : q \in Nat /\ q # 0
  BY LegAssumption
<1>3. PICK self \in BOOLEAN, q \in Quantities, grow \in BOOLEAN :
          LET delta == IF grow THEN q ELSE -q
              seq == LastSeq + 1
              share == TrueShare(self, delta)
          IN  /\ Now.leg + delta \in 0 .. MaxSize
              /\ self /\ ~grow => q <= Now.share
              /\ history' = Append(history, [leg |-> Now.leg + delta,
                                             share |-> share, upd |-> seq])
              /\ taken' = Append(taken, IF self THEN 0 ELSE Now.share - share)
              /\ pending' = pending \union
                    {[id |-> seq, seq |-> seq, delta |-> delta, own |-> self]}
  BY DEF Execute
<1>. DEFINE d == IF grow THEN q ELSE -q
            share == TrueShare(self, d)
            row == [leg |-> Now.leg + d, share |-> share, upd |-> n + 1]
            t == IF self THEN 0 ELSE Now.share - share
<1>. PICK x : x = [id |-> n + 1, seq |-> n + 1, delta |-> d, own |-> self]
  OBVIOUS
<1>4. /\ LastSeq < MaxSeq
      /\ history' = Append(history, row) /\ taken' = Append(taken, t)
      /\ pending' = pending \union {x}
      /\ Now.leg + d \in 0 .. MaxSize /\ (self /\ ~grow => q <= Now.share)
  BY <1>3 DEF Execute
<1>5. /\ d \in Int /\ d # 0 /\ share \in Nat /\ share <= Now.leg + d
      /\ (self => share = Now.share + d)
      /\ (~self => share = Smaller(Now.share, Now.leg + d) /\ share <= Now.share)
  <2>1. d \in Int /\ d # 0 /\ q \in Nat
    BY <1>2
  <2>2. share = IF self THEN Pos(Now.share + d) ELSE Smaller(Now.share, Now.leg + d)
    BY DEF TrueShare
  <2>3. CASE self
    <3>1. Now.share + d >= 0 /\ Now.share + d <= Now.leg + d
      BY <1>1, <1>2, <1>4, <2>3
    <3>2. share = Pos(Now.share + d)
      BY <2>2, <2>3
    <3>. HIDE DEF d, share
    <3>3. share = Now.share + d
      BY <1>1, <2>1, <3>1, <3>2 DEF Pos, Larger
    <3>4. share \in Nat /\ share <= Now.leg + d
      BY <1>1, <2>1, <3>1, <3>3
    <3>. QED  BY <2>1, <2>3, <3>3, <3>4
  <2>4. CASE ~self
    <3>1. Now.leg + d \in Nat
      BY <1>2, <1>4
    <3>. HIDE DEF d, share
    <3>. QED  BY <1>1, <2>1, <2>2, <2>4, <3>1 DEF Smaller
  <2>. QED  BY <2>3, <2>4
<1>. HIDE DEF d, share
<1>6. row \in Row /\ t \in Nat /\ row.share <= row.leg /\ row.upd = n + 1
  BY <1>1, <1>2, <1>4, <1>5 DEF Row
<1>7. Appended(row, t)
  BY <1>4, <1>6 DEF Appended
<1>8. /\ LastSeq' = n + 1 /\ history'[n + 1] = history[n + 1]
      /\ history'[n + 2] = row /\ taken'[n + 2] = t
  BY <1>1, <1>7, HistoryGrows
<1>9. /\ x \in [id : Int, seq : Int, delta : Int, own : BOOLEAN]
      /\ x.seq = n + 1 /\ x.id = n + 1 /\ x.delta = d /\ x.own = self
  BY <1>1, <1>5
<1>10. StepTrue(x)'
  <2>1. /\ history'[x.seq + 1] = row /\ taken'[x.seq + 1] = t
        /\ history'[(x.seq - 1) + 1] = Now
    <3>1. x.seq + 1 = n + 2 /\ (x.seq - 1) + 1 = n + 1
      BY <1>1, <1>9
    <3>. QED  BY <1>1, <1>8, <3>1 DEF At
  <2>2. /\ row.leg = Now.leg + d /\ row.share = share /\ row.upd = x.seq
        /\ (self => t = 0) /\ (~self => t = Now.share - share)
    BY <1>9
  <2>3. x.seq \in 1 .. LastSeq'
    BY <1>1, <1>8, <1>9
  <2>. HIDE DEF row, t
  <2>. QED  BY <1>5, <1>8, <1>9, <2>1, <2>2, <2>3 DEF StepTrue, At
<1>. HIDE DEF row, t
<1>11. Missed(row, t, pending')
  BY <1>4, <1>9, <1>10 DEF Missed, n
<1>. QED  BY <1>7, <1>11

(***************************************************************************)
(* The ledger anchors on the view of the adoption baseline.                *)
(***************************************************************************)
\* The ledger that has only the view of the baseline, of a leg of that size, and that ledger
\* anchored on it.
Unanchored(leg) == AddView(NewLedger, [seq |-> 0, size |-> leg, upd |-> 0])
OnFirst(L, leg, share) ==
    /\ L \in Ledger /\ L.cursor = 0 /\ L.leg = leg /\ L.share = share /\ L.journal = share
    /\ L.doubt = 0 /\ L.gaps = <<>> /\ L.credits = <<>>
    /\ L.events = {} /\ L.views = {[seq |-> 0, size |-> leg]}

LEMMA FirstViewAdded ==
  ASSUME NEW leg \in Nat
  PROVE  LET L == Unanchored(leg)
         IN  /\ LedgerOk(L) /\ L.views = {[seq |-> 0, size |-> leg]} /\ L.events = {}
             /\ L.credits = <<>> /\ ~Started(L)
<1>. DEFINE v == [seq |-> 0, size |-> leg, upd |-> 0]
            view == [seq |-> 0, size |-> leg]
            kept == {w \in {} : w.seq # v.seq}
            views == NewestViews(kept \union {view})
<1>1. NewLedger.newest = NoView /\ NewLedger.views = {} /\ NewLedger.cursor = Unset
  BY DEF NewLedger
<1>2. ~Echo(NewLedger, v) /\ Newest(NewLedger, v) = v
  BY <1>1 DEF Echo, Newest, Unset
<1>3. ~Started(NewLedger)
  BY <1>1 DEF Started
<1>4. views = {view}
  <2>1. kept \union {view} = {view}
    OBVIOUS
  <2>2. {w \in {view} : w.seq >= view.seq} = {view}
    OBVIOUS
  <2>. HIDE DEF view, kept
  <2>3. Cardinality({view}) = 1
    BY FS_Singleton
  <2>4. 1 <= MaxViews
    BY LedgerAssumption
  <2>. QED  BY <2>1, <2>2, <2>3, <2>4 DEF NewestViews
<1>5. Unanchored(leg) = [NewLedger EXCEPT !.newest = v, !.views = views]
  BY <1>1, <1>2, <1>3 DEF AddView, Unanchored
<1>6. LedgerOk(Unanchored(leg)) /\ Unanchored(leg).events = {} /\ ~Started(Unanchored(leg))
  <2>1. v \in [seq : Int, size : Nat, upd : Int]
    OBVIOUS
  <2>. HIDE DEF v
  <2>2. LedgerOk(AddView(NewLedger, v)) /\ AddView(NewLedger, v).events = NewLedger.events
        /\ AddView(NewLedger, v).cursor = NewLedger.cursor
    BY <2>1, NewLedgerOk, ViewAdded
  <2>3. NewLedger.events = {} /\ NewLedger.cursor = Unset
    BY DEF NewLedger
  <2>. QED  BY <2>2, <2>3 DEF Unanchored, v, Started
<1>. HIDE DEF views, v
<1>7. Unanchored(leg).views = views /\ Unanchored(leg).credits = <<>>
  <2>1. NewLedger \in Ledger /\ NewLedger.credits = <<>>
    BY NewLedgerOk DEF LedgerOk, NewLedger
  <2>. QED  BY <1>5, <2>1 DEF Ledger
<1>. QED  BY <1>4, <1>6, <1>7

LEMMA FirstStart ==
  ASSUME NEW leg \in Nat, NEW share \in 0 .. leg
  PROVE  LET S == Start(Unanchored(leg), share)
         IN  LedgerOk(S.led) /\ OnFirst(S.led, leg, share) /\ S.out = <<>>
<1>. DEFINE L == Unanchored(leg)
            vw == [seq |-> 0, size |-> leg]
            view == CHOOSE v \in L.views : \A w \in L.views : w.seq <= v.seq
            held == Capped(share, leg)
<1>1. L.views = {vw} /\ L.events = {} /\ L.credits = <<>> /\ LedgerOk(L) /\ L \in Ledger
      /\ ListsOk(L)
  BY FirstViewAdded DEF LedgerOk
<1>. HIDE DEF L
<1>2. view = vw
  <2>1. \A w \in {vw} : w.seq <= vw.seq
    OBVIOUS
  <2>. HIDE DEF vw, L
  <2>. QED  BY <1>1, <2>1
<1>3. ShareIn({}) = 0
  <2>. DEFINE f(T) == [e \in T |-> e.share]
  <2>1. \A T : ShareIn(T) = SumOver(f(T), T)
    BY DEF ShareIn, Total, SumOver
  <2>. HIDE DEF f
  <2>. QED  BY <2>1, SumEmpty
<1>4. OwnBeyond(L, 0) = 0
  <2>1. {e \in {} : e.own /\ e.seq > 0} = {}
    OBVIOUS
  <2>. HIDE DEF L
  <2>. QED  BY <1>1, <1>3, <2>1 DEF OwnBeyond
<1>5. held = share /\ share \in Nat /\ share \in Int /\ leg \in Int
  <2>1. share \in Nat /\ share \in Int /\ leg \in Int /\ leg >= 0 /\ share <= leg
    OBVIOUS
  <2>2. held = Smaller(Pos(share), leg)
    BY <2>1, CappedTo
  <2>. QED  BY <2>1, <2>2 DEF Smaller, Pos, Larger
<1>6. Size(share) - Size(held) = 0 /\ share - 0 = share
  BY <1>5 DEF Size
<1>. DEFINE events == {e \in L.events : e.seq > view.seq}
            start == share - OwnBeyond(L, view.seq)
            shown == Capped(start, view.size)
            clamped == Size(start) - Size(shown)
            side == Direction(start)
            N == [L EXCEPT
                !.cursor = view.seq, !.anchor = view.seq, !.leg = view.size,
                !.views = {view}, !.events = events,
                !.share = shown, !.journal = start, !.doubt = 0, !.gaps = <<>>,
                !.blind = view.seq]
            anchored == ResetRoom(N, view.size)
            doubted == AddDoubt(TakeJournal(anchored, clamped, side), view.seq, Size(shown))
            clamp == AddCredit(doubted, view.seq, clamped, side)
            gap == [start |-> Unset, end |-> view.seq, startLeg |-> view.size,
                    endLeg |-> view.size, share |-> shown,
                    journal |-> clamp.journal, doubt0 |-> 0, events |-> {},
                    doubt |-> clamp.doubt, settled |-> FALSE]
<1>7. Start(L, share) = IF L.views = {} THEN [led |-> L, out |-> <<>>]
                        ELSE IF clamped = 0 THEN [led |-> anchored, out |-> <<>>]
                        ELSE [led |-> IF clamp.doubt = 0 THEN clamp ELSE AddGap(clamp, gap),
                              out |-> <<BookedOutcome(clamped)>>]
  BY DEF Start
<1>. HIDE DEF clamp, gap, view
<1>8. view.seq = 0 /\ view.size = leg
  BY <1>2
<1>9. start = share /\ shown = share /\ clamped = 0 /\ events = {}
  BY <1>1, <1>4, <1>5, <1>6, <1>8
<1>10. Start(L, share) = [led |-> anchored, out |-> <<>>]
  <2>1. L.views # {}
    BY <1>1
  <2>. HIDE DEF anchored, clamped
  <2>. QED  BY <1>7, <1>9, <2>1
<1>11. LedgerOk(Start(L, share).led)
  BY <1>1, <1>5, Anchored DEF Kept
<1>. HIDE DEF events, start, shown, vw
<1>12. /\ N \in Ledger /\ N.cursor = 0 /\ N.leg = leg /\ N.share = share /\ N.journal = share
       /\ N.doubt = 0 /\ N.gaps = <<>> /\ N.credits = <<>> /\ N.events = {} /\ N.views = {vw}
  <2>. DEFINE c == view.seq
              z == view.size
              vs == {view}
              none == <<>>
              zero == 0
              X == [L EXCEPT !.cursor = c, !.anchor = c, !.leg = z,
                             !.views = vs, !.events = events]
              Y == [X EXCEPT !.share = shown, !.journal = start]
              Z == [Y EXCEPT !.doubt = zero, !.gaps = none]
  <2>1. /\ c \in Int /\ z \in Int /\ vs \in SUBSET LegView /\ events \in SUBSET LegExecution
        /\ shown \in Int /\ start \in Int /\ none \in Seq(LegGap) /\ zero \in Int
    BY <1>1, <1>2, <1>5, <1>8, <1>9 DEF Ledger
  <2>2. N = [Z EXCEPT !.blind = c]
    BY <1>1 DEF Ledger
  <2>3. c = 0 /\ z = leg /\ vs = {vw} /\ zero = 0 /\ none = <<>>
    BY <1>2, <1>8
  <2>. HIDE DEF c, z, vs, none, zero, X, Y, Z, N
  <2>4. /\ X \in Ledger /\ X.cursor = c /\ X.leg = z /\ X.views = vs /\ X.events = events
        /\ X.credits = L.credits
    BY <1>1, <2>1 DEF Ledger, X
  <2>5. /\ Y \in Ledger /\ Y.cursor = c /\ Y.leg = z /\ Y.views = vs /\ Y.events = events
        /\ Y.credits = L.credits /\ Y.share = shown /\ Y.journal = start
    BY <2>1, <2>4 DEF Ledger, Y
  <2>6. /\ Z \in Ledger /\ Z.cursor = c /\ Z.leg = z /\ Z.views = vs /\ Z.events = events
        /\ Z.credits = L.credits /\ Z.share = shown /\ Z.journal = start
        /\ Z.doubt = zero /\ Z.gaps = none
    BY <2>1, <2>5 DEF Ledger, Z
  <2>7. /\ N \in Ledger /\ N.cursor = c /\ N.leg = z /\ N.views = vs /\ N.events = events
        /\ N.credits = L.credits /\ N.share = shown /\ N.journal = start
        /\ N.doubt = zero /\ N.gaps = none
    BY <2>1, <2>2, <2>6 DEF Ledger
  <2>. QED  BY <1>1, <1>9, <2>3, <2>7
<1>. HIDE DEF N
<1>13. OnFirst(anchored, leg, share)
  <2>1. Roomed(N, ResetRoom(N, leg))
    BY <1>12, RoomNoted
  <2>2. SameFigures(N, anchored) /\ anchored \in Ledger /\ anchored.views = N.views
        /\ anchored.events = N.events /\ anchored.leg = N.leg /\ anchored.cursor = N.cursor
    BY <1>8, <1>12, <2>1, RoomedFields
  <2>. HIDE DEF anchored
  <2>. QED  BY <1>12, <2>2 DEF OnFirst, SameFigures, vw
<1>. HIDE DEF anchored
<1>. QED  BY <1>10, <1>11, <1>13 DEF L

LEMMA FirstSynced ==
  ASSUME NEW L, NEW leg \in Nat, NEW share \in 0 .. leg, OnFirst(L, leg, share)
  PROVE  SyncJournal(L, share) = L
<1>1. /\ L \in Ledger /\ L.cursor = 0 /\ L.share = share /\ L.journal = share
      /\ L.doubt = 0 /\ L.gaps = <<>> /\ L.events = {}
  BY DEF OnFirst
<1>2. OwnBeyond(L, L.cursor) = 0
  <2>. DEFINE f(T) == [e \in T |-> e.share]
  <2>1. \A T : ShareIn(T) = SumOver(f(T), T)
    BY DEF ShareIn, Total, SumOver
  <2>2. {e \in {} : e.own /\ e.seq > L.cursor} = {}
    OBVIOUS
  <2>. HIDE DEF f
  <2>3. ShareIn({}) = 0
    BY <2>1, SumEmpty
  <2>. QED  BY <1>1, <2>2, <2>3 DEF OwnBeyond
<1>3. share - OwnBeyond(L, L.cursor) = share /\ Bounded(share, share) = share /\ share \in Nat
  BY <1>2 DEF Bounded, Size
<1>4. Started(L)
  BY <1>1 DEF Started, Unset
<1>5. SyncJournal(L, share) = CapDoubt([L EXCEPT !.journal = share, !.share = share])
  BY <1>1, <1>3, <1>4 DEF SyncJournal
<1>6. [L EXCEPT !.journal = share, !.share = share] = L
  BY <1>1 DEF Ledger
<1>7. CapDoubt(L) = L
  <2>1. Smaller(0, Size(share)) = 0
    BY <1>3 DEF Smaller, Size
  <2>. DEFINE none == <<>>
              zero == 0
  <2>2. CapDoubt(L) = [L EXCEPT !.doubt = zero, !.gaps = none]
    BY <1>1, <2>1 DEF CapDoubt
  <2>3. L.doubt = zero /\ L.gaps = none
    BY <1>1
  <2>. HIDE DEF none, zero
  <2>. QED  BY <1>1, <2>2, <2>3 DEF Ledger
<1>. QED  BY <1>5, <1>6, <1>7

\* The ledger of the adoption baseline is exact.
LEMMA FirstExact ==
  ASSUME HistoryInv, LastSeq = 0, NEW leg \in Nat, NEW share \in 0 .. leg,
         At(0).leg = leg, At(0).share = share, NEW seen,
         seen = [led |-> Unanchored(leg), rows |-> share, known |-> {}, reports |-> {}]
  PROVE  Exact(LedgerAdvance(seen, FALSE, FALSE).led, {})
<1>. DEFINE L == Start(Unanchored(leg), share).led
            D == [led |-> L, rows |-> share, known |-> {}, reports |-> {}]
<1>1. LedgerOk(L) /\ OnFirst(L, leg, share) /\ Start(Unanchored(leg), share).out = <<>>
  BY FirstStart
<1>2. ~Started(Unanchored(leg))
  BY FirstViewAdded
<1>. HIDE DEF L
<1>3. /\ L \in Ledger /\ L.cursor = 0 /\ L.leg = leg /\ L.share = share /\ L.journal = share
      /\ L.doubt = 0 /\ L.gaps = <<>> /\ L.credits = <<>> /\ L.events = {}
      /\ L.views = {[seq |-> 0, size |-> leg]}
  BY <1>1 DEF OnFirst
<1>4. Exact(L, {})
  <2>1. Whole(L.events \union {}, L.cursor)
    BY <1>3, FS_EmptySet DEF Whole
  <2>2. \A v \in L.views : v.seq \in 0 .. LastSeq /\ v.size = At(v.seq).leg
    BY <1>3
  <2>. QED  BY <1>1, <1>3, <2>1, <2>2 DEF Exact, Sure
<1>5. PluginExact(D, {})
  <2>1. Shaped(D) /\ D.led = L /\ D.rows = share /\ D.reports = {}
    BY DEF Shaped
  <2>2. Mine(L.events) = 0
    <3>1. OwnOf({}) = {}
      BY DEF OwnOf
    <3>2. Counted({})
      BY FS_EmptySet DEF Counted
    <3>. QED  BY <1>3, <3>1, <3>2, DeltaOf DEF Mine
  <2>3. Lost(0, L.cursor) = {}
    BY <1>3 DEF Lost
  <2>4. share = share + 0
    OBVIOUS
  <2>5. D.rows = D.led.share + Mine(D.led.events) /\ D.reports = Lost(0, D.led.cursor)
    BY <1>3, <2>1, <2>2, <2>3, <2>4
  <2>. HIDE DEF D
  <2>. QED  BY <1>4, <2>1, <2>5 DEF PluginExact
<1>6. PluginExact(LedgerAdvance(D, FALSE, FALSE), {})
  <2>. HIDE DEF D
  <2>. QED  BY <1>5, JudgedExact
<1>7. LedgerAdvance(seen, FALSE, FALSE) = LedgerAdvance(D, FALSE, FALSE)
  <2>1. Started(L) /\ D.led = L /\ D.rows = share
    BY <1>3 DEF Started, Unset
  <2>2. SyncJournal(L, share) = L
    BY <1>1, FirstSynced
  <2>3. [D EXCEPT !.led = L] = D
    OBVIOUS
  <2>4. [D EXCEPT !.led = SyncJournal(@, D.rows)] = [D EXCEPT !.led = SyncJournal(L, share)]
    OBVIOUS
  <2>5. LedgerAdvance(D, FALSE, FALSE) = AdvanceLeg(D, <<>>, FALSE, FALSE)
    <3>. HIDE DEF D
    <3>. QED  BY <2>1, <2>2, <2>3, <2>4 DEF LedgerAdvance
  <2>6. seen.led = Unanchored(leg) /\ seen.rows = share /\ [seen EXCEPT !.led = L] = D
    OBVIOUS
  <2>7. LedgerAdvance(seen, FALSE, FALSE)
          = BeginLeg(seen, Start(Unanchored(leg), share), FALSE, FALSE)
    <3>. HIDE DEF D
    <3>. QED  BY <1>2, <2>6 DEF LedgerAdvance
  <2>8. BeginLeg(seen, Start(Unanchored(leg), share), FALSE, FALSE)
          = AdvanceLeg(D, <<>>, FALSE, FALSE)
    <3>. HIDE DEF D
    <3>. QED  BY <1>1, <2>6 DEF BeginLeg, Begun, L
  <2>. QED  BY <2>5, <2>7, <2>8
<1>. HIDE DEF D
<1>. QED  BY <1>6, <1>7 DEF PluginExact

\* A ledger the baseline's view can no longer anchor.
Off(L) == L.anchor # 0 /\ \A v \in L.views : v.seq # 0

LEMMA OffStays ==
  ASSUME NEW L, NEW M, From(L, M), Off(L)
  PROVE  Off(M)
BY DEF From, Off

\* Until a give-up the ledger of the baseline follows the true history.
ExactInv ==
    /\ HistoryInv /\ expiries \in Nat
    /\ expiries > 0 \/ Off(led) \/ Tracked

LEMMA JudgeTracked ==
  ASSUME HistoryInv, expiries \in Nat, NEW D, NEW P, PluginExact(D, P),
         hold \/ Overtook(P, D.known), D.known \subseteq 1 .. LastSeq,
         \A p \in P : p.seq \notin D.known,
         Judge(D), UNCHANGED <<venue, hold>>, pending' = P
  PROVE  expiries' > 0 \/ Tracked'
<1>1. PICK expired \in BOOLEAN :
         /\ expiries' = IF expired THEN expiries + 1 ELSE expiries
         /\ Becomes(LedgerAdvance(D, ~hold, expired))
  BY DEF Judge
<1>2. CASE expired
  BY <1>1, <1>2
<1>3. CASE ~expired
  <2>. DEFINE N == LedgerAdvance(D, ~hold, FALSE)
  <2>1. PluginExact(N, P) /\ N.known = D.known
    <3>1. (~hold) \in BOOLEAN /\ (~hold => Overtook(P, D.known))
      OBVIOUS
    <3>. QED  BY <3>1, JudgedExact
  <2>2. Becomes(N)
    <3>1. expired = FALSE
      BY <1>3
    <3>. QED  BY <1>1, <3>1
  <2>. HIDE DEF N
  <2>3. led' = N.led /\ rows' = N.rows /\ known' = D.known /\ reports' = N.reports
    BY <2>1, <2>2 DEF Becomes
  <2>4. history' = history /\ taken' = taken /\ LastSeq' = LastSeq /\ hold' = hold
    BY DEF venue, LastSeq
  <2>5. PluginExact(Plugin, pending)'
    <3>1. /\ Exact(N.led, P) /\ N.rows = N.led.share + Mine(N.led.events)
          /\ N.reports = Lost(0, N.led.cursor)
      BY <2>1 DEF PluginExact
    <3>2. Exact(led, pending)'
      BY <2>3, <2>4, <3>1 DEF Exact, Whole, StepTrue, At, Sure
    <3>3. Lost(0, led.cursor)' = Lost(0, N.led.cursor)
      BY <2>3, <2>4 DEF Lost
    <3>4. Shaped(Plugin)' /\ Plugin'.led = led' /\ Plugin'.rows = rows'
          /\ Plugin'.reports = reports'
      BY DEF Shaped, Plugin
    <3>. QED  BY <2>3, <3>1, <3>2, <3>3, <3>4 DEF PluginExact, Mine
  <2>. QED  BY <2>3, <2>4, <2>5 DEF Tracked, Overtook, Overtaken
<1>. QED  BY <1>2, <1>3

LEMMA FewAlike ==
  ASSUME MaxMissing <= 1, NEW A, IsFiniteSet(A), Cardinality(A) <= MaxMissing
  PROVE  \A p, q \in A : p = q
<1>1. Cardinality(A) \in Nat /\ MaxMissing \in Nat
  BY FS_CardinalityType, LegAssumption
<1>2. Cardinality(A) = 0 \/ Cardinality(A) = 1
  BY <1>1
<1>3. CASE Cardinality(A) = 0
  BY <1>3, FS_EmptySet
<1>4. CASE Cardinality(A) = 1
  <2>1. \E x : A = {x}
    BY <1>4, FS_Singleton
  <2>. QED  BY <2>1
<1>. QED  BY <1>2, <1>3, <1>4

\* At most one execution is overtaken, before a batch and by it: at most one is after it.
LEMMA BatchOvertakes ==
  ASSUME MaxMissing <= 1, NEW P, IsFiniteSet(P), \A p \in P : p.seq \in Int, NEW seqs,
         seqs \subseteq Int, Overtook(P, seqs),
         \A p, q \in P : p.seq = q.seq => p = q, NEW batch \in SUBSET P,
         Cardinality(Overtaken(P \ batch, SeqsOf(batch))) <= MaxMissing
  PROVE  Overtook(P \ batch, seqs \union SeqsOf(batch))
<1>. DEFINE left == P \ batch
            S == SeqsOf(batch)
            A == Overtaken(left, S)
<1>1. S \subseteq Int /\ \A p \in left : p.seq \notin S
  BY DEF SeqsOf
<1>2. \A p, q \in A : p = q
  <2>1. A \subseteq P
    BY DEF Overtaken
  <2>. HIDE DEF A
  <2>2. IsFiniteSet(A) /\ Cardinality(A) <= MaxMissing
    BY <2>1, FS_Subset DEF A
  <2>. QED  BY <2>2, FewAlike
<1>3. ASSUME NEW p \in Overtaken(left, seqs \union S), NEW q \in Overtaken(left, seqs \union S)
      PROVE  p = q
  <2>1. PICK s \in seqs \union S : s > p.seq
    BY <1>3 DEF Overtaken
  <2>2. PICK r \in seqs \union S : r > q.seq
    BY <1>3 DEF Overtaken
  <2>3. p \in left /\ q \in left
    BY <1>3 DEF Overtaken
  <2>4. p.seq \in Int /\ q.seq \in Int /\ s \in Int /\ r \in Int
    BY <1>1, <2>3
  <2>5. \A k \in seqs : k > p.seq /\ k > q.seq => p = q
    BY <2>3 DEF Overtook, Overtaken
  <2>6. \A k \in S : k > p.seq /\ k > q.seq => p = q
    BY <1>2, <2>3 DEF Overtaken
  <2>7. s > q.seq \/ r > p.seq
    BY <2>1, <2>2, <2>4
  <2>. QED  BY <2>1, <2>2, <2>5, <2>6, <2>7
<1>. QED  BY <1>1, <1>3 DEF Overtook

LEMMA ExactStarts == LegInit => ExactInv
<1>. SUFFICES ASSUME LegInit PROVE ExactInv
  OBVIOUS
<1>1. PICK late \in LateStarts :
        \E leg \in IF late THEN {0} ELSE 0 .. MaxSize : \E share \in 0 .. leg :
            /\ history = <<[leg |-> leg, share |-> share, upd |-> 0]>>
            /\ rows = share
            /\ LET seen == [led |-> AddView(NewLedger, [seq |-> 0, size |-> leg, upd |-> 0]),
                            rows |-> share, known |-> {}, reports |-> {}]
               IN  led = IF late THEN NewLedger ELSE LedgerAdvance(seen, FALSE, FALSE).led
            /\ known = {} /\ reports = {} /\ taken = <<0>> /\ pending = {} /\ hold = TRUE
            /\ expiries = 0
  BY DEF LegInit
<1>2. PICK leg \in IF late THEN {0} ELSE 0 .. MaxSize :
        \E share \in 0 .. leg :
            /\ history = <<[leg |-> leg, share |-> share, upd |-> 0]>>
            /\ rows = share
            /\ LET seen == [led |-> AddView(NewLedger, [seq |-> 0, size |-> leg, upd |-> 0]),
                            rows |-> share, known |-> {}, reports |-> {}]
               IN  led = IF late THEN NewLedger ELSE LedgerAdvance(seen, FALSE, FALSE).led
            /\ known = {} /\ reports = {} /\ taken = <<0>> /\ pending = {} /\ hold = TRUE
            /\ expiries = 0
  BY <1>1
<1>3. PICK share \in 0 .. leg :
            /\ history = <<[leg |-> leg, share |-> share, upd |-> 0]>>
            /\ rows = share
            /\ LET seen == [led |-> AddView(NewLedger, [seq |-> 0, size |-> leg, upd |-> 0]),
                            rows |-> share, known |-> {}, reports |-> {}]
               IN  led = IF late THEN NewLedger ELSE LedgerAdvance(seen, FALSE, FALSE).led
            /\ known = {} /\ reports = {} /\ taken = <<0>> /\ pending = {} /\ hold = TRUE
            /\ expiries = 0
  BY <1>2
<1>. DEFINE seen == [led |-> Unanchored(leg), rows |-> share, known |-> {}, reports |-> {}]
            row == [leg |-> leg, share |-> share, upd |-> 0]
<1>4. leg \in Nat /\ share \in Nat /\ share <= leg /\ MaxSeq \in Nat
  BY <1>2, <1>3, LegAssumption
<1>5. led = IF late THEN NewLedger ELSE LedgerAdvance(seen, FALSE, FALSE).led
  BY <1>3 DEF Unanchored
<1>6. HistoryInv /\ LastSeq = 0 /\ At(0) = row
  <2>1. row \in Row
    BY <1>4 DEF Row
  <2>2. row.share <= row.leg /\ row.upd <= 0
    BY <1>4
  <2>. HIDE DEF row
  <2>3. history \in Seq(Row) /\ Len(history) = 1 /\ history[1] = row
    BY <1>3, <2>1 DEF row
  <2>4. taken \in Seq(Nat) /\ Len(taken) = 1
    BY <1>3
  <2>5. LastSeq = 0 /\ At(0) = row
    BY <2>3 DEF LastSeq, At
  <2>. QED  BY <1>4, <2>2, <2>3, <2>4, <2>5 DEF HistoryInv
<1>7. CASE late
  <2>1. led = NewLedger
    BY <1>5, <1>7
  <2>2. Off(led)
    BY <2>1 DEF Off, NewLedger, Unset
  <2>. QED  BY <1>3, <1>6, <2>2 DEF ExactInv
<1>8. CASE ~late
  <2>1. led = LedgerAdvance(seen, FALSE, FALSE).led
    BY <1>5, <1>8
  <2>2. Exact(led, {})
    <3>1. At(0).leg = leg /\ At(0).share = share
      BY <1>6
    <3>. QED  BY <1>4, <1>6, <2>1, <3>1, FirstExact
  <2>. HIDE DEF seen
  <2>3. led.cursor = 0 /\ led.share = share /\ led.events = {}
    <3>1. led.cursor \in 0 .. 0 /\ led.share = At(led.cursor).share
      BY <1>6, <2>2 DEF Exact
    <3>2. \A e \in led.events : e.seq \in 1 .. 0
      BY <1>6, <2>2 DEF Exact, Whole, StepTrue
    <3>. QED  BY <1>6, <3>1, <3>2
  <2>4. Mine(led.events) = 0
    <3>1. OwnOf({}) = {}
      BY DEF OwnOf
    <3>2. Counted({})
      BY FS_EmptySet DEF Counted
    <3>. QED  BY <2>3, <3>1, <3>2, DeltaOf DEF Mine
  <2>5. Lost(0, led.cursor) = {}
    BY <2>3 DEF Lost
  <2>6. Shaped(Plugin) /\ Plugin.led = led /\ Plugin.rows = share /\ Plugin.reports = {}
    BY <1>3 DEF Shaped, Plugin
  <2>7. share = share + 0
    BY <1>4
  <2>8. PluginExact(Plugin, pending)
    BY <1>3, <2>2, <2>3, <2>4, <2>5, <2>6, <2>7 DEF PluginExact
  <2>9. Tracked
    BY <1>3, <2>8 DEF Tracked
  <2>. QED  BY <1>3, <1>6, <2>9 DEF ExactInv
<1>. QED  BY <1>7, <1>8

\* What every handler of the plugin leaves of a ledger that is off the baseline.
LEMMA OffKept ==
  ASSUME NEW D, PluginOk(D), Off(D.led), Judge(D)
  PROVE  Off(led')
BY JudgeKeeps, OffStays

LEMMA ExactNext ==
  ASSUME OwnInOrder, MaxMissing <= 1, MaxSeq <= MaxEvents,
         RecordInv, ExactInv, [LegNext]_legVars
  PROVE  ExactInv'
<1>1. /\ HistoryInv /\ expiries \in Nat /\ LastSeq \in Nat
      /\ expiries > 0 \/ Off(led) \/ Tracked
  BY HistoryOf DEF ExactInv
<1>2. /\ PluginOk(Plugin) /\ Plugin.led = led /\ Plugin.known = known
      /\ pending \subseteq Concluded /\ Distinct(pending)
      /\ \A f \in led.events, e \in pending : f.seq # e.seq
      /\ LedgerOk(led)
  BY DEF RecordInv, PluginOk, Shaped, Plugin
<1>3. ASSUME Execute \/ OtherTransaction PROVE ExactInv'
  <2>1. PICK row, t : Appended(row, t) /\ Missed(row, t, pending')
    BY <1>1, <1>3, ExecuteAppends, OtherAppends
  <2>2. UNCHANGED <<plugin, hold>> /\ expiries' = expiries
    BY <1>3 DEF Execute, OtherTransaction
  <2>3. HistoryInv' /\ led' = led
    BY <1>1, <2>1, <2>2, HistoryGrows DEF plugin
  <2>4. Tracked => Tracked'
    BY <1>1, <2>1, <2>2, VenueMoves
  <2>. QED  BY <1>1, <2>2, <2>3, <2>4 DEF ExactInv, Off
<1>4. ASSUME UNCHANGED venue PROVE HistoryInv'
  BY <1>1, <1>4 DEF HistoryInv, venue, LastSeq, At
<1>5. ASSUME NEW D, Judge(D) PROVE expiries' \in Nat /\ (expiries > 0 => expiries' > 0)
  BY <1>1, <1>5 DEF Judge
<1>6. ASSUME Executions PROVE ExactInv'
  <2>1. PICK batch \in SUBSET pending :
          /\ OwnInOrder => ~\E e \in pending \ batch :
                               e.own /\ \E f \in batch : f.own /\ f.seq > e.seq
          /\ hold \/ Cardinality(Overtaken(pending \ batch, SeqsOf(batch))) <= MaxMissing
          /\ pending' = pending \ batch
          /\ Judge(NoteAll(Plugin, InOrder(batch)))
          /\ UNCHANGED <<venue, hold>>
    BY <1>6 DEF Executions
  <2>. DEFINE N == NoteAll(Plugin, InOrder(batch))
              left == pending \ batch
  <2>2. HistoryInv' /\ expiries' \in Nat /\ (expiries > 0 => expiries' > 0)
    BY <1>4, <1>5, <2>1
  <2>3. ASSUME Off(led) PROVE Off(led')
    <3>1. batch \subseteq Concluded /\ Distinct(batch)
          /\ \A f \in Plugin.led.events, e \in batch : f.seq # e.seq
      BY <1>2, FS_Subset DEF Distinct
    <3>2. PluginOk(N) /\ From(Plugin.led, N.led)
      BY <1>2, <3>1, BatchNoted
    <3>. HIDE DEF N
    <3>3. Off(N.led)
      BY <1>2, <2>3, <3>2, OffStays
    <3>. QED  BY <2>1, <3>2, <3>3, OffKept DEF N
  <2>4. ASSUME Tracked PROVE expiries' > 0 \/ Tracked'
    <3>1. /\ PluginExact(Plugin, pending) /\ known \subseteq 1 .. LastSeq
          /\ \A p \in pending : p.seq \notin known
          /\ hold \/ Overtook(pending, known)
      BY <2>4 DEF Tracked
    <3>2. PluginExact(N, left) /\ N.known = known \union SeqsOf(batch)
      BY <1>1, <1>2, <2>1, <3>1, BatchExact
    <3>3. \A p \in pending : p.seq \in 1 .. LastSeq
      <4>1. Exact(led, pending)
        BY <1>2, <3>1 DEF PluginExact
      <4>. QED  BY <4>1 DEF Exact, Whole, StepTrue
    <3>4. \A p, q \in pending : p.seq = q.seq => p = q
      BY <1>2 DEF Distinct
    <3>5. N.known \subseteq 1 .. LastSeq /\ \A p \in left : p.seq \notin N.known
      BY <3>1, <3>2, <3>3, <3>4 DEF SeqsOf
    <3>6. hold \/ Overtook(left, N.known)
      <4>1. IsFiniteSet(pending) /\ known \subseteq Int /\ \A p \in pending : p.seq \in Int
        BY <1>1, <1>2, <3>1, <3>3 DEF Distinct
      <4>2. CASE ~hold
        <5>1. /\ Overtook(pending, known)
              /\ Cardinality(Overtaken(pending \ batch, SeqsOf(batch))) <= MaxMissing
          BY <2>1, <3>1, <4>2
        <5>2. Overtook(pending \ batch, known \union SeqsOf(batch))
          BY <3>4, <4>1, <5>1, BatchOvertakes
        <5>. QED  BY <3>2, <5>2
      <4>. QED  BY <4>2
    <3>. HIDE DEF N
    <3>7. Judge(N) /\ UNCHANGED <<venue, hold>> /\ pending' = left
      BY <2>1 DEF N
    <3>. QED  BY <1>1, <3>2, <3>5, <3>6, <3>7, JudgeTracked
  <2>. QED  BY <1>1, <2>2, <2>3, <2>4 DEF ExactInv
<1>7. ASSUME PositionView PROVE ExactInv'
  <2>1. PICK seq \in IF OnBaseline THEN 0 .. LastSeq ELSE 1 .. LastSeq :
          Judge([Plugin EXCEPT !.led = AddView(@, ShownAt(seq))])
    BY <1>7 DEF PositionView, ShownAt
  <2>2. UNCHANGED <<venue, hold>> /\ pending' = pending
    BY <1>7 DEF PositionView
  <2>. DEFINE v == ShownAt(seq)
              M == AddView(led, v)
              D == [Plugin EXCEPT !.led = AddView(@, ShownAt(seq))]
  <2>3. HistoryInv' /\ expiries' \in Nat /\ (expiries > 0 => expiries' > 0)
    BY <1>4, <1>5, <2>1, <2>2
  <2>4. seq \in 0 .. LastSeq
    BY <1>1, <2>1
  <2>5. v \in [seq : Int, size : Nat, upd : Int] /\ v.seq = seq
    BY <1>1, <2>4, HistoryOf DEF ShownAt
  <2>6. ASSUME Off(led) PROVE Off(led')
    <3>1. seq # 0
      BY <1>1, <2>1, <2>6 DEF Off, OnBaseline
    <3>. HIDE DEF v
    <3>2. LedgerOk(M) /\ M.anchor = led.anchor
      BY <1>2, <2>5, ViewAdded
    <3>3. \A w \in M.views : w \in led.views \/ w.seq = v.seq
      <4>1. led \in Ledger
        BY <1>2 DEF LedgerOk
      <4>. QED  BY <4>1 DEF AddView, NewestViews, Ledger
    <3>4. D = [led |-> M, rows |-> rows, known |-> known, reports |-> reports]
      BY DEF Plugin, v
    <3>. HIDE DEF M, D
    <3>5. PluginOk(D) /\ D.led = M
      BY <1>2, <3>2, <3>4 DEF PluginOk, Shaped, Plugin
    <3>6. Off(D.led)
      BY <2>5, <2>6, <3>1, <3>2, <3>3, <3>5 DEF Off
    <3>. QED  BY <2>1, <3>5, <3>6, OffKept DEF D
  <2>7. ASSUME Tracked PROVE expiries' > 0 \/ Tracked'
    <3>1. /\ PluginExact(Plugin, pending) /\ known \subseteq 1 .. LastSeq
          /\ \A p \in pending : p.seq \notin known
          /\ hold \/ Overtook(pending, known)
      BY <2>7 DEF Tracked
    <3>2. PluginExact(D, pending) /\ D.known = known
      BY <1>1, <1>2, <2>4, <3>1, ViewExact
    <3>. HIDE DEF D
    <3>3. Judge(D)
      BY <2>1 DEF D
    <3>. QED  BY <1>1, <2>2, <3>1, <3>2, <3>3, JudgeTracked
  <2>. QED  BY <1>1, <2>3, <2>6, <2>7 DEF ExactInv
<1>8. ASSUME Reconcile PROVE ExactInv'
  <2>1. Judge(Plugin) /\ UNCHANGED <<venue, hold>> /\ pending' = pending
    BY <1>8 DEF Reconcile
  <2>2. HistoryInv' /\ expiries' \in Nat /\ (expiries > 0 => expiries' > 0)
    BY <1>4, <1>5, <2>1
  <2>3. Off(led) => Off(led')
    BY <1>2, <2>1, OffKept
  <2>4. ASSUME Tracked PROVE expiries' > 0 \/ Tracked'
    BY <1>1, <1>2, <2>1, <2>4, JudgeTracked DEF Tracked
  <2>. QED  BY <1>1, <2>2, <2>3, <2>4 DEF ExactInv
<1>9. ASSUME UNCHANGED <<venue, pending, plugin, expiries>>,
             hold' \/ Overtook(pending, known) \/ hold' = hold
      PROVE  ExactInv'
  <2>1. HistoryInv' /\ history' = history /\ taken' = taken /\ LastSeq' = LastSeq
    BY <1>4, <1>9 DEF venue, LastSeq
  <2>2. /\ led' = led /\ rows' = rows /\ known' = known /\ reports' = reports
        /\ pending' = pending
    BY <1>9 DEF plugin
  <2>3. ASSUME Tracked PROVE Tracked'
    <3>1. PluginExact(Plugin, pending)'
      <4>1. /\ Exact(led, pending) /\ rows = led.share + Mine(led.events)
            /\ reports = Lost(0, led.cursor)
        BY <2>3 DEF Tracked, PluginExact, Plugin
      <4>2. Exact(led, pending)'
        BY <2>1, <2>2, <4>1 DEF Exact, Whole, StepTrue, At, Sure
      <4>3. Lost(0, led.cursor)' = Lost(0, led.cursor)
        BY <2>1, <2>2 DEF Lost
      <4>4. Shaped(Plugin)' /\ Plugin'.led = led' /\ Plugin'.rows = rows'
            /\ Plugin'.reports = reports'
        BY DEF Shaped, Plugin
      <4>. QED  BY <2>2, <4>1, <4>2, <4>3, <4>4 DEF PluginExact, Mine
    <3>. QED  BY <1>9, <2>1, <2>2, <2>3, <3>1 DEF Tracked, Overtook, Overtaken
  <2>. QED  BY <1>1, <1>9, <2>1, <2>2, <2>3 DEF ExactInv, Off
<1>10. ASSUME Outage \/ UNCHANGED legVars PROVE ExactInv'
  BY <1>9, <1>10 DEF Outage, legVars, venue, plugin
<1>11. ASSUME LiftHold PROVE ExactInv'
  <2>1. UNCHANGED <<venue, pending, plugin, expiries>>
        /\ Cardinality(Overtaken(pending, known)) <= MaxMissing
    BY <1>11 DEF LiftHold
  <2>2. CASE Tracked
    <3>1. IsFiniteSet(Overtaken(pending, known))
      <4>1. Overtaken(pending, known) \subseteq pending
        BY DEF Overtaken
      <4>. QED  BY <1>2, <4>1, FS_Subset DEF Distinct
    <3>2. \A p, q \in Overtaken(pending, known) : p = q
      BY <2>1, <3>1, FewAlike
    <3>3. Overtook(pending, known)
      BY <2>2, <3>2 DEF Tracked, Overtook
    <3>. QED  BY <1>9, <2>1, <3>3
  <2>3. CASE ~Tracked
    <3>1. HistoryInv' /\ led' = led /\ expiries' = expiries
      BY <1>4, <2>1 DEF plugin
    <3>. QED  BY <1>1, <2>3, <3>1 DEF ExactInv, Off
  <2>. QED  BY <2>2, <2>3
<1>. QED  BY <1>3, <1>6, <1>7, <1>8, <1>10, <1>11 DEF LegNext

\* Until a give-up, a ledger anchored with the baseline holds the run's true share at its
\* cursor, the rows hold it and the own executions beyond, and what took share was reported
\* with just what it took: for every history of the leg, when the own executions arrive in
\* their order, at most one execution is missing while nothing is held, and no execution is
\* dropped for want of room.
THEOREM ExactUntilGivenUp ==
  ASSUME OwnInOrder, MaxMissing <= 1, MaxSeq <= MaxEvents
  PROVE  LegSpec => []ExactAtCursor
<1>1. ExactInv => ExactAtCursor
  <2>. SUFFICES ASSUME ExactInv, Started(led), OnBaseline, expiries = 0
                PROVE  /\ led.share = At(led.cursor).share
                       /\ rows = led.share + ShareIn({e \in led.events : e.own})
                       /\ reports = {[seq |-> s, qty |-> taken[s + 1]] :
                                        s \in {n \in 1 .. led.cursor : taken[n + 1] > 0}}
    BY DEF ExactAtCursor
  <2>1. HistoryInv /\ Tracked
    BY DEF ExactInv, Off, OnBaseline
  <2>2. /\ Exact(led, pending) /\ rows = led.share + Mine(led.events)
        /\ reports = Lost(0, led.cursor)
    BY <2>1 DEF Tracked, PluginExact, Plugin
  <2>3. ShareIn({e \in led.events : e.own}) = Mine(led.events)
    <3>1. ShareIn(OwnOf(led.events)) = DeltaIn(OwnOf(led.events))
      BY <2>1, <2>2, OwnHeld
    <3>. QED  BY <3>1 DEF Mine, OwnOf
  <2>4. led.share = At(led.cursor).share
    BY <2>2 DEF Exact
  <2>. QED  BY <2>2, <2>3, <2>4 DEF Lost
<1>2. LegInit => RecordInv /\ ExactInv
  BY RecordInit, ExactStarts
<1>3. RecordInv /\ ExactInv /\ [LegNext]_legVars => (RecordInv /\ ExactInv)'
  BY RecordNext, ExactNext
<1>. QED  BY <1>1, <1>2, <1>3, PTL DEF LegSpec
=============================================================================
