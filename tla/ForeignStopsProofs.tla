-------------------------- MODULE ForeignStopsProofs --------------------------
(***************************************************************************)
(* The verdicts on another party's protection order: for every length of   *)
(* the log, every size of leg and order, and any number of amends,         *)
(* restarts, outages and intervals given up.                               *)
(***************************************************************************)
EXTENDS ForeignStops, WellFoundedInduction, TLAPS

(***************************************************************************)
(* The inductive invariants                                                *)
(***************************************************************************)
Moment == [leg : Nat, share : Nat, own : Int]
Ages == {"fresh", "graced", "old"}
VerdictNames == {"unproven", "preexisting", "foreign_only", "reported"}
Waiting == [ver : Nat \ {0}, age : Ages, viewed : BOOLEAN, reread : BOOLEAN, seen : Nat]
Process == [known : Nat, view : Nat, cursor : Nat, over : Nat, doubt : Nat,
            hold : BOOLEAN, start : Nat, pend : {NotPending} \cup Waiting, since : Nat]
Version == [qty : Nat, trigger : Nat, at : Nat, status : {"rests", "fired", "gone"}]
Entry == [ver : Nat \ {0}, verdict : VerdictNames, start : Nat, doubt : Nat]

\* Between two states of the log without an execution nothing has changed.
HistInv ==
    /\ hist \in Seq(Moment) /\ Now > 0
    /\ \A i \in 1 .. Now : hist[i].share <= hist[i].leg
    /\ \A i, j \in 1 .. Now : i <= j /\ NoExec(i, j) => hist[i] = hist[j]

\* What the process knows lies in the log, and nothing happened between what it
\* knows and where its ledger stands beyond that.
BotInv(B) ==
    /\ B \in Process
    /\ B.known \in 1 .. Now /\ B.view \in 1 .. Now /\ B.cursor \in 1 .. B.view
    /\ B.over <= B.doubt
    /\ B.start <= Now /\ B.since <= Now + 1 /\ (B.start = None \/ B.since = None)
    /\ NoExec(B.known, B.cursor)

VersInv ==
    /\ vers \in Seq(Version) /\ \A v \in 1 .. Len(vers) : vers[v].at \in 1 .. Now
    /\ pushed \in 0 .. Len(vers)
    /\ read \in [from : Nat, on : BOOLEAN] /\ read.from <= Len(vers)
    /\ audit \in Seq(Entry)

\* No version the process has seen is newer than what the next push or read shows.
Shown(ver) ==
    /\ ver <= Len(vers) /\ ver <= pushed + 1
    /\ read.on => ver <= pushed \/ ver <= read.from

\* The version is newer than all that were judged, and none was reported.
Fresh(ver) ==
    \A n \in 1 .. Len(audit) : audit[n].ver < ver /\ audit[n].verdict # "reported"

SeenInv ==
    /\ \A n \in 1 .. Len(audit) : Shown(audit[n].ver)
    /\ bot.pend.ver # None =>
          Shown(bot.pend.ver) /\ Fresh(bot.pend.ver)

OrderInv == HistInv /\ BotInv(bot) /\ VersInv /\ SeenInv /\ JudgedOnce

\* The order is amended only when it was judged, so one version waits at most,
\* and it is the newest.
AmendInv ==
    /\ \A v \in 1 .. Len(vers) - 1 : vers[v].status = "rests"
    /\ \A v \in 2 .. Len(vers) :
          vers[v].status = "rests" => \E n \in 1 .. Len(audit) : audit[n].ver >= v - 1

\* An order waits since it was seen; when the grace is over, unless the stream is out,
\* all that had happened by then is known.
WaitInv(B) ==
    B.pend.ver # None =>
        /\ vers[B.pend.ver].status = "rests"
        /\ vers[B.pend.ver].at <= B.pend.seen /\ B.pend.seen <= Now
        /\ B.pend.age # "fresh" /\ ~B.hold => NoExec(B.known, B.pend.seen)

\* What the three properties say of one entry of the record.
Sound(e) ==
    /\ e.verdict = "reported" => \E i \in vers[e.ver].at .. Now :
          (hist[i].share > 0 \/ e.doubt > 0) /\ vers[e.ver].qty > ForeignAt(i)
    /\ e.verdict = "foreign_only" => \E i \in vers[e.ver].at .. Now :
          vers[e.ver].qty <= ForeignAt(i)
    /\ e.verdict = "preexisting" => vers[e.ver].at < e.start

StopsInv ==
    /\ OrderInv /\ AmendInv /\ WaitInv(bot)
    /\ \A n \in 1 .. Len(audit) : Sound(audit[n])

-----------------------------------------------------------------------------
(***************************************************************************)
(* The log                                                                 *)
(***************************************************************************)
LEMMA NoExecIs ==
  ASSUME NEW a, NEW b
  PROVE  NoExec(a, b) <=> \A i \in a + 1 .. b : ~IsExec(i)
BY DEF NoExec, Execs

\* No execution in an interval, none in a part of it; none in two that meet, none in both.
LEMMA NoExecParts ==
  ASSUME NEW a \in Int, NEW b \in Int, NEW c \in Int
  PROVE  /\ NoExec(a, c) /\ a <= b => NoExec(b, c)
         /\ NoExec(a, c) /\ b <= c => NoExec(a, b)
         /\ NoExec(a, b) /\ NoExec(b, c) => NoExec(a, c)
         /\ c <= a => NoExec(a, c)
BY NoExecIs

\* What happens is appended, and changes nothing of what has happened.
LEMMA HistGrows ==
  ASSUME HistInv, NEW leg \in Nat, NEW share \in Nat, NEW own \in Int, share <= leg,
         Happens(leg, share, own),
         leg = hist[Now].leg => share = hist[Now].share /\ own = 0
  PROVE  /\ HistInv' /\ Now' = Now + 1
         /\ \A i \in 1 .. Now : hist'[i] = hist[i]
<1>. DEFINE m == [leg |-> leg, share |-> share, own |-> hist[Now].own + own]
<1>1. Now \in 1 .. Now /\ Now \in Nat /\ hist[Now] \in Moment
  BY DEF HistInv, Now
<1>2. m \in Moment /\ m.leg = leg /\ m.share = share /\ share <= leg
  BY <1>1 DEF Moment
<1>3. leg = hist[Now].leg => m = hist[Now]
  BY <1>1 DEF Moment
<1>4. hist' = Append(hist, m)
  BY DEF Happens
<1>. HIDE DEF m
<1>5. /\ Now' = Now + 1
      /\ \A i \in 1 .. Now : hist'[i] = hist[i]
      /\ hist'[Now + 1] = m
  BY <1>1, <1>2, <1>4 DEF HistInv, Now
<1>6. hist' \in Seq(Moment)
  BY <1>1, <1>2, <1>4 DEF HistInv, Now
<1>7. \A k \in 2 .. Now : hist'[k] = hist[k] /\ hist'[k - 1] = hist[k - 1]
  BY <1>1, <1>5
<1>8. \A i \in 1 .. Now' : hist'[i].share <= hist'[i].leg
  BY <1>1, <1>2, <1>5 DEF HistInv
<1>9. ASSUME NEW i \in 1 .. Now', NEW j \in 1 .. Now', i <= j, NoExec(i, j)'
      PROVE  hist'[i] = hist'[j]
  <2>1. \A k \in i + 1 .. j : hist'[k].leg = hist'[k - 1].leg
    BY <1>9 DEF NoExec, Execs, IsExec
  <2>2. i \in Nat /\ j \in Nat /\ 1 <= i /\ j <= Now + 1
    BY <1>1, <1>5
  <2>3. CASE j <= Now
    <3>1. \A k \in i + 1 .. j : hist[k].leg = hist[k - 1].leg
      BY <1>1, <1>7, <2>1, <2>2, <2>3
    <3>2. NoExec(i, j)
      BY <3>1, NoExecIs DEF IsExec
    <3>. QED  BY <1>1, <1>5, <1>9, <2>2, <2>3, <3>2 DEF HistInv
  <2>4. CASE j = Now + 1 /\ i <= Now
    <3>1. \A k \in i + 1 .. Now : hist[k].leg = hist[k - 1].leg
      BY <1>1, <1>7, <2>1, <2>2, <2>4
    <3>2. NoExec(i, Now)
      BY <3>1, NoExecIs DEF IsExec
    <3>3. hist[i] = hist[Now]
      BY <1>1, <2>2, <2>4, <3>2 DEF HistInv
    <3>4. hist'[j].leg = hist'[j - 1].leg /\ j - 1 = Now
      BY <1>1, <2>1, <2>2, <2>4
    <3>5. m.leg = hist[Now].leg
      BY <1>1, <1>5, <2>4, <3>4
    <3>6. m = hist[Now]
      BY <1>2, <1>3, <3>5
    <3>. QED  BY <1>1, <1>5, <2>2, <2>4, <3>3, <3>6
  <2>. QED  BY <1>1, <1>9, <2>2, <2>3, <2>4
<1>. QED  BY <1>1, <1>5, <1>8, <1>9, <1>6 DEF HistInv

\* Where the log only grows, what the process knows of it stays true.
LEMMA BotKept ==
  ASSUME HistInv, BotInv(bot), UNCHANGED bot, Now' >= Now, Now' \in Nat,
         \A i \in 1 .. Now : hist'[i] = hist[i]
  PROVE  BotInv(bot)' /\ \A a, b \in 1 .. Now : NoExec(a, b) => NoExec(a, b)'
<1>1. ASSUME NEW a \in 1 .. Now, NEW b \in 1 .. Now, NoExec(a, b)
      PROVE  NoExec(a, b)'
  <2>1. \A i \in a + 1 .. b : hist[i].leg = hist[i - 1].leg
    BY <1>1, NoExecIs DEF IsExec
  <2>2. Now \in Nat
    BY DEF HistInv, Now
  <2>3. \A i \in a + 1 .. b : hist'[i].leg = hist'[i - 1].leg
    BY <2>1, <2>2
  <2>. QED  BY <2>3 DEF NoExec, Execs, IsExec
<1>2. PICK k, c : k = bot.known /\ c = bot.cursor
  OBVIOUS
<1>3. k \in 1 .. Now /\ c \in 1 .. Now
  BY <1>2 DEF BotInv, HistInv, Now
<1>4. NoExec(k, c)
  BY <1>2 DEF BotInv
<1>5. NoExec(k, c)'
  BY <1>1, <1>3, <1>4
<1>6. NoExec(bot.known, bot.cursor)'
  BY <1>2, <1>5 DEF NoExec, Execs, IsExec
<1>7. /\ bot' \in Process /\ Now \in Nat
      /\ bot.known \in 1 .. Now' /\ bot.view \in 1 .. Now'
      /\ bot.start <= Now' /\ bot.since <= Now' + 1
  BY DEF BotInv, HistInv, Now, Process
<1>. QED  BY <1>1, <1>6, <1>7 DEF BotInv

-----------------------------------------------------------------------------
(***************************************************************************)
(* Every version is judged once                                            *)
(***************************************************************************)
LEMMA OrderStart ==
  ASSUME Init
  PROVE  OrderInv
<1>1. PICK leg \in Nat, share \in Nat :
        /\ share <= leg
        /\ hist = <<[leg |-> leg, share |-> share, own |-> 0]>>
        /\ bot = [Adopted(1, share) EXCEPT !.hold = FALSE]
  <2>1. MaxLeg \in Nat
    BY StopsAssumption
  <2>2. PICK leg \in 0 .. MaxLeg : \E share \in 0 .. leg :
        /\ hist = <<[leg |-> leg, share |-> share, own |-> 0]>>
        /\ bot = [Adopted(1, share) EXCEPT !.hold = FALSE]
    BY DEF Init
  <2>3. PICK share \in 0 .. leg :
        /\ hist = <<[leg |-> leg, share |-> share, own |-> 0]>>
        /\ bot = [Adopted(1, share) EXCEPT !.hold = FALSE]
    BY <2>2
  <2>4. leg \in Nat /\ share \in Nat /\ share <= leg
    BY <2>1
  <2>. QED  BY <2>3, <2>4
<1>2. [leg |-> leg, share |-> share, own |-> 0] \in Moment
  BY DEF Moment
<1>3. Now = 1 /\ hist[1] = [leg |-> leg, share |-> share, own |-> 0] /\ hist \in Seq(Moment)
  BY <1>1, <1>2 DEF Now
<1>4. HistInv
  BY <1>1, <1>3 DEF HistInv
<1>5. BotInv(bot)
  <2>1. bot = [known |-> 1, view |-> 1, cursor |-> 1, over |-> 0, doubt |-> 0,
               hold |-> FALSE, start |-> None, pend |-> NotPending,
               since |-> IF share > 0 THEN 1 + 1 ELSE None]
    BY <1>1 DEF Adopted
  <2>2. bot \in Process
    BY <2>1 DEF Process, None
  <2>3. NoExec(bot.known, bot.cursor)
    BY <2>1, NoExecIs
  <2>. QED  BY <1>3, <2>1, <2>2, <2>3 DEF BotInv, None
<1>6. VersInv
  BY DEF Init, VersInv, NoRead, None
<1>. QED  BY <1>1, <1>4, <1>5, <1>6 DEF OrderInv, SeenInv, JudgedOnce, Init, Adopted, NotPending, None

\* Another version is appended to the order.
LEMMA VersGrow ==
  ASSUME VersInv, NEW version \in Version, vers' = Append(vers, version)
  PROVE  /\ vers' \in Seq(Version) /\ Len(vers') = Len(vers) + 1 /\ Len(vers) \in Nat
         /\ \A v \in 1 .. Len(vers) : vers'[v] = vers[v]
         /\ vers'[Len(vers) + 1] = version
BY DEF VersInv

\* The venue touches neither the process nor the record.
LEMMA OrderVenue ==
  ASSUME OrderInv, UNCHANGED <<bot, pushed, read, audit>>, HistInv', Now' >= Now,
         \A i \in 1 .. Now : hist'[i] = hist[i],
         vers' \in Seq(Version), Len(vers') >= Len(vers),
         \A v \in 1 .. Len(vers') : vers'[v].at \in 1 .. Now'
  PROVE  OrderInv'
<1>1. Now' \in Nat /\ Len(vers) \in Nat /\ Len(vers') \in Nat
  BY DEF HistInv, Now, OrderInv, VersInv
<1>2. BotInv(bot)'
  BY <1>1, BotKept DEF OrderInv
<1>3. VersInv'
  BY <1>1 DEF OrderInv, VersInv
<1>4. \A v \in Nat : Shown(v) => Shown(v)'
  BY <1>1 DEF Shown
<1>5. \A n \in 1 .. Len(audit) : audit[n].ver \in Nat
  <2>1. \A n \in 1 .. Len(audit) : audit[n] \in Entry
    BY DEF OrderInv, VersInv
  <2>. QED  BY <2>1 DEF Entry
<1>6. bot.pend.ver \in Nat
  BY DEF OrderInv, BotInv, Process, Waiting, NotPending, None
<1>7. SeenInv'
  BY <1>1, <1>4, <1>5, <1>6 DEF OrderInv, SeenInv, Shown, Fresh
<1>8. JudgedOnce'
  BY DEF OrderInv, JudgedOnce
<1>. QED  BY <1>2, <1>3, <1>7, <1>8 DEF OrderInv

LEMMA OrderExecute ==
  ASSUME OrderInv, Execute
  PROVE  OrderInv' /\ UNCHANGED <<vers, pushed, read, bot, audit>>
<1>1. hist[Now] \in Moment /\ Now \in Nat /\ hist[Now].share <= hist[Now].leg
  BY DEF OrderInv, HistInv, Now
<1>2. hist[Now].leg \in Nat /\ hist[Now].share \in Nat
  BY <1>1 DEF Moment
<1>3. PICK leg \in Nat, share \in Nat, own \in Int :
        Happens(leg, share, own) /\ share <= leg /\ leg # hist[Now].leg
  BY <1>1, <1>2 DEF Execute, Least
<1>4. /\ HistInv' /\ Now' = Now + 1
      /\ \A i \in 1 .. Now : hist'[i] = hist[i]
  BY <1>3, HistGrows DEF OrderInv
<1>5. UNCHANGED <<vers, pushed, read, bot, audit>>
  BY DEF Execute
<1>6. /\ vers' \in Seq(Version) /\ Len(vers') >= Len(vers)
      /\ \A v \in 1 .. Len(vers') : vers'[v].at \in 1 .. Now'
  BY <1>1, <1>4, <1>5 DEF OrderInv, VersInv
<1>. QED  BY <1>1, <1>4, <1>5, <1>6, OrderVenue

LEMMA OrderVersion ==
  ASSUME OrderInv, NEW version \in Version, version.at = Now + 1, NewVersion(version)
  PROVE  OrderInv'
<1>1. hist[Now] \in Moment /\ Now \in Nat /\ hist[Now].share <= hist[Now].leg
  BY DEF OrderInv, HistInv, Now
<1>2. hist[Now].leg \in Nat /\ hist[Now].share \in Nat
  BY <1>1 DEF Moment
<1>3. /\ HistInv' /\ Now' = Now + 1
      /\ \A i \in 1 .. Now : hist'[i] = hist[i]
  BY <1>1, <1>2, HistGrows DEF OrderInv, NewVersion
<1>4. UNCHANGED <<pushed, read, bot, audit>> /\ vers' = Append(vers, version)
  BY DEF NewVersion
<1>5. /\ vers' \in Seq(Version) /\ Len(vers') = Len(vers) + 1 /\ Len(vers) \in Nat
      /\ \A v \in 1 .. Len(vers) : vers'[v] = vers[v]
      /\ vers'[Len(vers) + 1] = version
  BY <1>4, VersGrow DEF OrderInv
<1>6. /\ vers' \in Seq(Version) /\ Len(vers') >= Len(vers)
      /\ \A v \in 1 .. Len(vers') : vers'[v].at \in 1 .. Now'
  BY <1>1, <1>3, <1>5 DEF OrderInv, VersInv
<1>. QED  BY <1>1, <1>3, <1>4, <1>6, OrderVenue

LEMMA OrderAmend ==
  ASSUME OrderInv, Place \/ Amend
  PROVE  OrderInv'
<1>1. PICK qty \in 1 .. MaxLeg, trigger \in 0 .. 1 :
        NewVersion([qty |-> qty, trigger |-> trigger, at |-> Now + 1, status |-> "rests"])
  <2>1. CASE Place
    BY <2>1 DEF Place
  <2>2. CASE Amend
    BY <2>2 DEF Amend
  <2>. QED  BY <2>1, <2>2
<1>2. [qty |-> qty, trigger |-> trigger, at |-> Now + 1, status |-> "rests"] \in Version
  <2>1. MaxLeg \in Nat
    BY StopsAssumption
  <2>2. qty \in Nat /\ trigger \in Nat /\ Now + 1 \in Nat
    BY <2>1 DEF OrderInv, HistInv, Now
  <2>. QED  BY <2>2 DEF Version
<1>. QED  BY <1>1, <1>2, OrderVersion

LEMMA OrderEnd ==
  ASSUME OrderInv, End
  PROVE  OrderInv'
<1>1. Len(vers) \in Nat /\ vers # <<>> /\ Newest \in Version /\ Newest.at \in 1 .. Now /\ Now \in Nat
  BY DEF End, Rests, Newest, OrderInv, VersInv, HistInv, Now
<1>2. PICK status \in {"fired", "gone"} : vers' = Append(vers, [Newest EXCEPT !.status = status])
  BY DEF End
<1>3. /\ [Newest EXCEPT !.status = status] \in Version
      /\ [Newest EXCEPT !.status = status].at = Newest.at
  BY <1>1 DEF Version
<1>4. /\ vers' \in Seq(Version) /\ Len(vers') = Len(vers) + 1 /\ Len(vers) \in Nat
      /\ \A v \in 1 .. Len(vers) : vers'[v] = vers[v]
      /\ vers'[Len(vers) + 1].at = Newest.at
  BY <1>2, <1>3, VersGrow DEF OrderInv
<1>5. UNCHANGED <<hist, bot, pushed, read, audit>> /\ Now' = Now /\ HistInv'
  BY DEF End, Now, OrderInv, HistInv, NoExec, Execs, IsExec
<1>6. /\ Len(vers') >= Len(vers)
      /\ \A v \in 1 .. Len(vers') : vers'[v].at \in 1 .. Now'
  BY <1>1, <1>4, <1>5 DEF OrderInv, VersInv
<1>. QED  BY <1>1, <1>4, <1>5, <1>6, OrderVenue

-----------------------------------------------------------------------------
(***************************************************************************)
(* The steps of the process                                                *)
(***************************************************************************)
\* What the ledger says is a number.
LEMMA LedgerTypes ==
  ASSUME HistInv, NEW B, BotInv(B)
  PROVE  /\ LedgerLeg(B) \in Nat /\ LedgerShare(B) \in Nat /\ LedgerShare(B) <= LedgerLeg(B)
         /\ Doubt(B) \in Nat /\ Held(B) \in Nat /\ B.pend.ver \in Nat /\ B.start \in Nat
         /\ hist[B.cursor] \in Moment /\ hist[B.known] \in Moment
         /\ hist[B.cursor].share <= hist[B.cursor].leg
<1>1. B.cursor \in 1 .. Now /\ B.known \in 1 .. Now /\ B.over \in Nat /\ B.doubt \in Nat
  BY DEF BotInv, HistInv, Now, Process
<1>2. /\ hist[B.cursor] \in Moment /\ hist[B.known] \in Moment
      /\ hist[B.cursor].share <= hist[B.cursor].leg
  BY <1>1 DEF HistInv, Now
<1>3. /\ hist[B.cursor].leg \in Nat /\ hist[B.cursor].share \in Nat
      /\ hist[B.cursor].own \in Int /\ hist[B.known].own \in Int
  BY <1>2 DEF Moment
<1>4. B.pend.ver \in Nat /\ B.start \in Nat
  BY DEF BotInv, Process, Waiting, NotPending, None
<1>. QED  BY <1>1, <1>2, <1>3, <1>4 DEF LedgerLeg, LedgerShare, Doubt, Least, Held, Pos

LEMMA PendAlone ==
  ASSUME NEW B, BotInv(B), NEW p \in {NotPending} \cup Waiting
  PROVE  BotInv([B EXCEPT !.pend = p])
BY DEF BotInv, Process

\* What a step of the process leaves behind.
LEMMA OrderStep ==
  ASSUME OrderInv, UNCHANGED <<hist, vers>>,
         pushed' \in 0 .. Len(vers), read' \in [from : Nat, on : BOOLEAN],
         read'.from <= Len(vers), \A v \in Nat : Shown(v) => Shown(v)',
         BotInv(bot'),
         bot'.pend.ver # None => \E v \in Nat : v = bot'.pend.ver /\ Shown(v)' /\ Fresh(v),
         \/ audit' = audit
         \/ /\ bot'.pend.ver = None
            /\ \E e \in Entry : audit' = Append(audit, e) /\ Shown(e.ver)' /\ Fresh(e.ver)
  PROVE  OrderInv'
<1>1. HistInv'
  BY DEF OrderInv, HistInv, Now, NoExec, Execs, IsExec
<1>2. BotInv(bot)'
  BY DEF BotInv, Now, NoExec, Execs, IsExec
<1>3. audit \in Seq(Entry) /\ Len(audit) \in Nat
  BY DEF OrderInv, VersInv
<1>4. \A n \in 1 .. Len(audit) : audit[n].ver \in Nat
  <2>1. \A n \in 1 .. Len(audit) : audit[n] \in Entry
    BY <1>3
  <2>. QED  BY <2>1 DEF Entry
<1>5. CASE audit' = audit
  <2>1. VersInv'
    BY <1>5 DEF OrderInv, VersInv, Now
  <2>2. \A n \in 1 .. Len(audit') : \E v \in Nat : v = audit'[n].ver /\ Shown(v)'
    BY <1>4, <1>5 DEF OrderInv, SeenInv
  <2>3. bot'.pend.ver # None => Shown(bot.pend.ver)' /\ Fresh(bot.pend.ver)'
    BY <1>5 DEF Shown, Fresh
  <2>4. SeenInv'
    BY <2>2, <2>3 DEF SeenInv, Shown
  <2>. QED  BY <1>1, <1>2, <1>5, <2>1, <2>4 DEF OrderInv, JudgedOnce
<1>6. CASE bot'.pend.ver = None /\
           \E e \in Entry : audit' = Append(audit, e) /\ Shown(e.ver)' /\ Fresh(e.ver)
  <2>1. PICK e \in Entry : audit' = Append(audit, e) /\ Shown(e.ver)' /\ Fresh(e.ver)
    BY <1>6
  <2>2. /\ Len(audit') = Len(audit) + 1 /\ audit'[Len(audit) + 1] = e
        /\ \A n \in 1 .. Len(audit) : audit'[n] = audit[n]
    BY <1>3, <2>1
  <2>3. audit' \in Seq(Entry)
    BY <1>3, <2>1
  <2>4. VersInv'
    BY <2>3 DEF OrderInv, VersInv, Now
  <2>5. ASSUME NEW n \in 1 .. Len(audit')
        PROVE  \E v \in Nat : v = audit'[n].ver /\ Shown(v)'
    <3>1. CASE n \in 1 .. Len(audit)
      BY <1>4, <2>2, <3>1 DEF OrderInv, SeenInv
    <3>2. CASE n = Len(audit) + 1
      BY <2>1, <2>2, <3>2 DEF Entry
    <3>. QED  BY <1>3, <2>2, <3>1, <3>2
  <2>6. SeenInv'
    BY <1>6, <2>5 DEF SeenInv, Shown
  <2>7. JudgedOnce'
    <3>1. ASSUME NEW m \in 1 .. Len(audit'), NEW n \in 1 .. Len(audit'), m < n
          PROVE  audit'[m].ver < audit'[n].ver /\ audit'[m].verdict # "reported"
      <4>1. CASE n \in 1 .. Len(audit)
        BY <1>3, <2>2, <3>1, <4>1 DEF OrderInv, JudgedOnce
      <4>2. CASE n = Len(audit) + 1
        BY <1>3, <2>1, <2>2, <3>1, <4>2 DEF Fresh
      <4>. QED  BY <1>3, <2>2, <4>1, <4>2
    <3>2. DOMAIN audit' = 1 .. Len(audit')
      BY <2>3
    <3>. QED  BY <3>1, <3>2 DEF JudgedOnce
  <2>. QED  BY <1>1, <1>2, <2>4, <2>6, <2>7 DEF OrderInv
<1>. QED  BY <1>5, <1>6

\* A verdict, that it has to wait, or that there is nothing to judge.
LEMMA JudgeLeaves ==
  ASSUME HistInv, NEW B, BotInv(B), Judge(B)
  PROVE  \/ bot' = B /\ audit' = audit
         \/ bot' = [B EXCEPT !.pend = NotPending] /\ audit' = audit
         \/ /\ bot' = [B EXCEPT !.pend = NotPending]
            /\ B.pend.ver # None /\ Held(B) > 0
            /\ \E e \in Entry :
                  /\ audit' = Append(audit, e)
                  /\ e.ver = B.pend.ver /\ e.start = B.start /\ e.doubt = Doubt(B)
                  /\ e.verdict = Verdict(B, vers[e.ver].qty, CreatedAt(e.ver, audit # <<>>))
<1>. DEFINE ver == B.pend.ver
            verdict == Verdict(B, vers[ver].qty, CreatedAt(ver, audit # <<>>))
            e == [ver |-> ver, verdict |-> verdict, start |-> B.start, doubt |-> Doubt(B)]
<1>1. verdict \in VerdictNames \cup {"waits"}
  BY DEF Verdict, VerdictNames
<1>2. ver \in Nat /\ B.start \in Nat /\ Doubt(B) \in Nat /\ Held(B) \in Nat
  BY LedgerTypes
<1>3. \/ bot' = B /\ audit' = audit
      \/ bot' = [B EXCEPT !.pend = NotPending] /\ audit' = audit
      \/ /\ bot' = [B EXCEPT !.pend = NotPending] /\ audit' = Append(audit, e)
         /\ ver # None /\ Held(B) # 0 /\ verdict # "waits"
  BY DEF Judge
<1>4. verdict # "waits" /\ ver # None => e \in Entry
  BY <1>1, <1>2 DEF Entry, None
<1>5. /\ e.ver = ver /\ e.start = B.start /\ e.doubt = Doubt(B)
      /\ e.verdict = Verdict(B, vers[e.ver].qty, CreatedAt(e.ver, audit # <<>>))
  OBVIOUS
<1>. HIDE DEF e, verdict
<1>. QED  BY <1>2, <1>3, <1>4, <1>5

LEMMA OrderJudge ==
  ASSUME OrderInv, UNCHANGED <<hist, vers>>,
         pushed' \in 0 .. Len(vers), read' \in [from : Nat, on : BOOLEAN],
         read'.from <= Len(vers), \A v \in Nat : Shown(v) => Shown(v)',
         NEW B, BotInv(B),
         B.pend.ver # None => \E v \in Nat : v = B.pend.ver /\ Shown(v)' /\ Fresh(v),
         Judge(B)
  PROVE  OrderInv'
<1>1. CASE bot' = B /\ audit' = audit
  BY <1>1, OrderStep
<1>2. CASE bot' = [B EXCEPT !.pend = NotPending]
  <2>1. BotInv([B EXCEPT !.pend = NotPending])
    BY PendAlone
  <2>2. BotInv(bot')
    BY <1>2, <2>1
  <2>3. bot'.pend.ver = None
    BY <1>2 DEF BotInv, Process, NotPending
  <2>4. \/ audit' = audit
        \/ \E e \in Entry : audit' = Append(audit, e) /\ Shown(e.ver)' /\ Fresh(e.ver)
    <3>1. CASE \E e \in Entry : audit' = Append(audit, e) /\ e.ver = B.pend.ver /\ e.ver # None
      <4>1. PICK e \in Entry : audit' = Append(audit, e) /\ e.ver = B.pend.ver /\ e.ver # None
        BY <3>1
      <4>2. PICK v \in Nat : v = B.pend.ver /\ Shown(v)' /\ Fresh(v)
        BY <4>1
      <4>3. v = e.ver
        BY <4>1, <4>2
      <4>4. Shown(e.ver)' /\ Fresh(e.ver)
        BY <4>2, <4>3
      <4>. QED  BY <4>1, <4>4
    <3>2. CASE audit' = audit
      BY <3>2
    <3>3. \/ audit' = audit
          \/ \E e \in Entry : audit' = Append(audit, e) /\ e.ver = B.pend.ver /\ e.ver # None
      BY JudgeLeaves DEF OrderInv
    <3>. QED  BY <3>1, <3>2, <3>3
  <2>. QED  BY <2>2, <2>3, <2>4, OrderStep
<1>. QED  BY <1>1, <1>2, JudgeLeaves DEF OrderInv

\* An order that fired or is gone.
LEMMA OrderWithdraw ==
  ASSUME OrderInv, UNCHANGED <<hist, vers>>,
         pushed' \in 0 .. Len(vers), read' \in [from : Nat, on : BOOLEAN],
         read'.from <= Len(vers), \A v \in Nat : Shown(v) => Shown(v)',
         NEW status, Withdraw(bot, status)
  PROVE  OrderInv'
<1>1. bot' = [bot EXCEPT !.pend = NotPending]
  BY DEF Withdraw
<1>2. BotInv(bot')
  BY <1>1, PendAlone DEF OrderInv
<1>3. bot'.pend.ver = None
  BY <1>1 DEF OrderInv, BotInv, Process, NotPending
<1>4. PICK v : v = bot.pend.ver
  OBVIOUS
<1>5. CASE audit' = audit
  BY <1>2, <1>3, <1>5, OrderStep
<1>6. CASE audit' # audit
  <2>1. audit' = Append(audit, [ver |-> v, verdict |-> "unproven", start |-> bot.start,
                                doubt |-> Doubt(bot)]) /\ bot.pend # NotPending
    BY <1>4, <1>6 DEF Withdraw
  <2>2. v \in Nat /\ bot.start \in Nat /\ Doubt(bot) \in Nat
    BY <1>4, LedgerTypes DEF OrderInv
  <2>3. v # None
    BY <1>4, <2>1 DEF OrderInv, BotInv, Process, Waiting, NotPending, None
  <2>4. PICK e \in Entry : audit' = Append(audit, e) /\ e.ver = v
    BY <2>1, <2>2, <2>3 DEF Entry, VerdictNames, None
  <2>5. v # None => Shown(v)' /\ Fresh(v)
    BY <1>4, <2>2 DEF OrderInv, SeenInv
  <2>6. Shown(e.ver)' /\ Fresh(e.ver)
    BY <2>4, <2>5, <2>3
  <2>. QED  BY <1>2, <1>3, <2>4, <2>6, OrderStep
<1>. QED  BY <1>5, <1>6

\* A version that is not older than any that was judged, and not judged itself, is newer.
LEMMA UnjudgedIsFresh ==
  ASSUME OrderInv, NEW ver \in Nat, Unjudged(ver),
         \A n \in 1 .. Len(audit) : audit[n].ver <= ver
  PROVE  Fresh(ver)
<1>1. CASE audit = <<>>
  BY <1>1 DEF Fresh
<1>2. CASE audit # <<>>
  <2>1. /\ audit \in Seq(Entry) /\ Len(audit) \in 1 .. Len(audit) /\ Len(audit) \in Nat
        /\ DOMAIN audit = 1 .. Len(audit)
    BY <1>2 DEF OrderInv, VersInv
  <2>2. \A n \in 1 .. Len(audit) : audit[n].ver \in Nat \ {0}
    <3>1. \A n \in 1 .. Len(audit) : audit[n] \in Entry
      BY <2>1
    <3>. QED  BY <3>1 DEF Entry
  <2>3. Judged = audit[Len(audit)]
    BY DEF Judged, Last
  <2>4. Judged.verdict # "reported" /\ Judged.ver # ver
    <3>1. Amended(ver)
      BY <1>2 DEF Unjudged
    <3>2. CASE Judged.ver = ver
      <4>1. ver # 0 /\ ver <= Len(vers)
        BY <2>1, <2>2, <2>3, <3>2 DEF OrderInv, SeenInv, Shown
      <4>2. vers \in Seq(Version) /\ Len(vers) \in Nat
        BY DEF OrderInv, VersInv
      <4>3. vers[ver] \in Version
        BY <4>1, <4>2
      <4>4. vers[ver].qty \in Nat
        BY <4>3 DEF Version
      <4>. QED  BY <3>1, <3>2, <4>4 DEF Amended
    <3>. QED  BY <3>1, <3>2 DEF Amended
  <2>5. Judged.ver < ver
    BY <2>1, <2>2, <2>3, <2>4
  <2>6. \A n \in 1 .. Len(audit) - 1 :
          audit[n].ver < audit[Len(audit)].ver /\ audit[n].verdict # "reported"
    BY <2>1 DEF OrderInv, JudgedOnce
  <2>. QED  BY <2>1, <2>2, <2>3, <2>4, <2>5, <2>6 DEF Fresh
<1>. QED  BY <1>1, <1>2

\* A resting version is taken in.
LEMMA OrderObserve ==
  ASSUME OrderInv, UNCHANGED <<hist, vers>>,
         pushed' \in 0 .. Len(vers), read' \in [from : Nat, on : BOOLEAN],
         read'.from <= Len(vers), \A v \in Nat : Shown(v) => Shown(v)',
         NEW ver \in Nat \ {0}, Shown(ver)',
         \A n \in 1 .. Len(audit) : audit[n].ver <= ver,
         Observe(bot, ver)
  PROVE  OrderInv'
<1>. DEFINE p == IF bot.pend = NotPending THEN FirstSeen(ver) ELSE [bot.pend EXCEPT !.ver = ver]
            B == [bot EXCEPT !.pend = p]
<1>1. CASE Unjudged(ver)
  <2>1. Fresh(ver)
    BY <1>1, UnjudgedIsFresh
  <2>2. bot.pend \in {NotPending} \cup Waiting /\ bot \in Process
    BY DEF OrderInv, BotInv, Process
  <2>3. p \in Waiting /\ p.ver = ver
    <3>1. CASE bot.pend = NotPending
      BY <3>1 DEF FirstSeen, Waiting, Ages, OrderInv, HistInv, Now
    <3>2. CASE bot.pend \in Waiting /\ bot.pend # NotPending
      BY <3>2 DEF Waiting
    <3>. QED  BY <2>2, <3>1, <3>2
  <2>4. BotInv(B)
    BY <2>3, PendAlone DEF OrderInv
  <2>5. B.pend = p
    BY <2>2 DEF Process
  <2>6. B = [bot EXCEPT !.pend = IF @ = NotPending THEN FirstSeen(ver)
                                  ELSE [@ EXCEPT !.ver = ver]]
    OBVIOUS
  <2>. HIDE DEF p, B
  <2>7. Judge(B)
    BY <1>1, <2>6 DEF Observe
  <2>. QED  BY <2>1, <2>3, <2>4, <2>5, <2>7, OrderJudge
<1>2. CASE ~Unjudged(ver)
  <2>1. bot' = bot /\ audit' = audit
    BY <1>2 DEF Observe
  <2>2. BotInv(bot') /\ (bot.pend.ver # None => Shown(bot.pend.ver) /\ Fresh(bot.pend.ver))
    BY <2>1 DEF OrderInv, SeenInv
  <2>3. bot'.pend.ver # None => \E v \in Nat : v = bot'.pend.ver /\ Shown(v)' /\ Fresh(v)
    BY <2>1, <2>2, LedgerTypes DEF OrderInv
  <2>. QED  BY <2>1, <2>2, <2>3, OrderStep
<1>. QED  BY <1>1, <1>2

\* Pushes and reads of the order.
LEMMA ShownBefore ==
  ASSUME OrderInv
  PROVE  /\ \A n \in 1 .. Len(audit) : audit[n].ver \in Nat /\ Shown(audit[n].ver)
         /\ pushed \in Nat /\ Len(vers) \in Nat /\ pushed <= Len(vers)
         /\ read \in [from : Nat, on : BOOLEAN] /\ read.from \in 0 .. Len(vers)
<1>1. \A n \in 1 .. Len(audit) : audit[n] \in Entry
  BY DEF OrderInv, VersInv
<1>2. \A n \in 1 .. Len(audit) : audit[n].ver \in Nat
  BY <1>1 DEF Entry
<1>. QED  BY <1>2 DEF OrderInv, VersInv, SeenInv

LEMMA OrderOrderPush ==
  ASSUME OrderInv, OrderPush
  PROVE  OrderInv'
<1>1. pushed' = pushed + 1 /\ pushed < Len(vers) /\ UNCHANGED <<hist, vers, read>>
  BY DEF OrderPush
<1>2. /\ pushed' \in 0 .. Len(vers) /\ pushed' \in Nat \ {0}
      /\ read' \in [from : Nat, on : BOOLEAN] /\ read'.from <= Len(vers)
  BY <1>1, ShownBefore
<1>3. \A v \in Nat : Shown(v) => Shown(v)'
  BY <1>1, ShownBefore DEF Shown
<1>4. PICK ver : ver = pushed'
  OBVIOUS
<1>5. Shown(ver)' /\ \A n \in 1 .. Len(audit) : audit[n].ver <= ver
  BY <1>1, <1>4, ShownBefore DEF Shown
<1>6. Observe(bot, ver) \/ Withdraw(bot, vers[pushed'].status)
  BY <1>4 DEF OrderPush
<1>. QED  BY <1>1, <1>2, <1>3, <1>4, <1>5, <1>6, OrderObserve, OrderWithdraw

LEMMA OrderReadOrders ==
  ASSUME OrderInv, "slow" \notin Beyond, ReadOrders
  PROVE  OrderInv'
<1>1. read.on /\ read' = NoRead /\ UNCHANGED <<hist, vers, pushed>>
  BY DEF ReadOrders
<1>2. /\ pushed' \in 0 .. Len(vers)
      /\ read' \in [from : Nat, on : BOOLEAN] /\ read'.from <= Len(vers)
  BY <1>1, ShownBefore DEF NoRead, None
<1>3. \A v \in Nat : Shown(v) => Shown(v)'
  BY <1>1, ShownBefore DEF Shown, NoRead
<1>4. PICK ver \in read.from .. Len(vers) :
        /\ ver \in pushed .. pushed + 1
        /\ \/ ver # None /\ Observe(bot, ver)
           \/ Withdraw(bot, "gone")
           \/ UNCHANGED <<bot, audit>>
  BY DEF ReadOrders
<1>5. ver \in Nat /\ Shown(ver)' /\ \A n \in 1 .. Len(audit) : audit[n].ver <= ver
  BY <1>1, <1>4, ShownBefore DEF Shown, NoRead
<1>6. CASE UNCHANGED <<bot, audit>>
  <2>1. bot.pend.ver \in Nat
    BY LedgerTypes DEF OrderInv
  <2>2. bot'.pend.ver # None => \E v \in Nat : v = bot'.pend.ver /\ Shown(v)' /\ Fresh(v)
    BY <1>3, <1>6, <2>1 DEF OrderInv, SeenInv
  <2>3. BotInv(bot')
    BY <1>6 DEF OrderInv
  <2>. QED  BY <1>1, <1>2, <1>3, <1>6, <2>2, <2>3, OrderStep
<1>7. CASE ver # None /\ Observe(bot, ver)
  <2>1. ver \in Nat \ {0}
    BY <1>5, <1>7 DEF None
  <2>. QED  BY <1>1, <1>2, <1>3, <1>5, <1>7, <2>1, OrderObserve
<1>. QED  BY <1>1, <1>2, <1>3, <1>4, <1>6, <1>7, OrderWithdraw

\* The ledger walks on only where nothing happened in between.
LEMMA AdvanceKeeps ==
  ASSUME HistInv, NEW B, BotInv(B)
  PROVE  BotInv(LedgerAdvance(B)) /\ LedgerAdvance(B).pend = B.pend
         /\ LedgerAdvance(B).known = B.known /\ LedgerAdvance(B).hold = B.hold
<1>1. CASE ~B.hold /\ NoExec(B.known, B.view)
  <2>1. LedgerAdvance(B) = [B EXCEPT !.cursor = B.view]
    BY <1>1 DEF LedgerAdvance
  <2>. QED  BY <1>1, <2>1 DEF BotInv, Process, HistInv, Now
<1>2. CASE ~(~B.hold /\ NoExec(B.known, B.view))
  BY <1>2 DEF LedgerAdvance
<1>. QED  BY <1>1, <1>2

\* The process learns of an execution it did not know.
LEMMA BookKeeps ==
  ASSUME HistInv, NEW B, BotInv(B), NEW seq \in 1 .. Now, B.known < seq
  PROVE  BotInv(Book(B, seq)) /\ Book(B, seq).pend = B.pend
         /\ Book(B, seq).known = seq /\ Book(B, seq).hold = B.hold
<1>. DEFINE booked == [B EXCEPT !.known = seq]
            noted == IF hist[seq].own = hist[seq - 1].own THEN booked
                     ELSE NoteShareStart(B, booked, seq)
<1>1. B \in Process /\ seq \in Nat /\ Now \in Nat /\ B.known \in Nat /\ B.cursor \in Nat
  BY DEF BotInv, HistInv, Now, Process
<1>2. NoExec(seq, B.cursor)
  BY <1>1, NoExecParts DEF BotInv
<1>3. BotInv(booked)
  BY <1>1, <1>2 DEF BotInv, Process
<1>4. /\ BotInv(noted) /\ noted.pend = B.pend /\ noted.known = seq /\ noted.hold = B.hold
  <2>1. CASE noted = booked
    BY <1>1, <1>3, <2>1 DEF Process
  <2>2. CASE \E start \in {None, seq} : noted = [booked EXCEPT !.since = None, !.start = start]
    <3>1. PICK start \in {None, seq} : noted = [booked EXCEPT !.since = None, !.start = start]
      BY <2>2
    <3>. HIDE DEF noted
    <3>2. /\ noted = [B EXCEPT !.known = seq, !.since = None, !.start = start]
          /\ start \in Nat /\ start <= Now
      BY <1>1, <3>1 DEF Process, None
    <3>3. noted \in Process
      BY <1>1, <3>2 DEF Process, None
    <3>4. /\ noted.known = seq /\ noted.view = B.view /\ noted.cursor = B.cursor
          /\ noted.over = B.over /\ noted.doubt = B.doubt /\ noted.hold = B.hold
          /\ noted.start = start /\ noted.since = None /\ noted.pend = B.pend
      BY <1>1, <3>2 DEF Process
    <3>. QED  BY <1>1, <1>2, <3>2, <3>3, <3>4 DEF BotInv, None
  <2>. QED  BY <2>1, <2>2 DEF NoteShareStart
<1>5. Book(B, seq) = LedgerAdvance(noted)
  BY DEF Book
<1>. HIDE DEF noted
<1>. QED  BY <1>4, <1>5, AdvanceKeeps

\* There is a first one among the executions that are not known.
LEMMA FirstUnknown ==
  ASSUME NEW a \in Nat, NEW b \in Nat, ~NoExec(a, b)
  PROVE  Min(Execs(a, b)) \in Execs(a, b)
<1>1. Execs(a, b) \subseteq Nat /\ Execs(a, b) # {}
  BY DEF NoExec, Execs
<1>2. \E m \in Execs(a, b) : \A k \in Execs(a, b) : m <= k
  <2>1. PICK m \in Execs(a, b) : \A k \in Execs(a, b) : ~(<<k, m>> \in OpToRel(<, Nat))
    BY <1>1, WFMin, NatLessThanWellFounded
  <2>2. ASSUME NEW k \in Nat, NEW n \in Nat, k < n
        PROVE  <<k, n>> \in OpToRel(<, Nat)
    BY <2>2, Zenon DEF OpToRel
  <2>3. \A k \in Execs(a, b) : ~(k < m)
    BY <1>1, <2>1, <2>2
  <2>. QED  BY <1>1, <2>3
<1>. QED  BY <1>2 DEF Min

\* The process learns something, and judges the order that waits.
LEMMA OrderLearns ==
  ASSUME OrderInv, UNCHANGED <<hist, vers, pushed, read>>,
         NEW B, BotInv(B), B.pend.ver = bot.pend.ver, Judge(B)
  PROVE  OrderInv'
<1>1. \A v \in Nat : Shown(v) => Shown(v)'
  BY DEF Shown
<1>2. B.pend.ver \in Nat
  BY LedgerTypes DEF OrderInv
<1>3. B.pend.ver # None => \E v \in Nat : v = B.pend.ver /\ Shown(v)' /\ Fresh(v)
  BY <1>1, <1>2 DEF OrderInv, SeenInv
<1>4. /\ pushed' \in 0 .. Len(vers) /\ read' \in [from : Nat, on : BOOLEAN]
      /\ read'.from <= Len(vers)
  BY ShownBefore
<1>. QED  BY <1>1, <1>3, <1>4, OrderJudge

\* Steps that touch neither the record nor the version that waits.
LEMMA OrderQuiet ==
  ASSUME OrderInv, UNCHANGED <<hist, vers, audit>>,
         pushed' \in 0 .. Len(vers), read' \in [from : Nat, on : BOOLEAN],
         read'.from <= Len(vers), \A v \in Nat : Shown(v) => Shown(v)',
         BotInv(bot'), bot'.pend.ver \in {None, bot.pend.ver}
  PROVE  OrderInv'
<1>1. bot.pend.ver \in Nat
  BY LedgerTypes DEF OrderInv
<1>2. bot'.pend.ver # None => \E v \in Nat : v = bot'.pend.ver /\ Shown(v)' /\ Fresh(v)
  BY <1>1 DEF OrderInv, SeenInv
<1>. QED  BY <1>2, OrderStep

LEMMA OrderExecution ==
  ASSUME OrderInv, Execution
  PROVE  OrderInv'
<1>1. PICK seq : seq = Min(Execs(bot.known, Now))
  OBVIOUS
<1>2. bot.known \in Nat /\ Now \in Nat /\ bot.known >= 1
  BY DEF OrderInv, BotInv, HistInv, Now
<1>3. seq \in Execs(bot.known, Now)
  BY <1>1, <1>2, FirstUnknown DEF Execution
<1>4. seq \in 1 .. Now /\ bot.known < seq
  BY <1>2, <1>3 DEF Execs
<1>5. BotInv(Book(bot, seq)) /\ Book(bot, seq).pend = bot.pend
  BY <1>4, BookKeeps DEF OrderInv
<1>6. Judge(Book(bot, seq)) /\ UNCHANGED <<hist, vers, pushed, read>>
  BY <1>1 DEF Execution
<1>. QED  BY <1>5, <1>6, OrderLearns

\* A view is never older than the newest one taken in before.
LEMMA ViewKeeps ==
  ASSUME HistInv, NEW B, BotInv(B), NEW seq \in B.view .. Now, NEW after \in BOOLEAN
  PROVE  /\ BotInv(SeenView(B, seq, after)) /\ SeenView(B, seq, after).pend.ver = B.pend.ver
         /\ SeenView(B, seq, after).known = B.known /\ SeenView(B, seq, after).hold = B.hold
         /\ SeenView(B, seq, after).pend =
              IF B.pend = NotPending THEN B.pend ELSE [B.pend EXCEPT !.viewed = after]
<1>. DEFINE p == IF B.pend = NotPending THEN B.pend ELSE [B.pend EXCEPT !.viewed = after]
            S == [B EXCEPT !.view = seq, !.pend = p]
<1>1. SeenView(B, seq, after) = S
  BY DEF SeenView
<1>2. p \in {NotPending} \cup Waiting /\ p.ver = B.pend.ver
  BY DEF BotInv, Process, Waiting
<1>. HIDE DEF p
<1>3. B \in Process /\ seq \in Nat
  BY DEF BotInv, HistInv, Now, Process
<1>4. S \in Process
  BY <1>2, <1>3 DEF Process
<1>5. /\ S \in Process /\ S.view = seq /\ S.pend = p /\ S.known = B.known /\ S.hold = B.hold
      /\ S.cursor = B.cursor /\ S.over = B.over /\ S.doubt = B.doubt /\ S.start = B.start
      /\ S.since = B.since
  BY <1>3, <1>4 DEF Process
<1>. HIDE DEF S
<1>6. BotInv(S)
  BY <1>5 DEF BotInv, HistInv, Now
<1>. QED  BY <1>1, <1>2, <1>5, <1>6 DEF p

LEMMA OrderView ==
  ASSUME OrderInv, PositionView
  PROVE  OrderInv'
<1>1. PICK seq \in {bot.view} \union Execs(bot.view, Now), after \in BOOLEAN :
        Judge(LedgerAdvance(SeenView(bot, seq, after)))
  BY DEF PositionView
<1>2. seq \in bot.view .. Now
  BY <1>1 DEF Execs, OrderInv, BotInv, HistInv, Now
<1>3. /\ BotInv(SeenView(bot, seq, after)) /\ SeenView(bot, seq, after).pend.ver = bot.pend.ver
  BY <1>2, ViewKeeps DEF OrderInv
<1>4. /\ BotInv(LedgerAdvance(SeenView(bot, seq, after)))
      /\ LedgerAdvance(SeenView(bot, seq, after)).pend.ver = bot.pend.ver
  BY <1>3, AdvanceKeeps DEF OrderInv
<1>5. UNCHANGED <<hist, vers, pushed, read>>
  BY DEF PositionView
<1>. QED  BY <1>1, <1>4, <1>5, OrderLearns

\* The order that waits gets older.
LEMMA AgeKeeps ==
  ASSUME NEW B, BotInv(B), B.pend # NotPending, B.pend.age # "old"
  PROVE  LET A == [B EXCEPT !.pend.age = Later(@)]
         IN  /\ BotInv(A)
             /\ A.pend = [B.pend EXCEPT !.age = Later(@)] /\ A.pend \in Waiting
             /\ A.pend.ver = B.pend.ver /\ A.known = B.known /\ A.hold = B.hold
<1>. DEFINE p == [B.pend EXCEPT !.age = Later(@)]
<1>1. B.pend \in Waiting /\ B \in Process
  BY DEF BotInv, Process
<1>2. p \in Waiting /\ p.ver = B.pend.ver
  BY <1>1 DEF Waiting, Later, Ages
<1>3. [B EXCEPT !.pend.age = Later(@)] = [B EXCEPT !.pend = p]
  BY <1>1 DEF Process, Waiting
<1>. HIDE DEF p
<1>4. BotInv([B EXCEPT !.pend = p])
  BY <1>2, PendAlone
<1>5. /\ [B EXCEPT !.pend = p].pend = p /\ [B EXCEPT !.pend = p].known = B.known
      /\ [B EXCEPT !.pend = p].hold = B.hold
  BY <1>1 DEF Process
<1>6. p = [B.pend EXCEPT !.age = Later(@)]
  BY DEF p
<1>. QED  BY <1>2, <1>3, <1>4, <1>5, <1>6

LEMMA OrderTimePasses ==
  ASSUME OrderInv, TimePasses
  PROVE  OrderInv'
<1>1. PICK B : B = [bot EXCEPT !.pend.age = Later(@)]
  OBVIOUS
<1>2. BotInv(B) /\ B.pend.ver = bot.pend.ver
  BY <1>1, AgeKeeps DEF TimePasses, OrderInv
<1>3. Judge(B) /\ UNCHANGED <<hist, vers, pushed, read>>
  BY <1>1 DEF TimePasses
<1>. QED  BY <1>2, <1>3, OrderLearns

\* Of the ledger only what it gave up, or settled.
LEMMA DoubtAlone ==
  ASSUME NEW B, BotInv(B), NEW doubt \in Nat, NEW over \in Nat, over <= doubt
  PROVE  LET D == [B EXCEPT !.doubt = doubt, !.over = over]
         IN  BotInv(D) /\ D.pend = B.pend /\ D.known = B.known /\ D.hold = B.hold
<1>. DEFINE D == [B EXCEPT !.doubt = doubt, !.over = over]
<1>1. B \in Process
  BY DEF BotInv
<1>2. D \in Process
  BY <1>1 DEF Process
<1>3. /\ D.known = B.known /\ D.view = B.view /\ D.cursor = B.cursor
      /\ D.over = over /\ D.doubt = doubt /\ D.hold = B.hold
      /\ D.start = B.start /\ D.since = B.since /\ D.pend = B.pend
  BY <1>1 DEF Process
<1>. HIDE DEF D
<1>4. BotInv(D)
  BY <1>2, <1>3 DEF BotInv
<1>. QED  BY <1>3, <1>4 DEF D

\* The order that waits is marked by a read, the ledger gives up an interval or settles one,
\* the stream breaks and comes back.
LEMMA OrderRest ==
  ASSUME OrderInv, StartRead \/ GiveUp \/ Settle \/ Outage \/ LostPush \/ LiftHold
  PROVE  OrderInv'
<1>1. bot \in Process /\ BotInv(bot)
  BY DEF OrderInv, BotInv
<1>2. CASE StartRead
  <2>1. /\ read' = [from |-> Len(vers), on |-> TRUE] /\ UNCHANGED <<hist, vers, pushed, audit>>
        /\ bot' = IF bot.pend = NotPending THEN bot ELSE [bot EXCEPT !.pend.reread = TRUE]
    BY <1>2 DEF StartRead
  <2>2. /\ pushed' \in 0 .. Len(vers) /\ read' \in [from : Nat, on : BOOLEAN]
        /\ read'.from <= Len(vers)
    BY <2>1, ShownBefore
  <2>3. \A v \in Nat : Shown(v) => Shown(v)'
    BY <2>1, ShownBefore DEF Shown
  <2>4. CASE bot.pend # NotPending
    <3>1. bot.pend \in Waiting
      BY <1>1, <2>4 DEF Process
    <3>2. [bot.pend EXCEPT !.reread = TRUE] \in Waiting
      BY <3>1 DEF Waiting
    <3>3. bot' = [bot EXCEPT !.pend = [bot.pend EXCEPT !.reread = TRUE]]
      BY <1>1, <2>1, <2>4, <3>1 DEF Process, Waiting
    <3>4. BotInv(bot')
      BY <1>1, <3>2, <3>3, PendAlone
    <3>5. bot'.pend.ver = bot.pend.ver
      BY <1>1, <3>1, <3>3 DEF Process, Waiting
    <3>. QED  BY <2>1, <2>2, <2>3, <3>4, <3>5, OrderQuiet
  <2>5. CASE bot' = bot
    BY <1>1, <2>1, <2>2, <2>3, <2>5, OrderQuiet
  <2>. QED  BY <2>1, <2>4, <2>5
<1>3. CASE GiveUp \/ Settle \/ Outage \/ LiftHold
  <2>1. UNCHANGED <<hist, vers, pushed, read, audit>>
    BY <1>3 DEF GiveUp, Settle, Outage, LiftHold
  <2>2. BotInv(bot') /\ bot'.pend.ver = bot.pend.ver
    <3>1. CASE GiveUp
      <4>1. PICK over \in 0 .. bot.doubt + 1 :
              bot' = [bot EXCEPT !.doubt = @ + 1, !.over = over]
        BY <3>1 DEF GiveUp
      <4>2. PICK doubt \in Nat : doubt = bot.doubt + 1
        BY <1>1 DEF Process
      <4>3. bot' = [bot EXCEPT !.doubt = doubt, !.over = over] /\ over \in Nat /\ over <= doubt
        BY <4>1, <4>2
      <4>. QED  BY <1>1, <4>2, <4>3, DoubtAlone
    <3>2. CASE Settle
      <4>1. bot' = [bot EXCEPT !.doubt = 0, !.over = 0]
        BY <3>2 DEF Settle
      <4>2. PICK zero \in Nat : zero = 0
        OBVIOUS
      <4>3. bot' = [bot EXCEPT !.doubt = zero, !.over = zero] /\ zero <= zero
        BY <4>1, <4>2
      <4>. QED  BY <1>1, <4>3, DoubtAlone
    <3>3. CASE Outage \/ LiftHold
      BY <1>1, <3>3 DEF Outage, LiftHold, BotInv, Process
    <3>. QED  BY <1>3, <3>1, <3>2, <3>3
  <2>3. \A v \in Nat : Shown(v) => Shown(v)'
    BY <2>1 DEF Shown
  <2>. QED  BY <2>1, <2>2, <2>3, ShownBefore, OrderQuiet
<1>4. CASE LostPush
  <2>1. /\ pushed' = pushed + 1 /\ pushed < Len(vers)
        /\ UNCHANGED <<hist, vers, read, bot, audit>>
    BY <1>4 DEF LostPush
  <2>2. \A v \in Nat : Shown(v) => Shown(v)'
    BY <2>1, ShownBefore DEF Shown
  <2>3. /\ pushed' \in 0 .. Len(vers) /\ read' \in [from : Nat, on : BOOLEAN]
        /\ read'.from <= Len(vers) /\ BotInv(bot')
    BY <1>1, <2>1, ShownBefore
  <2>. QED  BY <2>1, <2>2, <2>3, OrderQuiet
<1>. QED  BY <1>2, <1>3, <1>4

LEMMA AdoptedFits ==
  ASSUME HistInv, NEW share
  PROVE  BotInv(Adopted(Now, share)) /\ Adopted(Now, share).pend.ver = None
<1>1. Now \in Nat /\ Now > 0
  BY DEF HistInv, Now
<1>2. Adopted(Now, share) \in Process
  BY <1>1 DEF Adopted, Process, None
<1>3. NoExec(Now, Now)
  BY <1>1, NoExecParts
<1>. QED  BY <1>1, <1>2, <1>3 DEF Adopted, BotInv, NotPending, None

LEMMA OrderRestart ==
  ASSUME OrderInv, Restart
  PROVE  OrderInv'
<1>1. /\ bot' = Adopted(Now, hist[Now].share) /\ read' = NoRead /\ pushed' = Len(vers)
      /\ UNCHANGED <<hist, vers, audit>>
  BY DEF Restart
<1>2. \A v \in Nat : Shown(v) => Shown(v)'
  BY <1>1, ShownBefore DEF Shown, NoRead
<1>3. BotInv(bot') /\ bot'.pend.ver = None
  BY <1>1, AdoptedFits DEF OrderInv
<1>4. /\ pushed' \in 0 .. Len(vers) /\ read' \in [from : Nat, on : BOOLEAN]
      /\ read'.from <= Len(vers)
  BY <1>1, ShownBefore DEF NoRead, None
<1>. QED  BY <1>1, <1>2, <1>3, <1>4, OrderQuiet

LEMMA OrderNext ==
  ASSUME OrderInv, "slow" \notin Beyond, [Next]_vars
  PROVE  OrderInv'
<1>1. CASE Venue
  BY <1>1, OrderExecute, OrderAmend, OrderEnd DEF Venue
<1>2. CASE Plugin
  BY <1>2, OrderOrderPush, OrderReadOrders, OrderExecution, OrderView, OrderTimePasses,
     OrderRest, OrderRestart DEF Plugin
<1>3. CASE UNCHANGED vars
  <2>1. \A v \in Nat : Shown(v) => Shown(v)'
    BY <1>3 DEF vars, Shown
  <2>. QED  BY <1>3, <2>1, ShownBefore, OrderQuiet DEF vars, OrderInv
<1>. QED  BY <1>1, <1>2, <1>3 DEF Next

\* However an order is pushed, read and amended, and through restarts and outages: every
\* version of it is judged at most once, in order, and nothing follows a report.
THEOREM VersionsAreJudgedOnce ==
  ASSUME "slow" \notin Beyond
  PROVE  Spec => []JudgedOnce
<1>1. OrderInv => JudgedOnce
  BY DEF OrderInv
<1>2. OrderInv /\ [Next]_vars => OrderInv'
  BY OrderNext
<1>. QED  BY <1>1, <1>2, OrderStart, PTL DEF Spec

-----------------------------------------------------------------------------
(***************************************************************************)
(* The verdicts are true                                                   *)
(***************************************************************************)
\* The evidence is a state of the leg since the order took its terms.
LEMMA EvidenceIsLater ==
  ASSUME HistInv, NEW B, BotInv(B), WaitInv(B), B.pend.ver # None,
         NEW at \in 1 .. Now, at <= B.pend.seen, B.pend.seen \in Nat, Evidence(B)
  PROVE  /\ hist[B.known] = hist[B.cursor]
         /\ \E i \in at .. Now : hist[i] = hist[B.cursor]
<1>1. /\ Now \in Nat /\ at \in Nat /\ B.cursor \in 1 .. Now /\ B.known \in 1 .. Now
      /\ B.cursor \in Nat /\ B.known \in Nat /\ B.pend.seen <= Now
  BY DEF HistInv, Now, BotInv, WaitInv
<1>2. NoExec(B.cursor, B.known) /\ NoExec(B.known, B.cursor) /\ NoExec(B.known, B.pend.seen)
  BY DEF Evidence, BotInv, WaitInv
<1>3. hist[B.known] = hist[B.cursor]
  BY <1>1, <1>2 DEF HistInv
<1>4. CASE at <= B.cursor
  BY <1>1, <1>3, <1>4
<1>5. CASE B.cursor < at
  <2>1. NoExec(B.cursor, B.pend.seen)
    BY <1>1, <1>2, NoExecParts
  <2>2. NoExec(B.cursor, at)
    BY <1>1, <2>1, NoExecParts
  <2>3. hist[B.cursor] = hist[at]
    BY <1>1, <1>5, <2>2 DEF HistInv
  <2>. QED  BY <1>1, <1>3, <2>3
<1>. QED  BY <1>1, <1>4, <1>5

\* The ledger's share is the run's, or above it by no more than its doubt.
LEMMA RoomBounds ==
  ASSUME HistInv, NEW B, BotInv(B)
  PROVE  /\ Room(B) <= hist[B.cursor].leg - hist[B.cursor].share
         /\ hist[B.cursor].leg - hist[B.cursor].share <= Room(B) + Doubt(B)
         /\ Room(B) \in Int /\ Doubt(B) \in Nat
         /\ LedgerShare(B) > 0 => hist[B.cursor].share > 0 \/ Doubt(B) > 0
<1>1. B.over \in Nat /\ B.doubt \in Nat /\ B.over <= B.doubt
  BY DEF BotInv, Process
<1>2. /\ hist[B.cursor].leg \in Nat /\ hist[B.cursor].share \in Nat
      /\ hist[B.cursor].share <= hist[B.cursor].leg
  BY LedgerTypes DEF Moment
<1>3. PICK leg \in Nat, share \in Nat, over \in Nat, doubt \in Nat :
        /\ leg = hist[B.cursor].leg /\ share = hist[B.cursor].share
        /\ over = B.over /\ doubt = B.doubt /\ share <= leg /\ over <= doubt
  BY <1>1, <1>2
<1>4. /\ LedgerShare(B) = IF leg < share + over THEN leg ELSE share + over
      /\ LedgerLeg(B) = leg
      /\ Doubt(B) = IF doubt < LedgerShare(B) THEN doubt ELSE LedgerShare(B)
  BY <1>3 DEF Doubt, LedgerShare, LedgerLeg, Least
<1>5. Room(B) = leg - LedgerShare(B)
  BY <1>4 DEF Room
<1>6. LedgerShare(B) \in Nat /\ Doubt(B) \in Nat
  BY <1>3, <1>4
<1>7. Room(B) <= leg - share /\ Room(B) \in Int
  BY <1>3, <1>4, <1>5, <1>6
<1>8. leg - share <= Room(B) + Doubt(B)
  BY <1>3, <1>4, <1>5, <1>6
<1>9. LedgerShare(B) > 0 => share > 0 \/ Doubt(B) > 0
  BY <1>3, <1>4, <1>6
<1>. QED  BY <1>3, <1>6, <1>7, <1>8, <1>9

LEMMA VerdictSays ==
  ASSUME NEW B, NEW qty, NEW created
  PROVE  /\ Verdict(B, qty, created) = "reported" => Evidence(B) /\ qty > Room(B) + Doubt(B)
         /\ Verdict(B, qty, created) = "foreign_only" => Evidence(B) /\ qty <= Room(B)
         /\ Verdict(B, qty, created) = "preexisting" => created < B.start
BY DEF Verdict

LEMMA VerdictIsSound ==
  ASSUME StopsInv, NEW B, BotInv(B), WaitInv(B),
         B.pend.ver \in 1 .. Len(vers), Held(B) > 0,
         NEW e \in Entry, e.ver = B.pend.ver, e.start = B.start, e.doubt = Doubt(B),
         e.verdict = Verdict(B, vers[e.ver].qty, vers[e.ver].at)
  PROVE  Sound(e)
<1>1. HistInv /\ Now \in Nat /\ vers[e.ver].at \in 1 .. Now /\ vers[e.ver] \in Version
  BY DEF StopsInv, OrderInv, VersInv, HistInv, Now
<1>2. vers[e.ver].qty \in Nat /\ vers[e.ver].at \in Nat
  BY <1>1 DEF Version
<1>3. B.pend.ver # None /\ B.pend \in Waiting /\ B.start \in Nat
  BY DEF BotInv, Process, NotPending, None
<1>4. B.pend.seen \in Nat /\ vers[e.ver].at <= B.pend.seen
  BY <1>3 DEF Waiting, WaitInv
<1>5. CASE e.verdict = "preexisting"
  BY <1>2, <1>3, <1>5, VerdictSays DEF Sound
<1>6. CASE e.verdict \in {"reported", "foreign_only"}
  <2>1. /\ Evidence(B)
        /\ e.verdict = "reported" => vers[e.ver].qty > Room(B) + Doubt(B)
        /\ e.verdict = "foreign_only" => vers[e.ver].qty <= Room(B)
    BY <1>6, VerdictSays
  <2>2. PICK i \in vers[e.ver].at .. Now : hist[i] = hist[B.cursor]
    BY <1>1, <1>3, <1>4, <2>1, EvidenceIsLater
  <2>3. hist[B.known] = hist[B.cursor]
    BY <1>1, <1>3, <1>4, <2>1, EvidenceIsLater
  <2>4. LedgerShare(B) > 0
    <3>1. hist[B.cursor].own \in Int /\ LedgerShare(B) \in Nat
      BY <1>1, LedgerTypes DEF Moment
    <3>. QED  BY <2>3, <3>1 DEF Held, Pos
  <2>5. hist[B.cursor].leg \in Nat /\ hist[B.cursor].share \in Nat
    BY <1>1, LedgerTypes DEF Moment
  <2>6. /\ ForeignAt(i) = hist[B.cursor].leg - hist[B.cursor].share
        /\ hist[i].share = hist[B.cursor].share
    BY <2>2 DEF ForeignAt
  <2>7. /\ Room(B) <= ForeignAt(i) /\ ForeignAt(i) <= Room(B) + Doubt(B)
        /\ Room(B) \in Int /\ Doubt(B) \in Nat /\ ForeignAt(i) \in Int
        /\ hist[i].share > 0 \/ e.doubt > 0
    BY <1>1, <2>4, <2>5, <2>6, RoomBounds
  <2>8. /\ e.verdict = "reported" =>
              (hist[i].share > 0 \/ e.doubt > 0) /\ vers[e.ver].qty > ForeignAt(i)
        /\ e.verdict = "foreign_only" => vers[e.ver].qty <= ForeignAt(i)
    BY <1>2, <2>1, <2>7
  <2>. QED  BY <1>6, <2>2, <2>8 DEF Sound
<1>7. CASE e.verdict \notin {"preexisting", "reported", "foreign_only"}
  BY <1>7 DEF Sound
<1>. QED  BY <1>5, <1>6, <1>7

\* One version waits at most, and it is judged by its own terms.
LEMMA NewestWaits ==
  ASSUME StopsInv, NEW v \in 1 .. Len(vers), vers[v].status = "rests", Fresh(v)
  PROVE  /\ \A w \in 1 .. Len(vers) : vers[w].status = "rests" /\ Fresh(w) => w = v
         /\ CreatedAt(v, audit # <<>>) = vers[v].at
<1>1. Len(vers) \in Nat /\ Len(audit) \in Nat /\ \A n \in 1 .. Len(audit) : audit[n].ver \in Nat
  BY ShownBefore DEF StopsInv, OrderInv, VersInv
<1>2. \A w \in 2 .. Len(vers) : vers[w].status = "rests" =>
        \E n \in 1 .. Len(audit) : audit[n].ver >= w - 1
  BY DEF StopsInv, AmendInv
<1>3. ASSUME NEW x \in 1 .. Len(vers), NEW y \in 1 .. Len(vers), x < y, Fresh(x),
             vers[y].status = "rests"
      PROVE  FALSE
  <2>1. PICK n \in 1 .. Len(audit) : audit[n].ver >= y - 1
    BY <1>1, <1>2, <1>3
  <2>. QED  BY <1>1, <1>3, <2>1 DEF Fresh
<1>4. \A w \in 1 .. Len(vers) : vers[w].status = "rests" /\ Fresh(w) => w = v
  BY <1>1, <1>3
<1>5. CreatedAt(v, audit # <<>>) = vers[v].at
  <2>1. CASE audit = <<>>
    <3>1. v = 1
      <4>1. ~(v >= 2)
        BY <1>1, <1>2, <2>1
      <4>. QED  BY <1>1, <4>1
    <3>. QED  BY <2>1, <3>1 DEF CreatedAt
  <2>2. CASE audit # <<>>
    BY <2>2 DEF CreatedAt
  <2>. QED  BY <2>1, <2>2
<1>. QED  BY <1>4, <1>5

LEMMA StopsStart ==
  ASSUME Init
  PROVE  StopsInv
<1>1. OrderInv
  BY OrderStart
<1>2. bot.pend = NotPending
  BY DEF Init, Adopted
<1>. QED  BY <1>1, <1>2 DEF Init, StopsInv, AmendInv, WaitInv, NotPending

\* The venue goes on: what was judged stays true, what waits goes on waiting.
LEMMA StopsVenue ==
  ASSUME StopsInv, OrderInv', AmendInv', UNCHANGED <<bot, audit>>,
         Now' >= Now, \A i \in 1 .. Now : hist'[i] = hist[i],
         Len(vers') >= Len(vers), \A v \in 1 .. Len(vers) : vers'[v] = vers[v]
  PROVE  StopsInv'
<1>1. /\ Now \in Nat /\ Now' \in Nat /\ Len(vers) \in Nat /\ Len(vers') \in Nat
      /\ HistInv /\ BotInv(bot)
      /\ \A v \in 1 .. Len(vers) : vers[v].at \in 1 .. Now
  BY DEF StopsInv, OrderInv, HistInv, Now, VersInv
<1>2. \A a, b \in 1 .. Now : NoExec(a, b) => NoExec(a, b)'
  BY <1>1, BotKept
<1>3. WaitInv(bot)'
  <2>1. CASE bot.pend.ver = None
    BY <2>1 DEF WaitInv
  <2>2. CASE bot.pend.ver # None
    <3>1. PICK k, s, v : k = bot.known /\ s = bot.pend.seen /\ v = bot.pend.ver
      OBVIOUS
    <3>2. /\ bot.pend \in Waiting /\ v \in 1 .. Len(vers) /\ k \in 1 .. Now
          /\ s \in Nat /\ s <= Now /\ vers[v].status = "rests" /\ vers[v].at <= s
          /\ bot.pend.age # "fresh" /\ ~bot.hold => NoExec(k, s)
      <4>1. bot.pend \in Waiting
        BY <2>2 DEF StopsInv, OrderInv, BotInv, Process, NotPending
      <4>. QED  BY <1>1, <2>2, <3>1, <4>1
           DEF StopsInv, WaitInv, Waiting, OrderInv, SeenInv, Shown, BotInv, None
    <3>3. s \in 1 .. Now
      BY <1>1, <3>2
    <3>4. bot.pend.age # "fresh" /\ ~bot.hold => NoExec(k, s)'
      BY <1>2, <3>2, <3>3
    <3>5. bot.pend.age # "fresh" /\ ~bot.hold => NoExec(bot.known, bot.pend.seen)'
      BY <3>1, <3>4 DEF NoExec, Execs, IsExec
    <3>. QED  BY <1>1, <3>1, <3>2, <3>5 DEF WaitInv
  <2>. QED  BY <2>1, <2>2
<1>4. ASSUME NEW n \in 1 .. Len(audit)
      PROVE  Sound(audit[n])'
  <2>1. PICK e : e = audit[n]
    OBVIOUS
  <2>2. e.ver \in 1 .. Len(vers) /\ Sound(e)
    <3>1. audit[n] \in Entry /\ Shown(audit[n].ver)
      BY DEF StopsInv, OrderInv, VersInv, SeenInv
    <3>. QED  BY <1>1, <2>1, <3>1 DEF Entry, Shown, StopsInv
  <2>3. vers'[e.ver] = vers[e.ver] /\ vers[e.ver].at \in 1 .. Now
    BY <1>1, <2>2
  <2>4. \A i \in vers[e.ver].at .. Now :
          i \in vers'[e.ver].at .. Now' /\ hist'[i] = hist[i] /\ ForeignAt(i)' = ForeignAt(i)
    BY <1>1, <2>3 DEF ForeignAt
  <2>5. Sound(e)'
    BY <2>2, <2>3, <2>4 DEF Sound
  <2>. QED  BY <2>1, <2>5 DEF Sound, ForeignAt
<1>. QED  BY <1>3, <1>4 DEF StopsInv

LEMMA StopsExecute ==
  ASSUME StopsInv, Execute
  PROVE  StopsInv'
<1>1. hist[Now] \in Moment /\ Now \in Nat /\ hist[Now].share <= hist[Now].leg /\ HistInv
  BY DEF StopsInv, OrderInv, HistInv, Now
<1>2. hist[Now].leg \in Nat /\ hist[Now].share \in Nat
  BY <1>1 DEF Moment
<1>3. PICK leg \in Nat, share \in Nat, own \in Int :
        Happens(leg, share, own) /\ share <= leg /\ leg # hist[Now].leg
  BY <1>1, <1>2 DEF Execute, Least
<1>4. Now' = Now + 1 /\ \A i \in 1 .. Now : hist'[i] = hist[i]
  BY <1>1, <1>3, HistGrows
<1>5. OrderInv' /\ UNCHANGED <<vers, pushed, read, bot, audit>>
  BY OrderExecute DEF StopsInv
<1>6. AmendInv'
  BY <1>5 DEF StopsInv, AmendInv
<1>7. Len(vers') >= Len(vers) /\ \A v \in 1 .. Len(vers) : vers'[v] = vers[v]
  BY <1>5, ShownBefore DEF StopsInv
<1>. QED  BY <1>1, <1>4, <1>5, <1>6, <1>7, StopsVenue

LEMMA StopsAmend ==
  ASSUME StopsInv, Beyond = {}, Place \/ Amend
  PROVE  StopsInv'
<1>1. hist[Now] \in Moment /\ Now \in Nat /\ hist[Now].share <= hist[Now].leg /\ HistInv
  BY DEF StopsInv, OrderInv, HistInv, Now
<1>2. hist[Now].leg \in Nat /\ hist[Now].share \in Nat
  BY <1>1 DEF Moment
<1>3. PICK qty \in 1 .. MaxLeg, trigger \in 0 .. 1 :
        NewVersion([qty |-> qty, trigger |-> trigger, at |-> Now + 1, status |-> "rests"])
  <2>1. CASE Place
    BY <2>1 DEF Place
  <2>2. CASE Amend
    BY <2>2 DEF Amend
  <2>. QED  BY <2>1, <2>2
<1>4. PICK new : new = [qty |-> qty, trigger |-> trigger, at |-> Now + 1, status |-> "rests"]
  OBVIOUS
<1>5. new \in Version /\ NewVersion(new)
  <2>1. MaxLeg \in Nat
    BY StopsAssumption
  <2>2. qty \in Nat /\ trigger \in Nat /\ Now + 1 \in Nat
    BY <1>1, <2>1
  <2>. QED  BY <1>3, <1>4, <2>2 DEF Version
<1>6. Now' = Now + 1 /\ \A i \in 1 .. Now : hist'[i] = hist[i]
  BY <1>1, <1>2, <1>5, HistGrows DEF NewVersion
<1>7. UNCHANGED <<bot, audit>> /\ vers' = Append(vers, new)
  BY <1>5 DEF NewVersion
<1>8. /\ Len(vers') = Len(vers) + 1 /\ Len(vers) \in Nat
      /\ \A v \in 1 .. Len(vers) : vers'[v] = vers[v]
  BY <1>5, <1>7, VersGrow DEF StopsInv, OrderInv
<1>9. OrderInv'
  BY OrderAmend DEF StopsInv
<1>10. AmendInv'
  <2>1. CASE Place
    <3>1. Len(vers) = 0
      BY <2>1 DEF Place
    <3>. QED  BY <1>8, <3>1 DEF AmendInv
  <2>2. CASE Amend
    <3>1. Rests /\ audit # <<>> /\ Judged.ver = Len(vers)
      BY <2>2 DEF Amend
    <3>2. /\ Len(audit) \in 1 .. Len(audit) /\ audit[Len(audit)].ver = Len(vers)
      BY <3>1 DEF Judged, Last, StopsInv, OrderInv, VersInv
    <3>3. \A v \in 1 .. Len(vers) : vers[v].status = "rests"
      BY <1>8, <3>1 DEF Rests, Newest, StopsInv, AmendInv
    <3>4. \A v \in 1 .. Len(vers') - 1 : vers'[v].status = "rests"
      BY <1>8, <3>3
    <3>5. \A v \in 2 .. Len(vers') : vers'[v].status = "rests" =>
            \E n \in 1 .. Len(audit) : audit[n].ver >= v - 1
      <4>1. ASSUME NEW v \in 2 .. Len(vers'), vers'[v].status = "rests"
            PROVE  \E n \in 1 .. Len(audit) : audit[n].ver >= v - 1
        <5>1. CASE v \in 2 .. Len(vers)
          BY <1>8, <4>1, <5>1 DEF StopsInv, AmendInv
        <5>2. CASE v = Len(vers) + 1
          BY <1>8, <3>2, <5>2
        <5>. QED  BY <1>8, <5>1, <5>2
      <4>. QED  BY <4>1
    <3>. QED  BY <1>7, <3>4, <3>5 DEF AmendInv
  <2>. QED  BY <2>1, <2>2
<1>11. Len(vers') >= Len(vers) /\ Now' >= Now
  BY <1>1, <1>6, <1>8
<1>. QED  BY <1>6, <1>7, <1>8, <1>9, <1>10, <1>11, StopsVenue

LEMMA StopsEnd ==
  ASSUME StopsInv, End
  PROVE  StopsInv'
<1>1. Rests /\ UNCHANGED <<hist, bot, audit>> /\ OrderInv'
  BY OrderEnd DEF End, StopsInv
<1>2. Len(vers) \in Nat /\ vers # <<>> /\ Newest \in Version
  BY <1>1 DEF Rests, Newest, StopsInv, OrderInv, VersInv
<1>3. PICK status \in {"fired", "gone"} : vers' = Append(vers, [Newest EXCEPT !.status = status])
  BY DEF End
<1>4. PICK new : new = [Newest EXCEPT !.status = status]
  OBVIOUS
<1>5. new \in Version /\ new.status # "rests"
  BY <1>2, <1>4 DEF Version
<1>6. /\ Len(vers') = Len(vers) + 1 /\ vers'[Len(vers) + 1] = new
      /\ \A v \in 1 .. Len(vers) : vers'[v] = vers[v]
  BY <1>3, <1>4, <1>5, VersGrow DEF StopsInv, OrderInv
<1>7. \A v \in 1 .. Len(vers) : vers[v].status = "rests"
  BY <1>1, <1>2 DEF Rests, Newest, StopsInv, AmendInv
<1>8. \A v \in 1 .. Len(vers') - 1 : vers'[v].status = "rests"
  BY <1>2, <1>6, <1>7
<1>9. \A v \in 2 .. Len(vers') : vers'[v].status = "rests" =>
        \E n \in 1 .. Len(audit) : audit[n].ver >= v - 1
  <2>1. ASSUME NEW v \in 2 .. Len(vers'), vers'[v].status = "rests"
        PROVE  \E n \in 1 .. Len(audit) : audit[n].ver >= v - 1
    <3>1. v # Len(vers) + 1
      BY <1>5, <1>6, <2>1
    <3>2. v \in 2 .. Len(vers)
      BY <1>2, <1>6, <3>1
    <3>. QED  BY <1>6, <2>1, <3>2 DEF StopsInv, AmendInv
  <2>. QED  BY <2>1
<1>10. AmendInv'
  BY <1>1, <1>8, <1>9 DEF AmendInv
<1>11. /\ Len(vers') >= Len(vers) /\ Now' >= Now /\ \A i \in 1 .. Now : hist'[i] = hist[i]
  BY <1>1, <1>2, <1>6 DEF Now, StopsInv, OrderInv, HistInv
<1>. QED  BY <1>1, <1>6, <1>10, <1>11, StopsVenue

\* What a step of the process has to leave behind.
LEMMA StopsStep ==
  ASSUME StopsInv, OrderInv', UNCHANGED <<hist, vers>>, WaitInv(bot'),
         \/ audit' = audit
         \/ \E e \in Entry : audit' = Append(audit, e) /\ Sound(e)
  PROVE  StopsInv'
<1>1. audit \in Seq(Entry) /\ Len(audit) \in Nat
  BY DEF StopsInv, OrderInv, VersInv
<1>2. /\ Len(audit') >= Len(audit) /\ Len(audit') \in Nat
      /\ \A n \in 1 .. Len(audit) : audit'[n] = audit[n]
      /\ \A n \in 1 .. Len(audit') : \E e : e = audit'[n] /\ Sound(e)
  <2>1. CASE audit' = audit
    BY <1>1, <2>1 DEF StopsInv
  <2>2. CASE \E e \in Entry : audit' = Append(audit, e) /\ Sound(e)
    <3>1. PICK e \in Entry : audit' = Append(audit, e) /\ Sound(e)
      BY <2>2
    <3>2. /\ Len(audit') = Len(audit) + 1 /\ audit'[Len(audit) + 1] = e
          /\ \A n \in 1 .. Len(audit) : audit'[n] = audit[n]
      BY <1>1, <3>1
    <3>. QED  BY <1>1, <3>1, <3>2 DEF StopsInv
  <2>. QED  BY <2>1, <2>2
<1>3. AmendInv'
  <2>1. ASSUME NEW v \in 2 .. Len(vers), vers[v].status = "rests"
        PROVE  \E n \in 1 .. Len(audit') : audit'[n].ver >= v - 1
    <3>1. PICK n \in 1 .. Len(audit) : audit[n].ver >= v - 1
      BY <2>1 DEF StopsInv, AmendInv
    <3>2. n \in 1 .. Len(audit') /\ audit'[n] = audit[n]
      BY <1>1, <1>2
    <3>. QED  BY <3>1, <3>2
  <2>. QED  BY <2>1 DEF StopsInv, AmendInv
<1>4. WaitInv(bot)'
  BY DEF WaitInv, Now, NoExec, Execs, IsExec
<1>5. \A n \in 1 .. Len(audit') : Sound(audit[n])'
  BY <1>2 DEF Sound, ForeignAt, Now
<1>. QED  BY <1>3, <1>4, <1>5 DEF StopsInv

\* The order that waits is judged, or waits on.
LEMMA StopsJudge ==
  ASSUME StopsInv, OrderInv', UNCHANGED <<hist, vers>>, NEW B, BotInv(B), WaitInv(B),
         B.pend.ver # None => B.pend.ver \in 1 .. Len(vers) /\ Fresh(B.pend.ver),
         Judge(B)
  PROVE  StopsInv'
<1>1. HistInv
  BY DEF StopsInv, OrderInv
<1>2. CASE bot' = B /\ audit' = audit
  BY <1>2, StopsStep
<1>3. CASE bot' = [B EXCEPT !.pend = NotPending]
  <2>1. bot'.pend.ver = None
    BY <1>3 DEF BotInv, Process, NotPending
  <2>2. WaitInv(bot')
    BY <2>1 DEF WaitInv
  <2>3. CASE audit' = audit
    BY <2>2, <2>3, StopsStep
  <2>4. CASE audit' # audit
    <3>1. /\ B.pend.ver # None /\ Held(B) > 0
          /\ \E e \in Entry :
                /\ audit' = Append(audit, e)
                /\ e.ver = B.pend.ver /\ e.start = B.start /\ e.doubt = Doubt(B)
                /\ e.verdict = Verdict(B, vers[e.ver].qty, CreatedAt(e.ver, audit # <<>>))
      BY <1>1, <2>4, JudgeLeaves
    <3>2. PICK e \in Entry :
            /\ audit' = Append(audit, e)
            /\ e.ver = B.pend.ver /\ e.start = B.start /\ e.doubt = Doubt(B)
            /\ e.verdict = Verdict(B, vers[e.ver].qty, CreatedAt(e.ver, audit # <<>>))
      BY <3>1
    <3>3. e.ver \in 1 .. Len(vers) /\ Fresh(e.ver) /\ vers[e.ver].status = "rests"
      BY <3>1, <3>2 DEF WaitInv
    <3>4. CreatedAt(e.ver, audit # <<>>) = vers[e.ver].at
      BY <3>3, NewestWaits
    <3>5. Sound(e)
      BY <3>1, <3>2, <3>3, <3>4, VerdictIsSound
    <3>. QED  BY <2>2, <3>2, <3>5, StopsStep
  <2>. QED  BY <2>3, <2>4
<1>. QED  BY <1>1, <1>2, <1>3, JudgeLeaves

\* What waits is a version of the order that is newer than all that were judged.
LEMMA WaitingIsFresh ==
  ASSUME StopsInv, bot.pend.ver # None
  PROVE  bot.pend \in Waiting /\ bot.pend.ver \in 1 .. Len(vers) /\ Fresh(bot.pend.ver)
<1>1. bot.pend \in Waiting
  BY DEF StopsInv, OrderInv, BotInv, Process, NotPending
<1>. QED  BY <1>1, ShownBefore DEF Waiting, StopsInv, OrderInv, SeenInv, Shown

LEMMA StopsObserve ==
  ASSUME StopsInv, OrderInv', UNCHANGED <<hist, vers>>,
         NEW ver \in 1 .. Len(vers), vers[ver].status = "rests",
         \A n \in 1 .. Len(audit) : audit[n].ver <= ver,
         Observe(bot, ver)
  PROVE  StopsInv'
<1>. DEFINE p == IF bot.pend = NotPending THEN FirstSeen(ver) ELSE [bot.pend EXCEPT !.ver = ver]
            B == [bot EXCEPT !.pend = p]
<1>1. CASE Unjudged(ver)
  <2>1. Fresh(ver) /\ ver \in Nat \ {0}
    BY <1>1, UnjudgedIsFresh, ShownBefore DEF StopsInv
  <2>2. bot.pend \in {NotPending} \cup Waiting /\ bot \in Process /\ Now \in Nat
    BY DEF StopsInv, OrderInv, BotInv, Process, HistInv, Now
  <2>3. /\ p \in Waiting /\ p.ver = ver /\ vers[ver].at <= p.seen /\ p.seen <= Now
        /\ p.age # "fresh" /\ ~bot.hold => NoExec(bot.known, p.seen)
    <3>1. CASE bot.pend = NotPending
      <4>1. p = FirstSeen(ver) /\ vers[ver].at <= Now
        BY <3>1 DEF StopsInv, OrderInv, VersInv, HistInv, Now
      <4>. QED  BY <2>1, <2>2, <4>1 DEF FirstSeen, Waiting, Ages
    <3>2. CASE bot.pend \in Waiting
      <4>1. bot.pend.ver # None /\ bot.pend # NotPending
        BY <3>2 DEF Waiting, None, NotPending
      <4>2. bot.pend.ver = ver
        <5>1. vers[bot.pend.ver].status = "rests"
          BY <4>1 DEF StopsInv, WaitInv
        <5>. QED  BY <2>1, <4>1, <5>1, WaitingIsFresh, NewestWaits
      <4>3. p = [bot.pend EXCEPT !.ver = ver]
        BY <4>1
      <4>4. p \in Waiting /\ p.ver = ver /\ p.seen = bot.pend.seen /\ p.age = bot.pend.age
        BY <2>1, <3>2, <4>3 DEF Waiting
      <4>. QED  BY <4>1, <4>2, <4>4 DEF StopsInv, WaitInv
    <3>. QED  BY <2>2, <3>1, <3>2
  <2>4. BotInv(B)
    BY <2>3, PendAlone DEF StopsInv, OrderInv
  <2>5. B.pend = p /\ B.hold = bot.hold /\ B.known = bot.known
    BY <2>2 DEF Process
  <2>6. B = [bot EXCEPT !.pend = IF @ = NotPending THEN FirstSeen(ver)
                                  ELSE [@ EXCEPT !.ver = ver]]
    OBVIOUS
  <2>. HIDE DEF p, B
  <2>7. Judge(B)
    BY <1>1, <2>6 DEF Observe
  <2>8. WaitInv(B)
    BY <2>3, <2>5 DEF WaitInv
  <2>. QED  BY <2>1, <2>3, <2>4, <2>5, <2>7, <2>8, StopsJudge
<1>2. CASE ~Unjudged(ver)
  <2>1. bot' = bot /\ audit' = audit
    BY <1>2 DEF Observe
  <2>2. WaitInv(bot')
    BY <2>1 DEF StopsInv
  <2>. QED  BY <2>1, <2>2, StopsStep
<1>. QED  BY <1>1, <1>2

LEMMA StopsWithdraw ==
  ASSUME StopsInv, OrderInv', UNCHANGED <<hist, vers>>, NEW status, Withdraw(bot, status)
  PROVE  StopsInv'
<1>1. bot' = [bot EXCEPT !.pend = NotPending]
  BY DEF Withdraw
<1>2. bot'.pend.ver = None
  BY <1>1 DEF StopsInv, OrderInv, BotInv, Process, NotPending
<1>3. WaitInv(bot')
  BY <1>2 DEF WaitInv
<1>4. CASE audit' = audit
  BY <1>3, <1>4, StopsStep
<1>5. CASE audit' # audit
  <2>1. PICK e : e = [ver |-> bot.pend.ver, verdict |-> "unproven", start |-> bot.start,
                      doubt |-> Doubt(bot)]
    OBVIOUS
  <2>2. audit' = Append(audit, e) /\ bot.pend # NotPending
    BY <1>5, <2>1 DEF Withdraw
  <2>3. /\ bot.pend.ver \in Nat /\ bot.pend.ver # 0
        /\ bot.start \in Nat /\ Doubt(bot) \in Nat
    BY <2>2, LedgerTypes DEF StopsInv, OrderInv, BotInv, Process, Waiting
  <2>4. e \in Entry /\ e.verdict = "unproven"
    BY <2>1, <2>3 DEF Entry, VerdictNames
  <2>5. Sound(e)
    BY <2>4 DEF Sound
  <2>. QED  BY <1>3, <2>2, <2>4, <2>5, StopsStep
<1>. QED  BY <1>4, <1>5

\* The process knows more than before, and waits for the same order by the same terms.
LEMMA StopsLearns ==
  ASSUME StopsInv, OrderInv', UNCHANGED <<hist, vers>>, NEW B, BotInv(B),
         B.pend.ver = bot.pend.ver,
         B.pend.ver # None =>
            /\ B.pend.seen = bot.pend.seen /\ B.hold = bot.hold
            /\ B.known >= bot.known
            /\ B.pend.age = bot.pend.age \/ bot.hold \/ NoExec(bot.known, bot.pend.seen),
         Judge(B)
  PROVE  StopsInv'
<1>1. B.pend.ver # None => B.pend.ver \in 1 .. Len(vers) /\ Fresh(B.pend.ver)
  BY WaitingIsFresh
<1>2. WaitInv(B)
  <2>1. SUFFICES ASSUME B.pend.ver # None
                 PROVE  /\ vers[B.pend.ver].status = "rests"
                        /\ vers[B.pend.ver].at <= B.pend.seen /\ B.pend.seen <= Now
                        /\ B.pend.age # "fresh" /\ ~B.hold => NoExec(B.known, B.pend.seen)
    BY DEF WaitInv
  <2>2. /\ bot.known \in Int /\ B.known \in Int /\ bot.pend.seen \in Int
    BY <2>1, WaitingIsFresh DEF Waiting, BotInv, StopsInv, OrderInv
  <2>3. NoExec(bot.known, bot.pend.seen) => NoExec(B.known, bot.pend.seen)
    BY <2>1, <2>2, NoExecParts
  <2>. QED  BY <2>1, <2>3 DEF StopsInv, WaitInv
<1>. QED  BY <1>1, <1>2, StopsJudge

LEMMA StopsExecution ==
  ASSUME StopsInv, OrderInv', Execution
  PROVE  StopsInv'
<1>1. PICK seq : seq = Min(Execs(bot.known, Now))
  OBVIOUS
<1>2. bot.known \in Nat /\ Now \in Nat /\ bot.known >= 1 /\ HistInv /\ BotInv(bot)
  BY DEF StopsInv, OrderInv, BotInv, HistInv, Now
<1>3. seq \in Execs(bot.known, Now)
  BY <1>1, <1>2, FirstUnknown DEF Execution
<1>4. seq \in 1 .. Now /\ bot.known < seq
  BY <1>2, <1>3 DEF Execs
<1>5. PICK B : B = Book(bot, seq)
  OBVIOUS
<1>6. /\ BotInv(B) /\ B.pend = bot.pend /\ B.known = seq /\ B.hold = bot.hold
  BY <1>2, <1>4, <1>5, BookKeeps
<1>7. Judge(B) /\ UNCHANGED <<hist, vers>> /\ B.known >= bot.known
  BY <1>1, <1>2, <1>4, <1>5, <1>6 DEF Execution
<1>. QED  BY <1>6, <1>7, StopsLearns

LEMMA StopsView ==
  ASSUME StopsInv, OrderInv', PositionView
  PROVE  StopsInv'
<1>1. PICK seq \in {bot.view} \union Execs(bot.view, Now), after \in BOOLEAN :
        Judge(LedgerAdvance(SeenView(bot, seq, after)))
  BY DEF PositionView
<1>2. HistInv /\ BotInv(bot) /\ bot.known \in Nat
  BY DEF StopsInv, OrderInv, BotInv, HistInv, Now
<1>3. seq \in bot.view .. Now
  BY <1>1, <1>2 DEF Execs, BotInv, HistInv, Now
<1>4. PICK S, B : S = SeenView(bot, seq, after) /\ B = LedgerAdvance(S)
  OBVIOUS
<1>5. /\ BotInv(S) /\ S.known = bot.known /\ S.hold = bot.hold
      /\ S.pend.ver = bot.pend.ver
      /\ S.pend = IF bot.pend = NotPending THEN bot.pend ELSE [bot.pend EXCEPT !.viewed = after]
  BY <1>2, <1>3, <1>4, ViewKeeps
<1>6. BotInv(B) /\ B.pend = S.pend /\ B.known = S.known /\ B.hold = S.hold
  BY <1>2, <1>4, <1>5, AdvanceKeeps
<1>7. B.pend.ver # None => B.pend.seen = bot.pend.seen /\ B.pend.age = bot.pend.age
  <2>1. CASE bot.pend.ver = None
    BY <1>5, <1>6, <2>1
  <2>2. CASE bot.pend.ver # None
    BY <1>5, <1>6, <2>2, WaitingIsFresh DEF Waiting
  <2>. QED  BY <2>1, <2>2
<1>8. UNCHANGED <<hist, vers>> /\ Judge(B) /\ B.known >= bot.known
  BY <1>1, <1>2, <1>4, <1>5, <1>6 DEF PositionView
<1>. QED  BY <1>5, <1>6, <1>7, <1>8, StopsLearns

LEMMA StopsTimePasses ==
  ASSUME StopsInv, OrderInv', TimePasses
  PROVE  StopsInv'
<1>1. PICK B : B = [bot EXCEPT !.pend.age = Later(@)]
  OBVIOUS
<1>2. bot.pend # NotPending /\ BotInv(bot) /\ bot.pend \in Waiting /\ bot.known \in Nat
  BY DEF TimePasses, StopsInv, OrderInv, BotInv, Process, HistInv, Now
<1>3. /\ BotInv(B) /\ B.pend = [bot.pend EXCEPT !.age = Later(@)]
      /\ B.pend.ver = bot.pend.ver /\ B.known = bot.known /\ B.hold = bot.hold
  BY <1>1, <1>2, AgeKeeps DEF TimePasses
<1>4. B.pend.seen = bot.pend.seen
  BY <1>2, <1>3 DEF Waiting
<1>5. bot.hold \/ NoExec(bot.known, bot.pend.seen)
  BY DEF TimePasses, Delivered
<1>6. Judge(B) /\ UNCHANGED <<hist, vers>> /\ B.known >= bot.known
  BY <1>1, <1>2, <1>3 DEF TimePasses
<1>. QED  BY <1>3, <1>4, <1>5, <1>6, StopsLearns

LEMMA StopsOrderPush ==
  ASSUME StopsInv, OrderInv', OrderPush
  PROVE  StopsInv'
<1>1. pushed' = pushed + 1 /\ pushed < Len(vers) /\ UNCHANGED <<hist, vers>>
  BY DEF OrderPush
<1>2. PICK ver : ver = pushed'
  OBVIOUS
<1>3. ver \in 1 .. Len(vers) /\ \A n \in 1 .. Len(audit) : audit[n].ver <= ver
  BY <1>1, <1>2, ShownBefore DEF Shown, StopsInv
<1>4. \/ vers[ver].status = "rests" /\ Observe(bot, ver)
      \/ Withdraw(bot, vers[ver].status)
  BY <1>2 DEF OrderPush
<1>. QED  BY <1>1, <1>3, <1>4, StopsObserve, StopsWithdraw

LEMMA StopsReadOrders ==
  ASSUME StopsInv, OrderInv', Beyond = {}, ReadOrders
  PROVE  StopsInv'
<1>1. read.on /\ UNCHANGED <<hist, vers>>
  BY DEF ReadOrders
<1>2. PICK ver \in read.from .. Len(vers) :
        /\ ver \in pushed .. pushed + 1
        /\ \/ ver # None /\ vers[ver].status = "rests" /\ Observe(bot, ver)
           \/ Withdraw(bot, "gone")
           \/ UNCHANGED <<bot, audit>>
  BY DEF ReadOrders
<1>3. CASE UNCHANGED <<bot, audit>>
  BY <1>1, <1>3, StopsStep DEF StopsInv
<1>4. CASE ver # None /\ vers[ver].status = "rests" /\ Observe(bot, ver)
  <2>1. ver \in 1 .. Len(vers) /\ \A n \in 1 .. Len(audit) : audit[n].ver <= ver
    BY <1>1, <1>2, <1>4, ShownBefore DEF Shown, StopsInv, None
  <2>. QED  BY <1>1, <1>4, <2>1, StopsObserve
<1>. QED  BY <1>1, <1>2, <1>3, <1>4, StopsWithdraw

LEMMA StopsRest ==
  ASSUME StopsInv, OrderInv',
         StartRead \/ GiveUp \/ Settle \/ Outage \/ LostPush \/ LiftHold \/ Restart
  PROVE  StopsInv'
<1>1. bot \in Process /\ BotInv(bot) /\ HistInv /\ Now \in Nat
  BY DEF StopsInv, OrderInv, BotInv, HistInv, Now
<1>2. UNCHANGED <<hist, vers, audit>>
  BY DEF StartRead, GiveUp, Settle, Outage, LostPush, LiftHold, Restart
<1>3. CASE StartRead
  <2>1. CASE bot' = bot
    BY <1>2, <2>1, StopsStep DEF StopsInv
  <2>2. CASE bot.pend # NotPending /\ bot' = [bot EXCEPT !.pend.reread = TRUE]
    <3>1. bot.pend \in Waiting
      BY <1>1, <2>2 DEF Process
    <3>2. /\ bot'.pend.ver = bot.pend.ver /\ bot'.pend.seen = bot.pend.seen
          /\ bot'.pend.age = bot.pend.age /\ bot'.hold = bot.hold /\ bot'.known = bot.known
      BY <1>1, <2>2, <3>1 DEF Process, Waiting
    <3>3. WaitInv(bot')
      BY <3>2 DEF StopsInv, WaitInv
    <3>. QED  BY <1>2, <3>3, StopsStep
  <2>. QED  BY <1>3, <2>1, <2>2 DEF StartRead
<1>4. CASE GiveUp \/ Settle \/ LostPush
  <2>1. /\ bot'.pend = bot.pend /\ bot'.hold = bot.hold /\ bot'.known = bot.known
    <3>1. CASE GiveUp
      <4>1. PICK over : bot' = [bot EXCEPT !.doubt = @ + 1, !.over = over]
        BY <3>1 DEF GiveUp
      <4>. QED  BY <1>1, <4>1 DEF Process
    <3>2. CASE Settle
      BY <1>1, <3>2 DEF Settle, Process
    <3>3. CASE LostPush
      BY <3>3 DEF LostPush
    <3>. QED  BY <1>4, <3>1, <3>2, <3>3
  <2>2. WaitInv(bot')
    BY <2>1 DEF StopsInv, WaitInv
  <2>. QED  BY <1>2, <2>2, StopsStep
<1>5. CASE Outage
  <2>1. bot'.pend = bot.pend /\ bot'.hold = TRUE
    BY <1>1, <1>5 DEF Outage, Process
  <2>2. WaitInv(bot')
    BY <2>1 DEF StopsInv, WaitInv
  <2>. QED  BY <1>2, <2>2, StopsStep
<1>6. CASE LiftHold
  <2>1. bot'.pend = bot.pend /\ bot'.known = bot.known /\ NoExec(bot.known, Now)
    BY <1>1, <1>6 DEF LiftHold, Process
  <2>2. bot.pend.ver # None => NoExec(bot.known, bot.pend.seen)
    <3>1. bot.known \in Int
      BY <1>1 DEF Process
    <3>2. bot.pend.ver # None => bot.pend.seen \in Int /\ bot.pend.seen <= Now
      BY WaitingIsFresh DEF Waiting, StopsInv, WaitInv
    <3>. QED  BY <1>1, <2>1, <3>1, <3>2, NoExecParts
  <2>3. WaitInv(bot')
    BY <2>1, <2>2 DEF StopsInv, WaitInv
  <2>. QED  BY <1>2, <2>3, StopsStep
<1>7. CASE Restart
  <2>1. bot'.pend.ver = None
    BY <1>1, <1>7, AdoptedFits DEF Restart
  <2>2. WaitInv(bot')
    BY <2>1 DEF WaitInv
  <2>. QED  BY <1>2, <2>2, StopsStep
<1>. QED  BY <1>3, <1>4, <1>5, <1>6, <1>7

LEMMA StopsNext ==
  ASSUME StopsInv, Beyond = {}, [Next]_vars
  PROVE  StopsInv'
<1>1. OrderInv'
  BY OrderNext DEF StopsInv
<1>2. CASE Venue
  BY <1>2, StopsExecute, StopsAmend, StopsEnd DEF Venue
<1>3. CASE Plugin
  BY <1>1, <1>3, StopsOrderPush, StopsReadOrders, StopsExecution, StopsView, StopsTimePasses,
     StopsRest DEF Plugin
<1>4. CASE UNCHANGED vars
  BY <1>1, <1>4, StopsStep DEF vars, StopsInv
<1>. QED  BY <1>2, <1>3, <1>4 DEF Next

LEMMA SoundVerdicts ==
  ASSUME StopsInv
  PROVE  NoFalseReport /\ NoMissedReport /\ PreexistingIsOlder
<1>1. DOMAIN audit = 1 .. Len(audit)
  BY DEF StopsInv, OrderInv, VersInv
<1>. QED  BY <1>1 DEF StopsInv, Sound, NoFalseReport, NoMissedReport, PreexistingIsOlder,
          Verdicts, Since

\* The inductive invariant: the log, what the process knows of it, the versions of the order,
\* the order that waits, and the record.
THEOREM StopsInvariant ==
  ASSUME Beyond = {}
  PROVE  Spec => []StopsInv
<1>1. StopsInv /\ [Next]_vars => StopsInv'
  BY StopsNext
<1>. QED  BY <1>1, StopsStart, PTL DEF Spec

\* An order is reported as an intervention only if it covered a share the run held, or
\* could not rule out, at some time between its terms and the verdict.
THEOREM ReportsAreTrue ==
  ASSUME Beyond = {}
  PROVE  Spec => []NoFalseReport
BY StopsInvariant, SoundVerdicts, PTL

\* An order is passed as somebody else's only if there was foreign exposure for all of it
\* at some time between its terms and the verdict.
THEOREM PassedIsForeign ==
  ASSUME Beyond = {}
  PROVE  Spec => []NoMissedReport
BY StopsInvariant, SoundVerdicts, PTL

\* An order is passed as older than the run's share only if the terms that were judged are.
THEOREM PassedIsOlder ==
  ASSUME Beyond = {}
  PROVE  Spec => []PreexistingIsOlder
BY StopsInvariant, SoundVerdicts, PTL

\* Types of the process state around the verdict.
THEOREM StopsTypeCorrect ==
  ASSUME "slow" \notin Beyond
  PROVE  Spec => []TypeOK
<1>1. OrderInv => TypeOK
  <2>1. OrderInv => Now \in Nat
    BY DEF OrderInv, HistInv, Now
  <2>. QED  BY <2>1, ShownBefore DEF OrderInv, BotInv, Process, TypeOK
<1>2. OrderInv /\ [Next]_vars => OrderInv'
  BY OrderNext
<1>. QED  BY <1>1, <1>2, OrderStart, PTL DEF Spec
================================================================================
