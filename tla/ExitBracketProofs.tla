--------------------------- MODULE ExitBracketProofs ---------------------------
(***************************************************************************)
(* Every order of an exit that rests is found through the journal, a       *)
(* bracket placed again under fresh ids stands alone, the defensive close  *)
(* leaves nothing open, a bracket that is returned is whole, and what is   *)
(* said of a cancel is true: for every size, any number of generations,    *)
(* changes and faults.                                                     *)
(***************************************************************************)
EXTENDS ExitBracket, TLAPS

(***************************************************************************)
(* The inductive invariant                                                 *)
(***************************************************************************)
\* The types the argument needs.
Shape ==
    /\ status \in [Orders -> {"none", "live", "filled", "dead"}]
    /\ exec \in [Orders -> Nat]
    /\ doomed \subseteq Orders /\ wire \subseteq Orders /\ open \subseteq Orders
    /\ gen \in 1 .. MaxIds /\ shape \subseteq Legs /\ placed \subseteq Legs
    /\ todo \subseteq Orders

\* The call is between its first leg and its last.
Placing == pc \in {"place", "posted"}

RollingBack == pc \in {"rollback", "reread", "recancel", "confirm"}

\* Only a parked leg may still land, only orders that rest are to end, and no order has
\* an id of an envelope to come.
VenueInv ==
    /\ \A o \in wire : status[o] = "none" /\ o[2] = gen /\ pc = "parked"
    /\ \A o \in doomed : Live(o)
    /\ \A o \in Orders : o[2] > gen => status[o] = "none"

\* A leg is placed behind its row; the row of one that rests is opened again only when
\* its cancel was accepted.
PostInv ==
    pc = "posted" =>
        /\ ~Whole
        /\ status[Current] = "none" => Current \in open
        /\ reopened /\ Live(Current) => Current \in doomed

\* The tp goes first, so what is to be rolled back is the tp.
CallInv ==
    /\ Placing => placed \subseteq shape /\ ("sl" \in placed /\ "tp" \in shape => "tp" \in placed)
    /\ RollingBack => placed = {"tp"}

\* What rests under an id of this envelope was placed by the call, or is to end.
AloneInv ==
    /\ Placing \/ RollingBack \/ pc = "spent" =>
          \A o \in Orders : o[2] = gen /\ Live(o) => o \in doomed \/ o[1] \in placed
    /\ pc = "recreate" => \A o \in Orders : Live(o) => o \in doomed \/ o \in todo

BracketInv ==
    /\ Shape /\ VenueInv /\ PostInv /\ CallInv /\ AloneInv
    /\ Traceable /\ FreshBracketAlone

-----------------------------------------------------------------------------
(***************************************************************************)
(* Lemmas                                                                  *)
(***************************************************************************)
LEMMA CurrentOrder ==
  ASSUME Shape
  PROVE  /\ Current \in Orders /\ Current[1] = NextLeg /\ Current[2] = gen
         /\ Sibling \in Orders /\ Sibling[1] = "tp" /\ Sibling[2] = gen
         /\ \A o \in Orders : o[1] \in Legs /\ o[2] \in 1 .. MaxIds /\ o = <<o[1], o[2]>>
BY DEF Shape, Current, NextLeg, Sibling, Orders, Legs

LEMMA BracketStart ==
  ASSUME Init
  PROVE  BracketInv
<1>1. Shape
  BY BracketAssumption DEF Init, Shape
<1>2. VenueInv /\ PostInv /\ CallInv /\ AloneInv
  BY DEF Init, VenueInv, PostInv, CallInv, AloneInv, Live, Placing, RollingBack
<1>3. Traceable /\ FreshBracketAlone
  BY DEF Init, Traceable, FreshBracketAlone, Live
<1>. QED  BY <1>1, <1>2, <1>3 DEF BracketInv

\* An order that rests ends (Dies, and the last unit of Fill), or fills on.
LEMMA OrderEnds ==
  ASSUME BracketInv, NEW o \in Orders, Live(o),
         \/ status' = status /\ doomed' = doomed
         \/ \E end \in {"dead", "filled"} :
               status' = [status EXCEPT ![o] = end] /\ doomed' = doomed \ {o},
         exec' \in [Orders -> Nat], \A q \in Orders \ {o} : exec'[q] = exec[q],
         UNCHANGED <<wire, open, gen, shape, placed, todo, pc, reopened>>
  PROVE  BracketInv'
<1>. USE DEF BracketInv
<1>1. /\ status' \in [Orders -> {"none", "live", "filled", "dead"}]
      /\ doomed' \subseteq doomed /\ \A q \in Orders : status'[q] = "none" <=> status[q] = "none"
      /\ \A q \in Orders : Live(q)' => Live(q) /\ (q \in doomed => q \in doomed')
      /\ \A q \in doomed' : Live(q)'
      /\ \A q \in Orders \ {o} : status'[q] = status[q]
  BY DEF Shape, VenueInv, Live
<1>2. Shape'
  BY <1>1 DEF Shape
<1>3. VenueInv'
  BY <1>1 DEF VenueInv, Shape
<1>4. UNCHANGED <<Current, NextLeg, Whole>>
  BY DEF Current, NextLeg, Whole
<1>5. PostInv'
  BY <1>1, <1>4, CurrentOrder DEF PostInv
<1>6. CallInv'
  BY DEF CallInv, Placing, RollingBack
<1>7. AloneInv'
  BY <1>1 DEF AloneInv, Placing, RollingBack
<1>8. Traceable'
  <2>1. \A q \in wire : q \notin doomed
    BY DEF VenueInv, Live
  <2>2. \A q \in Orders : Live(q) \/ q \in wire => q \in open \cup doomed
    BY DEF Traceable
  <2>. QED  BY <1>1, <2>1, <2>2 DEF Traceable
<1>9. FreshBracketAlone'
  <2>1. ASSUME pc = "spent", NEW leg \in placed
        PROVE  status'[<<leg, gen>>] = "dead" /\ exec'[<<leg, gen>>] = 0
    <3>1. status[<<leg, gen>>] = "dead" /\ exec[<<leg, gen>>] = 0
      BY <2>1 DEF FreshBracketAlone
    <3>2. <<leg, gen>> \in Orders /\ <<leg, gen>> # o
      BY <3>1 DEF Shape, Orders, Live
    <3>. QED  BY <1>1, <3>1, <3>2
  <2>2. \A q \in Orders : q[2] < gen /\ Live(q)' => q \in doomed'
    BY <1>1 DEF FreshBracketAlone
  <2>. QED  BY <2>1, <2>2 DEF FreshBracketAlone
<1>. QED  BY <1>2, <1>3, <1>5, <1>6, <1>7, <1>8, <1>9

\* A step of the plugin that creates no order: cancels may be accepted, and the rows it
\* closes are not those of orders that may still land or rest without an accepted cancel.
LEMMA NothingCreated ==
  ASSUME BracketInv, UNCHANGED <<status, exec, wire, gen>>,
         doomed \subseteq doomed', doomed' \subseteq Orders, \A o \in doomed' : Live(o),
         open' \subseteq Orders, todo' \subseteq Orders, shape' \subseteq Legs,
         placed' \subseteq Legs,
         \A o \in open \ open' : o \notin wire /\ (Live(o) => o \in doomed'),
         pc = "parked" => pc' = "parked"
  PROVE  /\ Shape' /\ VenueInv' /\ Traceable'
         /\ \A o \in Orders : o[2] < gen' /\ Live(o)' => o \in doomed'
         /\ \A o \in Orders : Live(o)' <=> Live(o)
<1>. USE DEF BracketInv
<1>1. \A o \in Orders : Live(o)' <=> Live(o)
  BY DEF Live
<1>2. Shape'
  BY DEF Shape
<1>3. VenueInv'
  BY <1>1, <1>2 DEF VenueInv, Shape
<1>4. Traceable'
  <2>1. ASSUME NEW o \in Orders, Live(o) \/ o \in wire
        PROVE  o \in open' \cup doomed'
    <3>1. o \in open \cup doomed
      BY <2>1 DEF Traceable
    <3>2. o \in wire => status[o] = "none"
      BY DEF VenueInv
    <3>. QED  BY <2>1, <3>1, <3>2
  <2>. QED  BY <1>1, <2>1 DEF Traceable
<1>. QED  BY <1>1, <1>2, <1>3, <1>4 DEF FreshBracketAlone

\* Such a step outside the placement of a bracket.
LEMMA OutsideCall ==
  ASSUME BracketInv, UNCHANGED <<status, exec, wire, gen>>,
         doomed \subseteq doomed', doomed' \subseteq Orders, \A o \in doomed' : Live(o),
         open' \subseteq Orders, todo' \subseteq Orders, shape' \subseteq Legs,
         placed' \subseteq Legs,
         \A o \in open \ open' : o \notin wire /\ (Live(o) => o \in doomed'),
         pc = "parked" => pc' = "parked",
         pc' \notin {"place", "posted", "rollback", "reread", "recancel", "confirm", "spent"},
         pc' = "recreate" => \A o \in Orders : Live(o) => o \in doomed' \/ o \in todo'
  PROVE  BracketInv'
<1>1. /\ Shape' /\ VenueInv' /\ Traceable'
      /\ \A o \in Orders : o[2] < gen' /\ Live(o)' => o \in doomed'
      /\ \A o \in Orders : Live(o)' <=> Live(o)
  BY NothingCreated
<1>2. PostInv' /\ CallInv'
  BY DEF PostInv, CallInv, Placing, RollingBack
<1>3. AloneInv'
  BY <1>1 DEF AloneInv, Placing, RollingBack
<1>4. FreshBracketAlone'
  BY <1>1 DEF FreshBracketAlone
<1>. QED  BY <1>1, <1>2, <1>3, <1>4 DEF BracketInv

\* Such a step that leaves the plugin where it is.
LEMMA SamePlace ==
  ASSUME BracketInv, UNCHANGED <<status, exec, wire, gen, pc, placed, shape, reopened, todo>>,
         doomed \subseteq doomed', doomed' \subseteq Orders, \A o \in doomed' : Live(o),
         open' \subseteq Orders,
         \A o \in open \ open' : status[o] # "none" /\ (Live(o) => o \in doomed')
  PROVE  BracketInv'
<1>. USE DEF BracketInv
<1>1. /\ Shape' /\ VenueInv' /\ Traceable'
      /\ \A o \in Orders : o[2] < gen' /\ Live(o)' => o \in doomed'
      /\ \A o \in Orders : Live(o)' <=> Live(o)
  <2>1. todo' \subseteq Orders /\ shape' \subseteq Legs /\ placed' \subseteq Legs
    BY DEF Shape
  <2>2. \A o \in open \ open' : o \notin wire /\ (Live(o) => o \in doomed')
    BY DEF VenueInv
  <2>. QED  BY <2>1, <2>2, NothingCreated
<1>2. UNCHANGED <<Current, NextLeg, Whole>>
  BY DEF Current, NextLeg, Whole
<1>3. PostInv'
  BY <1>1, <1>2, CurrentOrder DEF PostInv
<1>4. CallInv'
  BY DEF CallInv, Placing, RollingBack
<1>5. AloneInv'
  BY <1>1 DEF AloneInv, Placing, RollingBack
<1>6. FreshBracketAlone'
  BY <1>1 DEF FreshBracketAlone
<1>. QED  BY <1>1, <1>3, <1>4, <1>5, <1>6

-----------------------------------------------------------------------------
(***************************************************************************)
(* The steps                                                               *)
(***************************************************************************)
LEMMA VenueStep ==
  ASSUME BracketInv, NEW o \in Orders, Fill(o) \/ Kill(o) \/ VenueCancel(o) \/ LateCreate(o)
  PROVE  BracketInv'
<1>1. CASE Fill(o)
  <2>1. /\ Live(o) /\ exec' = [exec EXCEPT ![o] = @ + 1]
        /\ UNCHANGED <<wire, open, gen, shape, placed, todo, pc, reopened>>
        /\ \/ status' = status /\ doomed' = doomed
           \/ status' = [status EXCEPT ![o] = "filled"] /\ doomed' = doomed \ {o}
    BY <1>1 DEF Fill, rowVars, callVars, intentVars
  <2>2. exec' \in [Orders -> Nat] /\ \A q \in Orders \ {o} : exec'[q] = exec[q]
    BY <2>1 DEF BracketInv, Shape
  <2>. QED  BY <2>1, <2>2, OrderEnds
<1>2. CASE Kill(o) \/ VenueCancel(o)
  <2>1. /\ Live(o) /\ status' = [status EXCEPT ![o] = "dead"] /\ doomed' = doomed \ {o}
        /\ UNCHANGED <<exec, wire, open, gen, shape, placed, todo, pc, reopened>>
    BY <1>2 DEF Kill, VenueCancel, Dies, rowVars, callVars, intentVars
  <2>2. exec' \in [Orders -> Nat] /\ \A q \in Orders \ {o} : exec'[q] = exec[q]
    BY <2>1 DEF BracketInv, Shape
  <2>. QED  BY <2>1, <2>2, OrderEnds
<1>3. CASE LateCreate(o)
  <2>. USE DEF BracketInv
  <2>1. /\ o \in wire /\ wire' = wire \ {o} /\ pc = "parked" /\ status[o] = "none"
        /\ o[2] = gen
        /\ status' = status \/ status' = [status EXCEPT ![o] = "live"]
        /\ UNCHANGED <<exec, doomed, open, gen, shape, placed, todo, pc, reopened>>
    BY <1>3 DEF LateCreate, VenueInv, rowVars, callVars, intentVars
  <2>2. /\ status' \in [Orders -> {"none", "live", "filled", "dead"}]
        /\ \A q \in Orders \ {o} : status'[q] = status[q]
        /\ \A q \in Orders : Live(q)' => Live(q) \/ q = o
        /\ \A q \in Orders : Live(q) => Live(q)'
    BY <2>1 DEF Shape, Live
  <2>3. Shape'
    BY <2>1, <2>2 DEF Shape
  <2>4. gen \in Nat
    BY BracketAssumption DEF Shape
  <2>5. VenueInv'
    <3>1. \A q \in wire' : status'[q] = "none" /\ q[2] = gen
      BY <2>1, <2>2 DEF VenueInv, Shape
    <3>2. \A q \in doomed : Live(q)'
      BY <2>2 DEF VenueInv, Shape
    <3>3. \A q \in Orders : q[2] > gen => status'[q] = "none"
      BY <2>1, <2>2, <2>4 DEF VenueInv
    <3>. QED  BY <2>1, <3>1, <3>2, <3>3 DEF VenueInv
  <2>6. PostInv' /\ CallInv' /\ AloneInv'
    BY <2>1 DEF PostInv, CallInv, AloneInv, Placing, RollingBack
  <2>7. Traceable'
    BY <2>1, <2>2 DEF Traceable
  <2>8. FreshBracketAlone'
    BY <2>1, <2>2, <2>4 DEF FreshBracketAlone
  <2>. QED  BY <2>3, <2>5, <2>6, <2>7, <2>8
<1>. QED  BY <1>1, <1>2, <1>3

\* A push closes the row of an order that has ended.
LEMMA PushStep ==
  ASSUME BracketInv, NEW o \in Orders, CancelPush(o) \/ BookFill(o)
  PROVE  BracketInv'
<1>1. /\ open' = open \ {o} /\ status[o] \in {"dead", "filled"}
      /\ UNCHANGED <<status, exec, wire, doomed, gen, pc, placed, shape, reopened, todo>>
  BY DEF CancelPush, BookFill, CloseRow, venueVars, callVars, intentVars
<1>2. doomed \subseteq Orders /\ open \subseteq Orders /\ \A q \in doomed : Live(q)
  BY DEF BracketInv, Shape, VenueInv
<1>3. ~Live(o) /\ status[o] # "none"
  BY <1>1 DEF Live
<1>. QED  BY <1>1, <1>2, <1>3, SamePlace

\* A leg is sent behind its row (_persist_leg_row).
LEMMA SendStep ==
  ASSUME BracketInv, SendLeg
  PROVE  BracketInv'
<1>. USE DEF BracketInv
<1>1. /\ pc = "place" /\ ~Whole /\ pc' = "posted" /\ open' = open \cup {Current}
      /\ reopened' = (row[Current] # "none" /\ Current \notin open)
      /\ UNCHANGED <<status, exec, wire, doomed, gen, placed, shape, todo>>
  BY DEF SendLeg, PersistLegRow, venueVars, intentVars
<1>2. Current \in Orders
  BY CurrentOrder
<1>3. /\ Shape' /\ VenueInv' /\ Traceable'
      /\ \A o \in Orders : o[2] < gen' /\ Live(o)' => o \in doomed'
      /\ \A o \in Orders : Live(o)' <=> Live(o)
  <2>1. /\ doomed \subseteq Orders /\ open' \subseteq Orders /\ todo \subseteq Orders
        /\ shape \subseteq Legs /\ placed \subseteq Legs /\ \A o \in doomed : Live(o)
    BY <1>1, <1>2 DEF Shape, VenueInv
  <2>. QED  BY <1>1, <2>1, NothingCreated
<1>4. UNCHANGED <<Current, NextLeg, Whole>>
  BY <1>1 DEF Current, NextLeg, Whole
<1>5. PostInv'
  <2>1. reopened' /\ Live(Current) => Current \in doomed
    BY <1>1, <1>2 DEF Traceable
  <2>. QED  BY <1>1, <1>2, <1>3, <1>4, <2>1 DEF PostInv
<1>6. CallInv' /\ AloneInv'
  BY <1>1, <1>3 DEF CallInv, AloneInv, Placing, RollingBack
<1>7. FreshBracketAlone'
  BY <1>1, <1>3 DEF FreshBracketAlone
<1>. QED  BY <1>3, <1>5, <1>6, <1>7

\* The venue takes the leg, or the leg placed before under the same id is adopted.
LEMMA PlacedStep ==
  ASSUME BracketInv, LegAccepted \/ LegAdopted
  PROVE  BracketInv'
<1>. USE DEF BracketInv
<1>1. /\ pc = "posted" /\ pc' = "place" /\ placed' = placed \cup {NextLeg}
      /\ \/ status' = [status EXCEPT ![Current] = "live"] /\ status[Current] = "none"
         \/ status' = status
      /\ UNCHANGED <<exec, doomed, open, gen, shape, todo>>
      /\ wire' \subseteq wire
  BY DEF LegAccepted, LegAdopted, LegPlaced, venueVars, intentVars
<1>2. /\ Current \in Orders /\ Current[1] = NextLeg /\ Current[2] = gen
      /\ NextLeg \in Legs
  BY CurrentOrder
<1>3. wire = {} /\ wire' = {}
  BY <1>1 DEF VenueInv
<1>4. /\ status' \in [Orders -> {"none", "live", "filled", "dead"}]
      /\ \A q \in Orders \ {Current} : status'[q] = status[q]
      /\ \A q \in Orders : Live(q)' => Live(q) \/ (q = Current /\ status[q] = "none")
      /\ \A q \in Orders : Live(q) => Live(q)'
  BY <1>1, <1>2 DEF Shape, Live
<1>5. Shape'
  BY <1>1, <1>2, <1>3, <1>4 DEF Shape
<1>6. gen \in Nat
  BY BracketAssumption DEF Shape
<1>7. VenueInv'
  <2>1. \A q \in doomed : Live(q)'
    BY <1>4 DEF VenueInv, Shape
  <2>2. \A q \in Orders : q[2] > gen => status'[q] = "none"
    BY <1>2, <1>4, <1>6 DEF VenueInv
  <2>. QED  BY <1>1, <1>3, <2>1, <2>2 DEF VenueInv
<1>8. PostInv'
  BY <1>1 DEF PostInv
<1>9. CallInv'
  <2>1. /\ placed \subseteq shape /\ ("sl" \in placed /\ "tp" \in shape => "tp" \in placed)
        /\ ~Whole
    BY <1>1 DEF CallInv, PostInv, Placing
  <2>2. NextLeg \in shape /\ (NextLeg = "sl" /\ "tp" \in shape => "tp" \in placed)
    BY <2>1 DEF NextLeg, Whole, Shape, Legs
  <2>. QED  BY <1>1, <2>1, <2>2 DEF CallInv, Placing, RollingBack
<1>10. AloneInv'
  BY <1>1, <1>2, <1>4 DEF AloneInv, Placing, RollingBack
<1>11. Traceable'
  <2>1. status[Current] = "none" => Current \in open
    BY <1>1 DEF PostInv
  <2>. QED  BY <1>1, <1>3, <1>4, <2>1 DEF Traceable
<1>12. FreshBracketAlone'
  BY <1>1, <1>2, <1>4, <1>6 DEF FreshBracketAlone
<1>. QED  BY <1>5, <1>7, <1>8, <1>9, <1>10, <1>11, <1>12

\* The answer is lost: the leg may still land, and its row says so.
LEMMA UnknownStep ==
  ASSUME BracketInv, LegUnknown
  PROVE  BracketInv'
<1>. USE DEF BracketInv
<1>1. /\ pc = "posted" /\ pc' = "parked"
      /\ wire' = IF status[Current] = "none" THEN wire \cup {Current} ELSE wire
      /\ UNCHANGED <<status, exec, doomed, open, gen, placed, shape, todo>>
  BY DEF LegUnknown, callVars, intentVars
<1>2. /\ Current \in Orders /\ Current[2] = gen
      /\ status[Current] = "none" => Current \in open
  BY <1>1, CurrentOrder DEF PostInv
<1>3. Shape'
  BY <1>1, <1>2 DEF Shape
<1>4. VenueInv'
  BY <1>1, <1>2 DEF VenueInv, Live
<1>5. PostInv' /\ CallInv' /\ AloneInv'
  BY <1>1 DEF PostInv, CallInv, AloneInv, Placing, RollingBack
<1>6. Traceable'
  BY <1>1, <1>2 DEF Traceable, Live
<1>7. FreshBracketAlone'
  BY <1>1 DEF FreshBracketAlone, Live
<1>. QED  BY <1>3, <1>4, <1>5, <1>6, <1>7

\* The id of a leg is spent: the original is dead, or its cancel was accepted.
LEMMA SpentStep ==
  ASSUME BracketInv, LegSpent
  PROVE  BracketInv'
<1>. USE DEF BracketInv
<1>1. /\ pc = "posted" /\ pc' = AfterSpent /\ OriginalIsSpent(Current)
      /\ open' = open \ {Current}
      /\ UNCHANGED <<status, exec, wire, doomed, gen, placed, shape, todo>>
  BY DEF LegSpent, RejectRow, venueVars, callVars, intentVars
<1>2. /\ Current \in Orders /\ status[Current] # "none"
      /\ Live(Current) => Current \in doomed
  BY <1>1, CurrentOrder DEF OriginalIsSpent, PostInv, Live
<1>3. pc' \in {"spent", "rollback"} /\ (pc' = "spent" <=> placed = {})
  BY <1>1 DEF AfterSpent
<1>4. /\ Shape' /\ VenueInv' /\ Traceable'
      /\ \A o \in Orders : o[2] < gen' /\ Live(o)' => o \in doomed'
      /\ \A o \in Orders : Live(o)' <=> Live(o)
  <2>1. /\ doomed \subseteq Orders /\ open' \subseteq Orders /\ todo \subseteq Orders
        /\ shape \subseteq Legs /\ placed \subseteq Legs /\ \A o \in doomed : Live(o)
    BY <1>1 DEF Shape, VenueInv
  <2>2. Current \notin wire
    BY <1>2 DEF VenueInv
  <2>. QED  BY <1>1, <1>2, <2>1, <2>2, NothingCreated
<1>5. PostInv'
  BY <1>3 DEF PostInv
<1>6. CallInv'
  <2>1. /\ placed \subseteq shape /\ ("sl" \in placed /\ "tp" \in shape => "tp" \in placed)
        /\ ~Whole /\ shape \subseteq Legs
    BY <1>1 DEF CallInv, PostInv, Placing, Shape
  <2>2. placed # {} => placed = {"tp"}
    BY <2>1 DEF Whole, Legs
  <2>. QED  BY <1>1, <1>3, <2>2 DEF CallInv, Placing, RollingBack
<1>7. AloneInv'
  BY <1>1, <1>3, <1>4 DEF AloneInv, Placing, RollingBack
<1>8. FreshBracketAlone'
  BY <1>1, <1>3, <1>4 DEF FreshBracketAlone
<1>. QED  BY <1>4, <1>5, <1>6, <1>7, <1>8

\* The call returns, or a leg is refused: nothing of that leg rests.
LEMMA CallEnds ==
  ASSUME BracketInv, LegRefused \/ LegsReturned
  PROVE  BracketInv'
<1>. USE DEF BracketInv
<1>1. /\ pc # "parked" /\ pc' \in {"placed", "escalated"}
      /\ UNCHANGED <<status, exec, wire, doomed, gen, placed, shape, todo>>
      /\ \/ open' = open
         \/ open' = open \ {Current} /\ status[Current] = "none" /\ Current \notin wire
  BY DEF LegRefused, LegsReturned, RejectRow, Escalate, venueVars, rowVars, callVars, intentVars
<1>2. Shape'
  BY <1>1 DEF Shape
<1>3. VenueInv'
  BY <1>1 DEF VenueInv, Live
<1>4. PostInv' /\ CallInv' /\ AloneInv'
  BY <1>1 DEF PostInv, CallInv, AloneInv, Placing, RollingBack
<1>5. Traceable'
  BY <1>1 DEF Traceable, Live
<1>6. FreshBracketAlone'
  BY <1>1 DEF FreshBracketAlone, Live
<1>. QED  BY <1>2, <1>3, <1>4, <1>5, <1>6

\* A cancel the venue answers adds at most the order it names, when that rests.
LEMMA DoomAdds ==
  ASSUME BracketInv, NEW o \in Orders, Doom(o) \/ UNCHANGED doomed
  PROVE  /\ doomed \subseteq doomed' /\ doomed' \subseteq Orders /\ \A q \in doomed' : Live(q)
         /\ Doom(o) /\ Live(o) => o \in doomed'
BY DEF BracketInv, Shape, VenueInv, Doom

LEMMA RollbackStep ==
  ASSUME BracketInv, Rollback
  PROVE  BracketInv'
<1>. USE DEF BracketInv
<1>1. Sibling \in Orders
  BY CurrentOrder
<1>2. /\ RollingBack /\ UNCHANGED <<status, exec, wire, gen, placed, shape, reopened, todo>>
      /\ Doom(Sibling) \/ UNCHANGED doomed
      /\ \/ pc' \in {"reread", "recancel", "confirm", "escalated"} /\ UNCHANGED open
         \/ /\ pc' = "spent" /\ open' = open \ {Sibling} /\ Readback(Sibling) = "gone"
            /\ UNCHANGED doomed
  <2>1. CASE RollbackCancel
    BY <2>1 DEF RollbackCancel, RollingBack, rowVars, callVars, intentVars
  <2>2. CASE RollbackUnknown
    BY <2>2 DEF RollbackUnknown, RollingBack, Escalate, rowVars, callVars, intentVars
  <2>3. CASE RollbackQuarantined
    BY <2>3 DEF RollbackQuarantined, RollingBack, Escalate, venueVars, rowVars, callVars, intentVars
  <2>4. CASE RollbackVerdict
    BY <2>4 DEF RollbackVerdict, RollingBack, Escalate, CloseRow, venueVars, rowVars, callVars, intentVars
  <2>5. CASE RollbackUndecided
    BY <2>5 DEF RollbackUndecided, RollingBack, Unproven, Escalate, venueVars, rowVars, callVars, intentVars
  <2>. QED  BY <2>1, <2>2, <2>3, <2>4, <2>5 DEF Rollback
<1>3. Readback(Sibling) = "gone" => status[Sibling] = "dead" /\ exec[Sibling] = 0
  <2>1. exec[Sibling] \in Nat
    BY <1>1 DEF Shape
  <2>. QED  BY <2>1 DEF Readback
<1>4. /\ doomed \subseteq doomed' /\ doomed' \subseteq Orders /\ \A q \in doomed' : Live(q)
  BY <1>1, <1>2, DoomAdds
<1>5. /\ Shape' /\ VenueInv' /\ Traceable'
      /\ \A o \in Orders : o[2] < gen' /\ Live(o)' => o \in doomed'
      /\ \A o \in Orders : Live(o)' <=> Live(o)
  <2>1. /\ open' \subseteq Orders /\ todo' \subseteq Orders
        /\ shape' \subseteq Legs /\ placed' \subseteq Legs /\ pc # "parked"
    BY <1>2 DEF Shape, RollingBack
  <2>2. \A o \in open \ open' : o \notin wire /\ (Live(o) => o \in doomed')
    BY <1>2, <1>3 DEF Live, VenueInv
  <2>. QED  BY <1>2, <1>4, <2>1, <2>2, NothingCreated
<1>6. PostInv'
  BY <1>2 DEF PostInv
<1>7. CallInv'
  BY <1>2 DEF CallInv, Placing, RollingBack
<1>8. AloneInv'
  BY <1>2, <1>4, <1>5 DEF AloneInv, Placing, RollingBack
<1>9. FreshBracketAlone'
  <2>1. ASSUME pc' = "spent", NEW leg \in placed
        PROVE  status[<<leg, gen>>] = "dead" /\ exec[<<leg, gen>>] = 0
    <3>1. leg = "tp"
      BY <1>2 DEF CallInv
    <3>. QED  BY <1>2, <1>3, <2>1, <3>1 DEF Sibling
  <2>. QED  BY <1>2, <1>5, <2>1 DEF FreshBracketAlone
<1>. QED  BY <1>5, <1>6, <1>7, <1>8, <1>9

\* Everything is placed again under fresh ids: what rests of before is to end.
LEMMA FreshIds ==
  ASSUME BracketInv, Reanchor \/ NewTrade
  PROVE  BracketInv'
<1>. USE DEF BracketInv
<1>1. /\ gen' = gen + 1 /\ gen < MaxIds /\ placed' = {} /\ pc' = "place" /\ pc # "parked"
      /\ shape' \subseteq Legs
      /\ UNCHANGED <<status, exec, wire, doomed, open, todo>>
  BY DEF Reanchor, NewTrade, venueVars, rowVars, Shape
<1>2. gen \in Nat /\ MaxIds \in Nat /\ gen \in 1 .. MaxIds
  BY BracketAssumption DEF Shape
<1>3. ASSUME NEW o \in Orders, Live(o)
      PROVE  o \in doomed
  <2>1. CASE NewTrade
    BY <1>3, <2>1 DEF NewTrade
  <2>2. CASE Reanchor
    <3>1. pc = "spent"
      BY <2>2 DEF Reanchor
    <3>2. o[1] \in Legs /\ o[2] \in 1 .. MaxIds /\ o = <<o[1], o[2]>>
      BY CurrentOrder
    <3>3. CASE o[2] < gen
      BY <1>3, <3>3 DEF FreshBracketAlone
    <3>4. CASE o[2] = gen
      <4>1. o \in doomed \/ o[1] \in placed
        BY <1>3, <3>1, <3>4 DEF AloneInv
      <4>2. o[1] \in placed => status[o] = "dead"
        BY <3>1, <3>2, <3>4 DEF FreshBracketAlone
      <4>. QED  BY <1>3, <4>1, <4>2 DEF Live
    <3>5. CASE o[2] > gen
      BY <1>3, <3>5 DEF VenueInv, Live
    <3>. QED  BY <1>2, <3>2, <3>3, <3>4, <3>5
  <2>. QED  BY <2>1, <2>2
<1>4. Shape'
  BY <1>1, <1>2 DEF Shape
<1>5. VenueInv'
  <2>1. \A o \in Orders : o[2] \in Nat
    BY CurrentOrder, <1>2
  <2>2. wire = {}
    BY <1>1 DEF VenueInv
  <2>3. \A o \in Orders : o[2] > gen + 1 => status[o] = "none"
    BY <1>2, <2>1 DEF VenueInv
  <2>. QED  BY <1>1, <2>2, <2>3 DEF VenueInv, Live
<1>6. PostInv' /\ CallInv'
  BY <1>1 DEF PostInv, CallInv, Placing, RollingBack
<1>7. AloneInv'
  BY <1>1, <1>3 DEF AloneInv, Placing, RollingBack, Live
<1>8. Traceable' /\ FreshBracketAlone'
  BY <1>1, <1>3 DEF Traceable, FreshBracketAlone, Live
<1>. QED  BY <1>4, <1>5, <1>6, <1>7, <1>8

LEMMA AftermathStep ==
  ASSUME BracketInv, DefensiveClose \/ (\E o \in Orders : CancelResidual(o))
  PROVE  BracketInv'
<1>1. doomed \subseteq Orders /\ open \subseteq Orders /\ \A q \in doomed : Live(q)
  BY DEF BracketInv, Shape, VenueInv
<1>2. CASE DefensiveClose
  <2>1. UNCHANGED <<status, exec, wire, doomed, open, gen, pc, placed, shape, reopened, todo>>
    BY <1>2 DEF DefensiveClose, rowVars, callVars, intentVars
  <2>. QED  BY <1>1, <2>1, SamePlace
<1>3. ASSUME NEW o \in Orders, CancelResidual(o)
      PROVE  BracketInv'
  <2>1. /\ Doom(o)
        /\ UNCHANGED <<status, exec, wire, open, gen, pc, placed, shape, reopened, todo>>
    BY <1>3 DEF CancelResidual, rowVars, callVars, intentVars
  <2>2. doomed \subseteq doomed' /\ doomed' \subseteq Orders /\ \A q \in doomed' : Live(q)
    BY <2>1, DoomAdds
  <2>. QED  BY <1>1, <2>1, <2>2, SamePlace
<1>. QED  BY <1>2, <1>3

\* Amends, and the beginning and the end of a cancel or of a change.
LEMMA ChangeStep ==
  ASSUME BracketInv,
         \/ ChangeShape \/ ChangeLevels \/ AmendLeg \/ AmendGone \/ AmendFails
         \/ Amended \/ Withdraw \/ Withdrawn
  PROVE  BracketInv'
<1>1. /\ UNCHANGED <<status, exec, wire, doomed, open, gen, placed>>
      /\ pc # "parked" /\ pc' \in {"recreate", "amend", "mixed", "placed", "cancel", "cancelled"}
      /\ pc' = "recreate" => todo' = open
  BY DEF ChangeShape, ChangeLevels, AmendLeg, AmendGone, RecreateAll, AmendFails, Amended,
         Withdraw, Withdrawn, LiveLegs, venueVars, rowVars, callVars, intentVars
<1>2. /\ doomed \subseteq Orders /\ open \subseteq Orders /\ \A q \in doomed : Live(q)
      /\ shape \subseteq Legs /\ placed \subseteq Legs /\ todo \subseteq Orders
      /\ gen \in 1 .. MaxIds
  BY DEF BracketInv, Shape, VenueInv
<1>3. shape' \subseteq Legs
  BY <1>2 DEF ChangeShape, ChangeLevels, AmendLeg, AmendGone, RecreateAll, AmendFails, Amended,
         Withdraw, Withdrawn, venueVars, rowVars, callVars, intentVars
<1>4. shape \X {gen} \subseteq Orders
  BY <1>2 DEF Orders
<1>5. todo' \subseteq Orders
  BY <1>2, <1>4 DEF ChangeShape, ChangeLevels, AmendLeg, AmendGone, RecreateAll, AmendFails,
         Amended, Withdraw, Withdrawn, LiveLegs, venueVars, rowVars, callVars, intentVars
<1>6. pc' = "recreate" => \A o \in Orders : Live(o) => o \in doomed' \/ o \in todo'
  BY <1>1 DEF BracketInv, Traceable
<1>. QED  BY <1>1, <1>2, <1>3, <1>5, <1>6, OutsideCall

\* One order is cancelled, or the cancel has no answer.
LEMMA CancelStep ==
  ASSUME BracketInv, NEW o \in Orders,
         CancelLeg(o) \/ CancelLegUnknown(o) \/ CancelOutcome(o) \/ CancelDoubtful(o)
  PROVE  BracketInv'
<1>1. /\ UNCHANGED <<status, exec, wire, gen, placed, shape, pc>>
      /\ pc \in {"recreate", "cancel"}
      /\ Doom(o) \/ UNCHANGED doomed
      /\ pc = "recreate" => Doom(o)
      /\ todo \ {o} \subseteq todo' /\ todo' \subseteq todo
      /\ open \ {o} \subseteq open' /\ open' \subseteq open
      /\ pc = "cancel" /\ o \notin open' => o \notin open \/ (Doom(o) /\ status[o] \in {"live", "dead"})
  BY DEF CancelLeg, CancelLegUnknown, CancelOutcome, CancelDoubtful, CloseRow, rowVars,
         callVars, intentVars
<1>2. /\ doomed \subseteq doomed' /\ doomed' \subseteq Orders /\ \A q \in doomed' : Live(q)
      /\ Doom(o) /\ Live(o) => o \in doomed'
  BY <1>1, DoomAdds
<1>3. /\ open \subseteq Orders /\ shape \subseteq Legs /\ placed \subseteq Legs
      /\ todo \subseteq Orders
  BY DEF BracketInv, Shape
<1>4. wire = {}
  BY <1>1 DEF BracketInv, VenueInv
<1>5. \A q \in open \ open' : q \notin wire /\ (Live(q) => q \in doomed')
  BY <1>1, <1>2, <1>4
<1>6. pc' = "recreate" => \A q \in Orders : Live(q) => q \in doomed' \/ q \in todo'
  BY <1>1, <1>2 DEF BracketInv, AloneInv
<1>. QED  BY <1>1, <1>2, <1>3, <1>5, <1>6, OutsideCall

\* The engine places the changed bracket: what rests of the old one is to end.
LEMMA RecreateStep ==
  ASSUME BracketInv, Recreate
  PROVE  BracketInv'
<1>. USE DEF BracketInv
<1>1. /\ pc = "recreate" /\ todo = {} /\ placed' = {} /\ pc' = "place"
      /\ UNCHANGED <<status, exec, wire, doomed, open, gen, shape, todo>>
  BY DEF Recreate, venueVars, rowVars, intentVars
<1>2. \A o \in Orders : Live(o) => o \in doomed
  BY <1>1 DEF AloneInv
<1>3. /\ Shape' /\ VenueInv' /\ Traceable'
      /\ \A o \in Orders : o[2] < gen' /\ Live(o)' => o \in doomed'
      /\ \A o \in Orders : Live(o)' <=> Live(o)
  <2>1. /\ doomed \subseteq Orders /\ open \subseteq Orders /\ shape \subseteq Legs
        /\ \A o \in doomed : Live(o)
    BY DEF Shape, VenueInv
  <2>. QED  BY <1>1, <2>1, NothingCreated
<1>4. PostInv' /\ CallInv'
  BY <1>1 DEF PostInv, CallInv, Placing, RollingBack
<1>5. AloneInv'
  BY <1>1, <1>2, <1>3 DEF AloneInv
<1>6. FreshBracketAlone'
  BY <1>1, <1>3 DEF FreshBracketAlone
<1>. QED  BY <1>3, <1>4, <1>5, <1>6

LEMMA BracketStep ==
  ASSUME BracketInv, [Next]_vars
  PROVE  BracketInv'
<1>1. CASE Venue
  BY <1>1, VenueStep DEF Venue
<1>2. CASE Pushes
  BY <1>2, PushStep DEF Pushes
<1>3. CASE Place
  BY <1>3, SendStep, PlacedStep, UnknownStep, SpentStep, CallEnds DEF Place
<1>4. CASE Rollback
  BY <1>4, RollbackStep
<1>5. CASE Aftermath
  BY <1>5, FreshIds, AftermathStep DEF Aftermath
<1>6. CASE Changes
  BY <1>6, ChangeStep, CancelStep, RecreateStep DEF Changes
<1>7. CASE UNCHANGED vars
  <2>1. UNCHANGED <<status, exec, wire, doomed, open, gen, pc, placed, shape, reopened, todo>>
    BY <1>7 DEF vars, venueVars, rowVars, callVars, intentVars
  <2>2. doomed \subseteq Orders /\ open \subseteq Orders /\ \A q \in doomed : Live(q)
    BY DEF BracketInv, Shape, VenueInv
  <2>. QED  BY <2>1, <2>2, SamePlace
<1>. QED  BY <1>1, <1>2, <1>3, <1>4, <1>5, <1>6, <1>7 DEF Next

-----------------------------------------------------------------------------
(***************************************************************************)
(* Theorems                                                                *)
(***************************************************************************)
\* Whenever the process stops, an order of the exit that rests, or may still land, has
\* a live journal row or an accepted cancel.
THEOREM OrdersAreTraceable == Spec => []Traceable
<1>1. BracketInv => Traceable
  BY DEF BracketInv
<1>. QED  BY <1>1, BracketStart, BracketStep, PTL DEF Spec

\* A bracket placed again under fresh ids has nothing resting beside it: what the failed
\* call had placed is dead and never executed, and older orders are to end.
THEOREM FreshBracketStandsAlone == Spec => []FreshBracketAlone
<1>1. BracketInv => FreshBracketAlone
  BY DEF BracketInv
<1>. QED  BY <1>1, BracketStart, BracketStep, PTL DEF Spec

-----------------------------------------------------------------------------
(***************************************************************************)
(* The size of the defensive close                                         *)
(***************************************************************************)
\* What an order of this envelope executed and what is left of the position are at most
\* the entry; only an escalation asks for a close, and one sized by an order that has
\* ended is sized once and for all.
SizeInv ==
    /\ held \in 0 .. Qty /\ close \in 0 .. Qty
    /\ \A o \in Orders : status[o] = "none" => exec[o] = 0
    /\ \A o \in Orders : o[2] = gen => held + exec[o] <= Qty
    /\ pc # "escalated" => close = 0
    /\ basis = "final" /\ close > 0 => ~Live(Sibling)
    /\ DefensiveSize

LEMMA SizeStart ==
  ASSUME Init
  PROVE  SizeInv
BY BracketAssumption DEF Init, SizeInv, DefensiveSize

\* A step that leaves the position and the close alone.
LEMMA SizeKept ==
  ASSUME BracketInv, SizeInv, UNCHANGED <<status, exec, held, gen, close, basis>>,
         (pc = "escalated") <=> (pc' = "escalated")
  PROVE  SizeInv'
<1>1. UNCHANGED Sibling /\ (Live(Sibling)' <=> Live(Sibling))
  BY DEF Sibling, Live
<1>. QED  BY <1>1 DEF SizeInv, DefensiveSize

\* An escalation asks for the whole entry, for what the sibling left, or for nothing when
\* nothing is held.
LEMMA SizeEscalated ==
  ASSUME BracketInv, SizeInv, UNCHANGED <<status, exec, held, gen>>, pc' = "escalated",
         \/ close' = Qty /\ basis' = "blind"
         \/ close' = 0 /\ held = 0 /\ basis' = "blind"
         \/ /\ close' = Unexecuted(Sibling)
            /\ basis' = (IF Live(Sibling) THEN "moving" ELSE "final")
  PROVE  SizeInv'
<1>1. /\ Sibling \in Orders /\ Sibling[2] = gen /\ Sibling' = Sibling
      /\ Live(Sibling)' <=> Live(Sibling)
  BY CurrentOrder DEF BracketInv, Sibling, Live
<1>2. Qty \in Nat
  BY BracketAssumption
<1>3. /\ exec[Sibling] \in Nat /\ held \in 0 .. Qty /\ held + exec[Sibling] <= Qty
  BY <1>1 DEF SizeInv, BracketInv, Shape
<1>4. close' \in 0 .. Qty /\ close' >= held
  BY <1>3, <1>2 DEF Unexecuted
<1>5. (close' = 0 => held = 0) /\ (basis' = "final" => close' + exec[Sibling] = Qty /\ ~Live(Sibling))
  BY <1>3, <1>2, <1>4 DEF Unexecuted
<1>6. DefensiveSize'
  BY <1>1, <1>4, <1>5 DEF DefensiveSize
<1>. QED  BY <1>1, <1>4, <1>5, <1>6 DEF SizeInv

\* Fills take from the position what they add to the order.
LEMMA SizeVenue ==
  ASSUME BracketInv, SizeInv, NEW o \in Orders,
         Fill(o) \/ Kill(o) \/ VenueCancel(o) \/ LateCreate(o)
  PROVE  SizeInv'
<1>1. /\ Qty \in Nat /\ gen \in Nat /\ Sibling \in Orders /\ Sibling[2] = gen
      /\ exec \in [Orders -> Nat] /\ held \in 0 .. Qty
  BY BracketAssumption, CurrentOrder DEF BracketInv, Shape, SizeInv
<1>2. CASE Fill(o)
  <2>1. /\ Live(o) /\ held > 0 /\ held' = held - 1 /\ exec' = [exec EXCEPT ![o] = @ + 1]
        /\ status' = status \/ status' = [status EXCEPT ![o] = "filled"]
        /\ UNCHANGED <<gen, close, basis, pc>>
    BY <1>2 DEF Fill, escVars, intentVars
  <2>2. /\ exec'[o] = exec[o] + 1 /\ \A q \in Orders \ {o} : exec'[q] = exec[q]
        /\ held' \in 0 .. Qty /\ held' < held
    BY <1>1, <2>1
  <2>3. /\ \A q \in Orders : (status'[q] = "none") => (q # o /\ status[q] = "none")
        /\ \A q \in Orders : Live(q)' => Live(q)
    BY <2>1 DEF BracketInv, Shape, Live
  <2>4. \A q \in Orders : q[2] = gen => held' + exec'[q] <= Qty
    BY <1>1, <2>1, <2>2 DEF SizeInv
  <2>5. basis = "final" /\ close > 0 => o # Sibling
    BY <2>1 DEF SizeInv
  <2>6. UNCHANGED Sibling
    BY <2>1 DEF Sibling
  <2>7. DefensiveSize'
    BY <1>1, <2>1, <2>2, <2>5, <2>6 DEF SizeInv, DefensiveSize
  <2>. QED  BY <1>1, <2>1, <2>2, <2>3, <2>4, <2>6, <2>7 DEF SizeInv
<1>3. CASE Kill(o) \/ VenueCancel(o) \/ LateCreate(o)
  <2>1. /\ UNCHANGED <<exec, held, gen, close, basis, pc>>
        /\ \A q \in Orders : status'[q] = "none" => status[q] = "none"
        /\ pc # "parked" => \A q \in Orders : Live(q)' => Live(q)
    BY <1>3 DEF Kill, VenueCancel, Dies, LateCreate, escVars, intentVars, BracketInv, Shape,
       VenueInv, Live
  <2>2. UNCHANGED Sibling
    BY <2>1 DEF Sibling
  <2>3. pc = "parked" => close = 0
    BY DEF SizeInv
  <2>4. basis = "final" /\ close > 0 => ~Live(Sibling)'
    BY <1>1, <2>1, <2>2, <2>3 DEF SizeInv, Live
  <2>. QED  BY <2>1, <2>2, <2>4 DEF SizeInv, DefensiveSize
<1>. QED  BY <1>2, <1>3

\* Whatever is escalated, and how.
LEMMA SizeCall ==
  ASSUME BracketInv, SizeInv, Place \/ Rollback
  PROVE  SizeInv'
<1>1. pc # "escalated"
  BY DEF Place, Rollback, SendLeg, LegAccepted, LegAdopted, LegUnknown, LegRefused, LegSpent,
         LegsReturned, RollbackCancel, RollbackUnknown, RollbackQuarantined, RollbackVerdict,
         RollbackUndecided
<1>2. CASE LegAccepted
  <2>1. /\ status' = [status EXCEPT ![Current] = "live"] /\ pc' = "place"
        /\ UNCHANGED <<exec, held, gen, close, basis>>
    BY <1>2 DEF LegAccepted, LegPlaced, escVars, intentVars
  <2>2. UNCHANGED Sibling /\ close = 0 /\ \A q \in Orders : status'[q] = "none" => status[q] = "none"
    BY <1>1, <2>1 DEF Sibling, SizeInv, BracketInv, Shape
  <2>. QED  BY <2>1, <2>2 DEF SizeInv, DefensiveSize
<1>3. CASE SendLeg \/ LegAdopted \/ LegUnknown \/ LegSpent \/ LegsReturned
  <2>1. UNCHANGED <<status, exec, held, gen, close, basis>> /\ pc' # "escalated"
    BY <1>3 DEF SendLeg, LegAdopted, LegPlaced, LegUnknown, LegSpent, LegsReturned, AfterSpent,
       venueVars, escVars, intentVars
  <2>. QED  BY <1>1, <2>1, SizeKept
<1>4. CASE LegRefused
  BY <1>4, SizeEscalated DEF LegRefused, Escalate, RefusedSize, venueVars, intentVars
<1>5. CASE Rollback
  <2>1. UNCHANGED <<status, exec, held, gen>>
    BY <1>5 DEF Rollback, RollbackCancel, RollbackUnknown, RollbackQuarantined, RollbackVerdict,
       RollbackUndecided, venueVars, intentVars
  <2>2. \/ pc' # "escalated" /\ UNCHANGED <<close, basis>>
        \/ pc' = "escalated" /\ close' = Qty /\ basis' = "blind"
        \/ /\ pc' = "escalated" /\ close' = Unexecuted(Sibling)
           /\ basis' = (IF Live(Sibling) THEN "moving" ELSE "final")
    <3>1. CASE RollbackCancel
      BY <3>1 DEF RollbackCancel, escVars
    <3>2. CASE RollbackUnknown
      BY <3>2 DEF RollbackUnknown, Escalate, escVars
    <3>3. CASE RollbackQuarantined
      BY <3>3 DEF RollbackQuarantined, Escalate
    <3>4. CASE RollbackVerdict
      BY <3>4 DEF RollbackVerdict, Escalate, escVars
    <3>5. CASE RollbackUndecided
      BY <3>5 DEF RollbackUndecided, Unproven, Escalate, escVars
    <3>. QED  BY <1>5, <3>1, <3>2, <3>3, <3>4, <3>5 DEF Rollback
  <2>. QED  BY <1>1, <2>1, <2>2, SizeKept, SizeEscalated
<1>. QED  BY <1>2, <1>3, <1>4, <1>5 DEF Place

\* A new envelope or a new entry; the close that is sent.
LEMMA SizeAftermath ==
  ASSUME BracketInv, SizeInv, Aftermath
  PROVE  SizeInv'
<1>1. Qty \in Nat \ {0} /\ gen \in Nat /\ exec \in [Orders -> Nat] /\ held \in 0 .. Qty
  BY BracketAssumption DEF BracketInv, Shape, SizeInv
<1>2. CASE Reanchor \/ NewTrade
  <2>1. /\ gen' = gen + 1 /\ close = 0 /\ close' = 0 /\ pc' = "place" /\ held' \in 0 .. Qty
        /\ UNCHANGED <<status, exec>>
    BY <1>1, <1>2 DEF Reanchor, NewTrade, SizeInv, venueVars, escVars
  <2>2. \A o \in Orders : o[2] = gen + 1 => exec[o] = 0
    BY <1>1 DEF BracketInv, VenueInv, SizeInv
  <2>. QED  BY <1>1, <2>1, <2>2 DEF SizeInv, DefensiveSize
<1>3. CASE DefensiveClose
  <2>1. /\ held' = (IF close < held THEN held - close ELSE 0) /\ close' = 0
        /\ pc = "escalated" /\ close > 0 /\ UNCHANGED <<status, exec, gen, basis, pc>>
    BY <1>3 DEF DefensiveClose, intentVars
  <2>2. held' = 0
    BY <1>1, <2>1 DEF SizeInv, DefensiveSize
  <2>3. \A o \in Orders : o[2] = gen => exec[o] <= Qty
    BY <1>1 DEF SizeInv
  <2>. QED  BY <1>1, <2>1, <2>2, <2>3 DEF SizeInv, DefensiveSize
<1>4. CASE \E o \in Orders : CancelResidual(o)
  <2>1. UNCHANGED <<status, exec, held, gen, close, basis, pc>>
    BY <1>4 DEF CancelResidual, escVars, intentVars
  <2>. QED  BY <2>1, SizeKept
<1>. QED  BY <1>2, <1>3, <1>4 DEF Aftermath

LEMMA SizeStep ==
  ASSUME BracketInv, SizeInv, [Next]_vars
  PROVE  SizeInv'
<1>1. CASE Venue
  BY <1>1, SizeVenue DEF Venue
<1>2. CASE Pushes
  <2>1. UNCHANGED <<status, exec, held, gen, close, basis, pc>>
    BY <1>2 DEF Pushes, CancelPush, BookFill, venueVars, escVars, intentVars
  <2>. QED  BY <2>1, SizeKept
<1>3. CASE Place \/ Rollback
  BY <1>3, SizeCall
<1>4. CASE Aftermath
  BY <1>4, SizeAftermath
<1>5. CASE Changes
  <2>1. UNCHANGED <<status, exec, held, gen, close, basis>>
    BY <1>5 DEF Changes, ChangeShape, Recreate, ChangeLevels, AmendLeg, AmendGone, AmendFails,
       Amended, Withdraw, Withdrawn, CancelLeg, CancelLegUnknown, CancelOutcome, CancelDoubtful,
       venueVars, escVars, intentVars
  <2>2. pc # "escalated" /\ pc' # "escalated"
    BY <1>5 DEF Changes, ChangeShape, Recreate, ChangeLevels, AmendLeg, AmendGone, RecreateAll,
       AmendFails, Amended, Withdraw, Withdrawn, CancelLeg, CancelLegUnknown, CancelOutcome,
       CancelDoubtful
  <2>. QED  BY <2>1, <2>2, SizeKept
<1>6. CASE UNCHANGED vars
  BY <1>6, SizeKept DEF vars, venueVars, escVars, intentVars
<1>. QED  BY <1>1, <1>2, <1>3, <1>4, <1>5, <1>6 DEF Next

\* The defensive close leaves nothing of the position open, and takes just what the rolled
\* back order left when that had ended.
THEOREM DefensiveCloseSized == Spec => []DefensiveSize
<1>1. SizeInv => DefensiveSize
  BY DEF SizeInv
<1>. QED  BY <1>1, BracketStart, BracketStep, SizeStart, SizeStep, PTL DEF Spec

-----------------------------------------------------------------------------
(***************************************************************************)
(* A returned bracket is whole                                             *)
(***************************************************************************)
Carries(leg) == <<leg, gen>> \in fresh \/ status[<<leg, gen>>] = "filled"

\* What the call has placed, and what an amend is done with, carries the levels.
LevelsInv ==
    /\ Placing => \A leg \in placed : Carries(leg)
    /\ pc = "amend" => \A leg \in shape : <<leg, gen>> \in todo \/ Carries(leg)
    /\ PlacedIsWhole

LEMMA LevelsStart ==
  ASSUME Init
  PROVE  LevelsInv
BY DEF Init, LevelsInv, PlacedIsWhole, Placing

\* What carries the levels goes on to, unless they are changed.
LEMMA CarriesKept ==
  ASSUME BracketInv, BracketInv', gen' = gen, fresh \subseteq fresh',
         \A o \in Orders : status[o] = "filled" => status'[o] = "filled"
  PROVE  \A leg \in Legs : Carries(leg) => Carries(leg)'
BY DEF BracketInv, Shape, Orders, Carries

\* A step of anybody else than the call.
LEMMA LevelsKept ==
  ASSUME BracketInv, BracketInv', LevelsInv, UNCHANGED <<gen, shape, placed, todo, pc>>,
         fresh \subseteq fresh', \A o \in Orders : status[o] = "filled" => status'[o] = "filled"
  PROVE  LevelsInv'
<1>1. \A leg \in Legs : Carries(leg) => Carries(leg)'
  BY CarriesKept
<1>2. shape \subseteq Legs /\ placed \subseteq Legs
  BY DEF BracketInv, Shape
<1>3. PlacedIsWhole <=> (pc = "placed" => \A leg \in shape : Carries(leg))
  BY DEF PlacedIsWhole, Carries
<1>4. PlacedIsWhole' <=> (pc' = "placed" => \A leg \in shape' : Carries(leg)')
  BY DEF PlacedIsWhole, Carries
<1>. QED  BY <1>1, <1>2, <1>3, <1>4 DEF LevelsInv, Placing

\* The leg the venue takes carries the levels; one that is adopted has filled, for it
\* neither rests beside the call nor waits for its cancel.
LEMMA LevelsPlace ==
  ASSUME BracketInv, BracketInv', LevelsInv, ~SlowCancel, Place
  PROVE  LevelsInv'
<1>1. /\ Current \in Orders /\ Current = <<NextLeg, gen>> /\ NextLeg \in Legs
      /\ Current[1] = NextLeg /\ Current[2] = gen
  BY CurrentOrder DEF BracketInv, Current
<1>2. placed \subseteq Legs /\ shape \subseteq Legs
  BY DEF BracketInv, Shape
<1>3. CASE LegAccepted \/ LegAdopted
  <2>1. PICK leg \in Legs : leg = NextLeg
    BY <1>1
  <2>2. /\ pc = "posted" /\ pc' = "place" /\ placed' = placed \cup {leg} /\ gen' = gen
        /\ fresh \subseteq fresh'
        /\ \A o \in Orders : status[o] = "filled" => status'[o] = "filled"
    BY <1>3, <2>1 DEF LegAccepted, LegAdopted, LegPlaced, venueVars, intentVars, BracketInv, Shape
  <2>3. Carries(leg)'
    <3>1. CASE LegAccepted
      BY <3>1, <1>1, <2>1, <2>2 DEF LegAccepted, Carries
    <3>2. CASE LegAdopted
      <4>1. status[Current] \in {"live", "filled"} /\ Current \notin doomed /\ status' = status
        BY <3>2 DEF LegAdopted, venueVars
      <4>2. NextLeg \notin placed
        BY <2>2, <1>2 DEF BracketInv, PostInv, NextLeg, Whole, Legs
      <4>3. ~Live(Current)
        BY <1>1, <2>2, <4>1, <4>2 DEF BracketInv, AloneInv, Placing
      <4>. QED  BY <1>1, <2>1, <2>2, <4>1, <4>3 DEF Carries, Live
    <3>. QED  BY <1>3, <3>1, <3>2
  <2>4. \A l \in Legs : Carries(l) => Carries(l)'
    BY <2>2, CarriesKept
  <2>. QED  BY <1>2, <2>2, <2>3, <2>4 DEF LevelsInv, PlacedIsWhole, Placing
<1>4. CASE SendLeg \/ LegsReturned
  <2>1. /\ pc = "place" /\ pc' \in {"posted", "placed"} /\ (pc' = "placed" => Whole)
        /\ UNCHANGED <<gen, status, fresh, placed, shape>>
    BY <1>4 DEF SendLeg, LegsReturned, venueVars, callVars, intentVars
  <2>2. \A leg \in placed : Carries(leg)'
    BY <2>1 DEF LevelsInv, Placing, Carries
  <2>. QED  BY <2>1, <2>2 DEF LevelsInv, PlacedIsWhole, Placing, Whole, Carries
<1>5. CASE LegUnknown \/ LegRefused \/ LegSpent
  <2>1. pc' \in {"parked", "escalated", "spent", "rollback"}
    BY <1>5 DEF LegUnknown, LegRefused, Escalate, LegSpent, AfterSpent
  <2>. QED  BY <2>1 DEF LevelsInv, PlacedIsWhole, Placing
<1>. QED  BY <1>3, <1>4, <1>5 DEF Place

\* An amend is done with a leg once it rests with the new levels.
LEMMA LevelsChange ==
  ASSUME BracketInv, BracketInv', LevelsInv, Changes
  PROVE  LevelsInv'
<1>1. shape \subseteq Legs
  BY DEF BracketInv, Shape
<1>2. CASE ChangeLevels
  BY <1>2 DEF ChangeLevels, LevelsInv, PlacedIsWhole, Placing
<1>3. CASE AmendLeg
  <2>1. /\ pc = "amend" /\ pc' = "amend" /\ fresh' = fresh \cup {NextAmend}
        /\ todo' = todo \ {NextAmend} /\ UNCHANGED <<status, gen, shape>>
    BY <1>3 DEF AmendLeg, intentVars
  <2>2. \A leg \in shape : <<leg, gen>> \in todo' \/ Carries(leg)'
    BY <2>1 DEF LevelsInv, Carries
  <2>. QED  BY <2>1, <2>2 DEF LevelsInv, PlacedIsWhole, Placing
<1>4. CASE Amended
  <2>1. pc = "amend" /\ todo = {} /\ pc' = "placed" /\ UNCHANGED <<status, gen, shape, fresh>>
    BY <1>4 DEF Amended, venueVars, intentVars
  <2>. QED  BY <2>1 DEF LevelsInv, PlacedIsWhole, Placing, Carries
<1>5. CASE Recreate
  <2>1. placed' = {} /\ pc' = "place"
    BY <1>5 DEF Recreate
  <2>. QED  BY <2>1 DEF LevelsInv, PlacedIsWhole, Placing
<1>6. CASE \/ ChangeShape \/ AmendGone \/ AmendFails \/ Withdraw \/ Withdrawn
           \/ \E o \in Orders : \/ CancelLeg(o) \/ CancelLegUnknown(o)
                                \/ CancelOutcome(o) \/ CancelDoubtful(o)
  <2>1. pc' \in {"recreate", "mixed", "cancel", "cancelled"}
    BY <1>6 DEF ChangeShape, AmendGone, RecreateAll, AmendFails, Withdraw, Withdrawn, CancelLeg,
       CancelLegUnknown, CancelOutcome, CancelDoubtful
  <2>. QED  BY <2>1 DEF LevelsInv, PlacedIsWhole, Placing
<1>. QED  BY <1>2, <1>3, <1>4, <1>5, <1>6 DEF Changes

LEMMA LevelsStep ==
  ASSUME BracketInv, BracketInv', LevelsInv, ~SlowCancel, [Next]_vars
  PROVE  LevelsInv'
<1>1. CASE Venue \/ Pushes \/ UNCHANGED vars
  <2>1. /\ UNCHANGED <<gen, shape, placed, todo, pc>> /\ fresh \subseteq fresh'
        /\ \A o \in Orders : status[o] = "filled" => status'[o] = "filled"
    BY <1>1 DEF Venue, Fill, Kill, VenueCancel, Dies, LateCreate, Pushes, CancelPush, BookFill,
       vars, venueVars, callVars, intentVars, BracketInv, Shape, Live
  <2>. QED  BY <2>1, LevelsKept
<1>2. CASE Place
  BY <1>2, LevelsPlace
<1>3. CASE Rollback
  <2>1. pc' \in {"reread", "recancel", "confirm", "escalated", "spent"}
    BY <1>3 DEF Rollback, RollbackCancel, RollbackUnknown, RollbackQuarantined, RollbackVerdict,
       RollbackUndecided, Unproven, Escalate
  <2>. QED  BY <2>1 DEF LevelsInv, PlacedIsWhole, Placing
<1>4. CASE Aftermath
  <2>1. \/ pc' = "place" /\ placed' = {}
        \/ pc' = "escalated"
    BY <1>4 DEF Aftermath, Reanchor, NewTrade, DefensiveClose, CancelResidual
  <2>. QED  BY <2>1 DEF LevelsInv, PlacedIsWhole, Placing
<1>5. CASE Changes
  BY <1>5, LevelsChange
<1>. QED  BY <1>1, <1>2, <1>3, <1>4, <1>5 DEF Next

\* The bracket a call returns has every leg of the intent at the levels wanted now, or
\* filled, if an accepted cancel is carried out before its order is placed again.
THEOREM ReturnedBracketIsWhole ==
  ASSUME ~SlowCancel
  PROVE  Spec => []PlacedIsWhole
<1>1. LevelsInv => PlacedIsWhole
  BY DEF LevelsInv
<1>2. BracketInv /\ BracketInv' /\ LevelsInv /\ [Next]_vars => LevelsInv'
  BY LevelsStep
<1>. QED  BY <1>1, <1>2, BracketStart, BracketStep, LevelsStart, PTL DEF Spec

-----------------------------------------------------------------------------
(***************************************************************************)
(* The disposition of a cancel                                             *)
(***************************************************************************)
\* An order that can neither fill nor has filled.
Ended(o) == status[o] \in {"none", "dead"}

InCall == Placing \/ RollingBack \/ pc = "spent"

\* A live row of an earlier envelope is one of an order that ended without a word of its
\* own; in the running call so is one of an order that the call has not placed.  A cancel
\* therefore meets a filled order of this bracket only.
CancelInv ==
    /\ outcome \in {"confirmed", "filled", "unknown"}
    /\ pc \notin {"cancel", "cancelled"} => outcome = "unknown"
    /\ \A o \in open : o[2] < gen => Ended(o)
    /\ InCall => \A o \in open :
          o[2] = gen => o[1] \in placed \/ (pc = "posted" /\ o = Current) \/ Ended(o)
    /\ pc = "recreate" => open \subseteq todo
    /\ pc = "cancel" => \A o \in todo : o[2] = gen \/ Ended(o)
    /\ pc = "cancel" /\ outcome = "confirmed" =>
          \A o \in Orders : Live(o) => o \in doomed \/ o \in todo
    /\ CancelOutcomeSound

LEMMA CancelStart ==
  ASSUME Init
  PROVE  CancelInv
BY DEF Init, CancelInv, CancelOutcomeSound

\* The venue ends and fills orders, pushes close rows.
LEMMA CancelQuiet ==
  ASSUME BracketInv, CancelInv, UNCHANGED <<gen, pc, placed, todo, outcome, shape>>,
         open' \subseteq open,
         \A o \in Orders : Ended(o) => Ended(o)',
         \A o \in Orders : status[o] = "filled" => status'[o] = "filled",
         \A o \in Orders : Live(o)' => Live(o) /\ (o \in doomed => o \in doomed')
  PROVE  CancelInv'
<1>1. open \subseteq Orders /\ todo \subseteq Orders /\ gen \in 1 .. MaxIds
  BY DEF BracketInv, Shape
<1>2. Current' = Current
  BY DEF Current, NextLeg
<1>3. \A leg \in Legs : <<leg, gen>> \in Orders
  BY <1>1 DEF Orders
<1>4. CancelOutcomeSound'
  BY <1>3 DEF CancelInv, CancelOutcomeSound
<1>. QED  BY <1>1, <1>2, <1>4 DEF CancelInv, InCall, Placing, RollingBack

\* A step to a place outside the call and outside a cancel.
LEMMA CancelElsewhere ==
  ASSUME BracketInv, CancelInv, UNCHANGED <<status, gen>>, open' \subseteq open,
         outcome' = "unknown", pc' \notin {"cancel", "cancelled"}, ~InCall',
         pc' = "recreate" => open' \subseteq todo'
  PROVE  CancelInv'
BY DEF CancelInv, CancelOutcomeSound, Ended

LEMMA CancelVenue ==
  ASSUME BracketInv, CancelInv, NEW o \in Orders,
         Fill(o) \/ Kill(o) \/ VenueCancel(o) \/ LateCreate(o)
  PROVE  CancelInv'
<1>1. CASE Fill(o) \/ Kill(o) \/ VenueCancel(o)
  <2>1. /\ UNCHANGED <<gen, pc, placed, todo, outcome, shape, open>> /\ Live(o)
        /\ \/ status' = status /\ doomed' = doomed
           \/ \E end \in {"dead", "filled"} :
                 status' = [status EXCEPT ![o] = end] /\ doomed' = doomed \ {o}
    BY <1>1 DEF Fill, Kill, VenueCancel, Dies, rowVars, callVars, intentVars
  <2>2. /\ \A q \in Orders : Ended(q) => Ended(q)'
        /\ \A q \in Orders : status[q] = "filled" => status'[q] = "filled"
        /\ \A q \in Orders : Live(q)' => Live(q) /\ (q \in doomed => q \in doomed')
    BY <2>1 DEF BracketInv, Shape, Live, Ended
  <2>. QED  BY <2>1, <2>2, CancelQuiet
<1>2. CASE LateCreate(o)
  <2>1. /\ pc = "parked" /\ o[2] = gen /\ gen \in Nat /\ open \subseteq Orders
        /\ UNCHANGED <<gen, pc, outcome, open>>
        /\ \A q \in Orders \ {o} : status'[q] = status[q]
    BY <1>2, BracketAssumption DEF LateCreate, BracketInv, Shape, VenueInv, rowVars, callVars,
       intentVars
  <2>2. outcome = "unknown" /\ \A q \in open : q[2] < gen => Ended(q)'
    BY <2>1 DEF CancelInv, Ended
  <2>. QED  BY <2>1, <2>2 DEF CancelInv, CancelOutcomeSound, InCall, Placing, RollingBack
<1>. QED  BY <1>1, <1>2

\* The call closes the row of a spent leg, and of the sibling it has rolled back.
LEMMA CancelCall ==
  ASSUME BracketInv, CancelInv, Place \/ Rollback
  PROVE  CancelInv'
<1>1. /\ pc \notin {"cancel", "cancelled"} /\ UNCHANGED <<gen, outcome, shape>>
      /\ outcome = "unknown" /\ gen \in Nat
  <2>1. pc \notin {"cancel", "cancelled"} /\ UNCHANGED <<gen, outcome, shape>>
    BY DEF Place, Rollback, SendLeg, LegAccepted, LegAdopted, LegPlaced, LegUnknown, LegRefused,
       LegSpent, LegsReturned, RollbackCancel, RollbackUnknown, RollbackQuarantined,
       RollbackVerdict, RollbackUndecided, callVars, intentVars
  <2>. QED  BY <2>1, BracketAssumption DEF CancelInv, BracketInv, Shape
<1>2. Current \in Orders /\ Current[1] = NextLeg /\ Current[2] = gen
  BY CurrentOrder DEF BracketInv
<1>3. open \subseteq Orders
  BY DEF BracketInv, Shape
<1>4. CASE SendLeg
  <2>1. /\ pc = "place" /\ pc' = "posted" /\ open' = open \cup {Current}
        /\ UNCHANGED <<status, placed>>
    BY <1>4 DEF SendLeg, PersistLegRow, venueVars
  <2>2. Current' = Current
    BY <1>1, <2>1 DEF Current, NextLeg
  <2>3. \A o \in open' : o[2] < gen => Ended(o)
    BY <1>1, <1>2, <2>1 DEF CancelInv
  <2>4. \A o \in open' : o[2] = gen => o[1] \in placed \/ o = Current \/ Ended(o)
    BY <2>1 DEF CancelInv, InCall, Placing
  <2>. QED  BY <1>1, <2>1, <2>2, <2>3, <2>4
       DEF CancelInv, CancelOutcomeSound, Ended
<1>5. CASE LegAccepted \/ LegAdopted
  <2>1. /\ pc = "posted" /\ pc' = "place" /\ placed' = placed \cup {NextLeg} /\ open' = open
        /\ \A o \in Orders \ {Current} : status'[o] = status[o]
    BY <1>5 DEF LegAccepted, LegAdopted, LegPlaced, venueVars, BracketInv, Shape
  <2>2. \A o \in open : o[2] < gen => Ended(o)'
    BY <1>1, <1>2, <1>3, <2>1 DEF CancelInv, Ended
  <2>3. \A o \in open : o[2] = gen => o[1] \in placed' \/ Ended(o)'
    BY <1>2, <1>3, <2>1 DEF CancelInv, InCall, Placing, Ended
  <2>. QED  BY <1>1, <2>1, <2>2, <2>3 DEF CancelInv, CancelOutcomeSound
<1>6. CASE LegUnknown \/ LegRefused \/ LegsReturned
  <2>1. /\ pc' \in {"parked", "escalated", "placed"} /\ status' = status
        /\ open' \subseteq open
    BY <1>6 DEF LegUnknown, LegRefused, RejectRow, Escalate, LegsReturned, venueVars, rowVars
  <2>. QED  BY <1>1, <2>1, CancelElsewhere DEF InCall, Placing, RollingBack
<1>7. CASE LegSpent
  <2>1. /\ pc = "posted" /\ pc' \in {"spent", "rollback"} /\ open' = open \ {Current}
        /\ UNCHANGED <<status, placed>>
    BY <1>7 DEF LegSpent, RejectRow, AfterSpent, venueVars, callVars
  <2>. QED  BY <1>1, <2>1 DEF CancelInv, CancelOutcomeSound, InCall, Placing, Ended
<1>8. CASE Rollback
  <2>1. /\ RollingBack /\ pc' \in {"reread", "recancel", "confirm", "escalated", "spent"}
        /\ open' \subseteq open /\ UNCHANGED <<status, placed>>
    BY <1>8 DEF Rollback, RollbackCancel, RollbackUnknown, RollbackQuarantined, RollbackVerdict,
       RollbackUndecided, RollingBack, Unproven, Escalate, CloseRow, venueVars, rowVars, callVars
  <2>. QED  BY <1>1, <2>1 DEF CancelInv, CancelOutcomeSound, InCall, RollingBack, Ended
<1>. QED  BY <1>4, <1>5, <1>6, <1>7, <1>8 DEF Place

\* Where the envelope changes, no live row is left of an order that fills or has filled.
LEMMA CancelAftermath ==
  ASSUME BracketInv, CancelInv, Aftermath
  PROVE  CancelInv'
<1>1. open \subseteq Orders /\ gen \in Nat /\ \A o \in Orders : o[2] \in Nat /\ o = <<o[1], o[2]>>
  BY BracketAssumption, CurrentOrder DEF BracketInv, Shape
<1>2. CASE Reanchor \/ NewTrade
  <2>1. /\ gen' = gen + 1 /\ pc' = "place" /\ placed' = {} /\ outcome' = "unknown"
        /\ UNCHANGED <<status, open>>
    BY <1>2 DEF Reanchor, NewTrade, CancelInv, venueVars, rowVars
  <2>2. \A o \in open : o[2] <= gen => Ended(o)
    <3>1. CASE Reanchor
      <4>1. pc = "spent"
        BY <3>1 DEF Reanchor
      <4>2. \A leg \in placed : status[<<leg, gen>>] = "dead"
        BY <4>1 DEF BracketInv, FreshBracketAlone
      <4>. QED  BY <1>1, <4>1, <4>2 DEF CancelInv, InCall, Ended
    <3>2. CASE NewTrade
      BY <1>1, <3>2 DEF NewTrade, BracketInv, Shape, Live, Ended
    <3>. QED  BY <1>2, <3>1, <3>2
  <2>3. \A o \in open : o[2] = gen + 1 => Ended(o)
    BY <1>1 DEF BracketInv, VenueInv, Ended
  <2>4. \A o \in open : (o[2] < gen + 1 => Ended(o)') /\ (o[2] = gen + 1 => Ended(o)')
    BY <1>1, <2>1, <2>2, <2>3 DEF Ended
  <2>. QED  BY <2>1, <2>4 DEF CancelInv, CancelOutcomeSound
<1>3. CASE DefensiveClose \/ \E o \in Orders : CancelResidual(o)
  <2>1. pc = "escalated" /\ UNCHANGED <<status, gen, open, outcome, pc>>
    BY <1>3 DEF DefensiveClose, CancelResidual, rowVars, callVars, intentVars
  <2>. QED  BY <2>1, CancelElsewhere DEF CancelInv, InCall, Placing, RollingBack
<1>. QED  BY <1>2, <1>3 DEF Aftermath

\* A fill that is found makes the disposition, and any doubt keeps it from being confirmed.
LEMMA CancelAnswers ==
  ASSUME BracketInv, CancelInv, NEW o \in Orders, CancelOutcome(o) \/ CancelDoubtful(o)
  PROVE  CancelInv'
<1>1. /\ pc = "cancel" /\ pc' = "cancel" /\ o \in todo /\ todo' = todo \ {o}
      /\ open' \subseteq open /\ UNCHANGED <<status, gen>>
      /\ Doom(o) \/ (UNCHANGED doomed /\ CancelDoubtful(o))
  BY DEF CancelOutcome, CancelDoubtful, CloseRow, rowVars, intentVars
<1>2. doomed \subseteq doomed' /\ (Doom(o) /\ Live(o) => o \in doomed')
  BY <1>1, DoomAdds
<1>3. \/ outcome' = "filled" /\ (outcome = "filled" \/ status[o] = "filled")
      \/ outcome' = "unknown"
      \/ outcome' = "confirmed" /\ outcome = "confirmed" /\ CancelOutcome(o)
  <2>1. CASE CancelOutcome(o)
    BY <2>1 DEF CancelOutcome, Worse, CancelInv
  <2>2. CASE CancelDoubtful(o)
    BY <2>2 DEF CancelDoubtful, Worse, CancelInv
  <2>. QED  BY <2>1, <2>2
<1>4. outcome' = "filled" => \E leg \in Legs : status[<<leg, gen>>] = "filled"
  <2>1. CASE outcome = "filled"
    BY <2>1 DEF CancelInv, CancelOutcomeSound
  <2>2. CASE status[o] = "filled"
    <3>1. o[2] = gen
      BY <1>1, <2>2 DEF CancelInv, Ended
    <3>. QED  BY <2>2, <3>1, CurrentOrder DEF BracketInv
  <2>. QED  BY <1>3, <2>1, <2>2
<1>5. outcome' = "confirmed" => \A q \in Orders : Live(q) => q \in doomed' \/ q \in todo'
  <2>1. CancelOutcome(o) => Doom(o)
    BY DEF CancelOutcome
  <2>. QED  BY <1>1, <1>2, <1>3, <2>1 DEF CancelInv
<1>6. CancelOutcomeSound'
  BY <1>1, <1>4 DEF CancelOutcomeSound
<1>7. \A q \in Orders : (Ended(q)' <=> Ended(q)) /\ (Live(q)' <=> Live(q))
  BY <1>1 DEF Ended, Live
<1>8. /\ outcome' \in {"confirmed", "filled", "unknown"}
      /\ pc' = "cancel" /\ ~InCall'
  BY <1>1, <1>3 DEF InCall, Placing, RollingBack
<1>9. \A q \in open' : q[2] < gen' => Ended(q)'
  BY <1>1 DEF CancelInv, Ended
<1>10. \A q \in todo' : q[2] = gen' \/ Ended(q)'
  BY <1>1 DEF CancelInv, Ended
<1>11. outcome' = "confirmed" => \A q \in Orders' : Live(q)' => q \in doomed' \/ q \in todo'
  BY <1>5, <1>7 DEF Orders
<1>. QED  BY <1>6, <1>8, <1>9, <1>10, <1>11 DEF CancelInv

\* Changes, and the beginning and the end of a cancel.
LEMMA CancelChange ==
  ASSUME BracketInv, CancelInv, Changes
  PROVE  CancelInv'
<1>1. gen \in Nat /\ open \subseteq Orders /\ \A o \in Orders : o[2] \in Nat
  BY BracketAssumption, CurrentOrder DEF BracketInv, Shape
<1>2. CASE \/ ChangeShape \/ ChangeLevels \/ AmendLeg \/ AmendGone \/ AmendFails \/ Amended
           \/ \E o \in Orders : CancelLeg(o) \/ CancelLegUnknown(o)
  <2>1. /\ pc \notin {"cancel", "cancelled"} /\ pc' \in {"recreate", "amend", "mixed", "placed"}
        /\ UNCHANGED <<status, gen, outcome>>
    BY <1>2 DEF ChangeShape, ChangeLevels, AmendLeg, AmendGone, RecreateAll, AmendFails, Amended,
       CancelLeg, CancelLegUnknown, venueVars, callVars, intentVars
  <2>2. /\ open' \subseteq open
        /\ pc' = "recreate" => open' \subseteq todo'
    BY <1>2 DEF ChangeShape, ChangeLevels, AmendLeg, AmendGone, RecreateAll, AmendFails, Amended,
       CancelLeg, CancelLegUnknown, LiveLegs, CloseRow, rowVars, callVars, CancelInv
  <2>. QED  BY <2>1, <2>2, CancelElsewhere DEF CancelInv, InCall, Placing, RollingBack
<1>3. CASE Recreate
  <2>1. /\ pc = "recreate" /\ todo = {} /\ pc' = "place"
        /\ UNCHANGED <<status, gen, open, outcome>>
    BY <1>3 DEF Recreate, venueVars, rowVars, intentVars
  <2>2. open' = {}
    BY <2>1 DEF CancelInv
  <2>. QED  BY <2>1, <2>2 DEF CancelInv, CancelOutcomeSound
<1>4. CASE Withdraw
  <2>1. /\ pc' = "cancel" /\ pc # "parked" /\ todo' = open /\ outcome' \in {"unknown", "confirmed"}
        /\ UNCHANGED <<status, doomed, gen, open>>
    BY <1>4 DEF Withdraw, LiveLegs, venueVars, rowVars
  <2>2. \A o \in open : o[2] = gen \/ Ended(o)
    <3>1. \A o \in open : o[2] > gen => Ended(o)
      BY <1>1 DEF BracketInv, VenueInv, Ended
    <3>. QED  BY <1>1, <3>1 DEF CancelInv
  <2>3. \A o \in Orders : Live(o) => o \in doomed \/ o \in open
    BY DEF BracketInv, Traceable
  <2>. QED  BY <2>1, <2>2, <2>3
       DEF CancelInv, CancelOutcomeSound, InCall, Placing, RollingBack, Ended, Live
<1>5. CASE Withdrawn
  <2>1. /\ pc = "cancel" /\ todo = {} /\ pc' = "cancelled"
        /\ UNCHANGED <<status, doomed, gen, open, outcome>>
    BY <1>5 DEF Withdrawn, venueVars, rowVars, callVars, intentVars
  <2>. QED  BY <2>1 DEF CancelInv, CancelOutcomeSound, InCall, Placing, RollingBack, Ended, Live
<1>6. CASE \E o \in Orders : CancelOutcome(o) \/ CancelDoubtful(o)
  BY <1>6, CancelAnswers
<1>. QED  BY <1>2, <1>3, <1>4, <1>5, <1>6 DEF Changes

LEMMA CancelNext ==
  ASSUME BracketInv, CancelInv, [Next]_vars
  PROVE  CancelInv'
<1>1. CASE Venue
  BY <1>1, CancelVenue DEF Venue
<1>2. CASE Pushes \/ UNCHANGED vars
  <2>1. /\ UNCHANGED <<status, doomed, gen, pc, placed, todo, outcome, shape>>
        /\ open' \subseteq open
    BY <1>2 DEF Pushes, CancelPush, BookFill, CloseRow, vars, venueVars, rowVars, callVars,
       intentVars
  <2>. QED  BY <2>1, CancelQuiet DEF Ended, Live
<1>3. CASE Place \/ Rollback
  BY <1>3, CancelCall
<1>4. CASE Aftermath
  BY <1>4, CancelAftermath
<1>5. CASE Changes
  BY <1>5, CancelChange
<1>. QED  BY <1>1, <1>2, <1>3, <1>4, <1>5 DEF Next

\* A cancel is lost to a fill only when a leg of the bracket has filled, and confirmed only
\* when nothing of it rests on.
THEOREM DispositionIsTrue == Spec => []CancelOutcomeSound
<1>1. CancelInv => CancelOutcomeSound
  BY DEF CancelInv
<1>. QED  BY <1>1, BracketStart, BracketStep, CancelStart, CancelNext, PTL DEF Spec
================================================================================
