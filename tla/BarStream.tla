------------------------------ MODULE BarStream ------------------------------
(***************************************************************************)
(* What the live provider promises the core: the closed bars of one symbol *)
(* and timeframe, each exactly once, in order, without a hole, from the    *)
(* end of the warmup history on.  Nothing is said of connections.          *)
(***************************************************************************)
EXTENDS Integers

CONSTANTS
    Warm,   \* newest closed bar of the warmup history
    MaxBar  \* bound: bars from MaxBar on never close

VARIABLES
    closed, \* newest bar the venue has closed
    taken   \* newest closed bar the core has taken

vars == <<closed, taken>>

Init ==
    /\ closed \in Warm .. MaxBar - 1
    /\ taken = Warm

\* The venue closes the next bar.
Close ==
    /\ closed < MaxBar - 1
    /\ closed' = closed + 1
    /\ UNCHANGED taken

\* The core takes the next closed bar.
Take ==
    /\ taken < closed
    /\ taken' = taken + 1
    /\ UNCHANGED closed

Next == Close \/ Take

Spec == Init /\ [][Next]_vars

FairSpec == Spec /\ WF_vars(Close) /\ WF_vars(Take)
=============================================================================
