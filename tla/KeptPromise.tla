----------------------------- MODULE KeptPromise -----------------------------
(***************************************************************************)
(* What one click on PREPARE & IMPORT or IMPORT ONLY is worth (SPEC.md, 7):*)
(* at most one Import, never without permission, never beside another, and *)
(* none at all once the click was ended.                                   *)
(***************************************************************************)
EXTENDS Naturals

CONSTANT MaxClicks

Click == 1..MaxClicks
Stages == {"none", "asked", "importing", "over"}

VARIABLES
    stage,       \* how far each click is
    permitted,   \* clicks whose Import the user or the Preparation allowed
    working      \* whether an Import is at work

Init == stage = [click \in Click |-> "none"] /\ permitted = {} /\ working = FALSE

\* The user or the Preparation may allow a click's Import at any step of it.
MayPermit(click) == permitted' \in {permitted, permitted \cup {click}}

NextClick(click) == \A other \in Click : stage[other] = IF other < click THEN "over" ELSE "none"

Ask(click) ==
    /\ NextClick(click) /\ ~working
    /\ stage' = [stage EXCEPT ![click] = "asked"]
    /\ MayPermit(click) /\ UNCHANGED working

\* An Import starts for the click that was just made or is being asked about;
\* it may be over as soon as it started.
Import(click) ==
    /\ stage[click] = "asked" \/ NextClick(click)
    /\ MayPermit(click) /\ click \in permitted'
    /\ ~working /\ working' \in BOOLEAN
    /\ stage' = [stage EXCEPT ![click] = IF working' THEN "importing" ELSE "over"]

Permit(click) == stage[click] = "asked" /\ MayPermit(click) /\ UNCHANGED <<stage, working>>

GiveUp(click) ==
    /\ stage[click] = "asked" \/ NextClick(click)
    /\ stage' = [stage EXCEPT ![click] = "over"]
    /\ MayPermit(click) /\ UNCHANGED working

WorkEnds == working /\ working' = FALSE /\ UNCHANGED <<stage, permitted>>

\* Not before its Import is at rest.
End(click) ==
    /\ stage[click] = "importing" /\ ~working
    /\ stage' = [stage EXCEPT ![click] = "over"] /\ UNCHANGED <<permitted, working>>

Crash ==
    /\ stage' = [click \in Click |-> IF stage[click] = "none" THEN "none" ELSE "over"]
    /\ working' = FALSE /\ UNCHANGED permitted

Next ==
    \/ Crash \/ WorkEnds
    \/ \E click \in Click : Ask(click) \/ Permit(click) \/ GiveUp(click) \/ Import(click) \/ End(click)

Spec == Init /\ [][Next]_<<stage, permitted, working>>
==============================================================================
