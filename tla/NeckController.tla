----------------------------- MODULE NeckController -----------------------------
(***************************************************************************)
(* The neck controller on its own: any caller recentres it, preserving the *)
(* target or not, and feeds it poses, at any pace of a monotonic clock.    *)
(*                                                                         *)
(* Two history variables remember the last recentring: origin is the       *)
(* target it left and the moment it happened, and still says that it       *)
(* preserved the target and that every pose since had the orientation it   *)
(* recentred on.                                                           *)
(***************************************************************************)
EXTENDS NeckPipeline

CONSTANT MaxTime   \* bound on the clock

ASSUME MaxTimeType == MaxTime \in Nat

VARIABLES neck, now, origin, still

vars == <<neck, now, origin, still>>

Init ==
    /\ neck = NewNeck
    /\ now = 0
    /\ origin = [target |-> Initial, at |-> 0]
    /\ still = FALSE

(* recenter(orientation, now_ns, preserve_target)                          *)
Recenter(orientation, preserve) ==
    /\ neck' = Recentered(neck, orientation, now, preserve)
    /\ origin' = [target |-> neck'.lastTarget, at |-> now]
    /\ still' = preserve
    /\ UNCHANGED now

(* update(orientation, now_ns)                                             *)
Update(orientation) ==
    /\ neck' \in Updated(neck, orientation, now)
    /\ still' = (still /\ orientation = neck.reference)
    /\ UNCHANGED <<now, origin>>

Tick ==
    /\ now < MaxTime
    /\ now' = now + 1
    /\ UNCHANGED <<neck, origin, still>>

Next ==
    \/ \E orientation \in Orientation, preserve \in BOOLEAN : Recenter(orientation, preserve)
    \/ \E orientation \in Orientation : Update(orientation)
    \/ Tick

Spec == Init /\ [][Next]_vars

--------------------------------------------------------------------------------

TypeOK ==
    /\ neck \in NeckState
    /\ now \in 0..MaxTime
    /\ origin \in [target : Degrees, at : 0..MaxTime]
    /\ still \in BOOLEAN

(* A commanded target never leaves the mechanical interval, whatever the   *)
(* centre, the gain and the sequence of recentrings (_clamp is the last    *)
(* stage, but recenter and __init__ set targets too).                      *)
WithinLimits ==
    \A a \in Axis : Minimum[a] <= neck.lastTarget[a] /\ neck.lastTarget[a] <= Maximum[a]

(* However poses and silence alternate, and whatever seam the head         *)
(* crosses, the commanded target has moved since the last recentring by no *)
(* more than the configured rate times the time that passed (the step      *)
(* between two targets, for which silence could be saved up within this    *)
(* bound, is the matter of PublishedRate in TeleopConsumer).               *)
TravelBudget ==
    \A a \in Axis :
        LET budget == MaxRate[a] * (neck.lastUpdate - origin.at)
        IN  /\ neck.lastTarget[a] - origin.target[a] <= budget
            /\ origin.target[a] - neck.lastTarget[a] <= budget

(* Recentring in motion is bumpless: while the head keeps the orientation  *)
(* it was recentred on, every later target is the one that was preserved,  *)
(* whatever the filter and the base held before.                           *)
BumplessRecenter ==
    still => neck.lastTarget = origin.target
================================================================================
