------------------------------ MODULE NeckPipeline ------------------------------
(***************************************************************************)
(* The neck control pipeline of robot/vr_gateway/neck.py as operators on   *)
(* the controller's state: recentring, and one update of the pipeline      *)
(*     relative angle -> low-pass filter -> gain -> rate limit -> clamp.   *)
(*                                                                         *)
(* Angles are whole degrees and time is whole ticks.  An orientation is a  *)
(* value of its own (a unit quaternion), and what the quaternion algebra   *)
(* makes of two of them is a parameter, of which the properties need only  *)
(* that an orientation has no angle relative to itself.  The filter        *)
(* coefficient, one per update and shared by the axes, is                  *)
(* alpha / Resolution.                                                     *)
(***************************************************************************)
EXTENDS Integers

CONSTANTS
    Axis,         \* the controlled axes: pan (from yaw) and tilt (from pitch)
    Orientation,  \* the head orientations that poses carry
    Identity,     \* Quaternion(0, 0, 0, 1)
    Relative,     \* yaw and pitch of an orientation relative to a reference
    Center,       \* center_*_degrees, unconstrained by the configuration checks
    Initial,      \* initial_*_degrees, checked against the mechanical limits
    Gain,         \* *_gain
    MaxRate,      \* max_*_rate, degrees per tick
    Minimum,      \* min_*_degrees
    Maximum,      \* max_*_degrees
    Filtered,     \* TRUE when filter_time_constant_seconds > 0
    Resolution    \* denominator of the filter coefficient

Degrees == [Axis -> Int]

(* NeckControlConfig.__post_init__: what a configuration must satisfy.     *)
ASSUME NeckConfig ==
    /\ Identity \in Orientation
    /\ Relative \in [Orientation -> [Orientation -> Degrees]]
    /\ \A o \in Orientation, a \in Axis : Relative[o][o][a] = 0
    /\ Center \in Degrees /\ Initial \in Degrees /\ Gain \in Degrees
    /\ MaxRate \in [Axis -> Nat \ {0}]
    /\ Minimum \in Degrees /\ Maximum \in Degrees
    /\ \A a \in Axis : Minimum[a] <= Initial[a] /\ Initial[a] <= Maximum[a]
    /\ Filtered \in BOOLEAN
    /\ Resolution \in Nat \ {0}

NeckState ==
    [ reference  : Orientation, \* _reference
      base       : Degrees,   \* _base_*_degrees
      filtered   : Degrees,   \* _filtered_*_degrees
      lastUpdate : Nat,       \* _last_update_ns
      lastTarget : Degrees ]  \* _last_target

Level == [a \in Axis |-> 0]

(* Faulty variant of NewNeck: "never updated" is encoded as a time.        *)
NewNeckNeverUpdated ==
    [ reference  |-> Identity, base |-> Center, filtered |-> Level,
      lastUpdate |-> -1, lastTarget |-> Initial ]

NewNeck ==
    [ reference  |-> Identity,
      base       |-> Center,
      filtered   |-> Level,
      lastUpdate |-> 0,
      lastTarget |-> Initial ]

(* Faulty variants of Recentered: the target jumps to the unchecked centre,*)
(* or back to the initial target; the filter keeps what it had seen.       *)
RecenteredAtCenter(n, orientation, now, preserve) ==
    [ reference  |-> orientation,
      base       |-> IF preserve THEN n.lastTarget ELSE Center,
      filtered   |-> Level,
      lastUpdate |-> now,
      lastTarget |-> IF preserve THEN n.lastTarget ELSE Center ]

RecenteredAtInitial(n, orientation, now, preserve) ==
    [ reference  |-> orientation, base |-> Center, filtered |-> Level,
      lastUpdate |-> now, lastTarget |-> Initial ]

RecenteredWithOldFilter(n, orientation, now, preserve) ==
    [ reference  |-> orientation,
      base       |-> IF preserve THEN n.lastTarget ELSE Center,
      filtered   |-> n.filtered,
      lastUpdate |-> now,
      lastTarget |-> IF preserve THEN n.lastTarget ELSE Initial ]

Recentered(n, orientation, now, preserve) ==
    [ reference  |-> orientation,
      base       |-> IF preserve THEN n.lastTarget ELSE Center,
      filtered   |-> Level,
      lastUpdate |-> now,
      lastTarget |-> IF preserve THEN n.lastTarget ELSE Initial ]

--------------------------------------------------------------------------------

Clamp(value, low, high) ==
    LET raised == IF value < low THEN low ELSE value
    IN  IF raised > high THEN high ELSE raised

RateLimit(requested, previous, delta) ==
    Clamp(requested, previous - delta, previous + delta)

RelativeAngle(reference, orientation, a) == Relative[reference][orientation][a]

(* Faulty variant of Elapsed: never zero, so that an update always moves.  *)
ElapsedAtLeastOne(n, now) == IF now > n.lastUpdate THEN now - n.lastUpdate ELSE 1

Elapsed(n, now) == IF now > n.lastUpdate THEN now - n.lastUpdate ELSE 0

(* 1 - exp(-dt / tau): no filtering without a time constant, no progress   *)
(* without elapsed time, and otherwise anything up to a complete step (the *)
(* exponential underflows to zero).                                        *)
FilterAlpha(dt) ==
    IF ~Filtered THEN {Resolution}
    ELSE IF dt = 0 THEN {0} ELSE 1..Resolution

FilterStep(n, orientation, alpha) ==
    [a \in Axis |->
        n.filtered[a] +
          (alpha * (RelativeAngle(n.reference, orientation, a) - n.filtered[a]))
            \div Resolution]

NextTarget(n, filtered, dt) ==
    [a \in Axis |->
        Clamp(RateLimit(n.base[a] + Gain[a] * filtered[a],
                        n.lastTarget[a], MaxRate[a] * dt),
              Minimum[a], Maximum[a])]

(* Faulty variant of UpdatedWith: the time of the update is not recorded.  *)
UpdatedWithOldClock(n, orientation, now, alpha) ==
    LET filtered == FilterStep(n, orientation, alpha)
    IN  [ n EXCEPT !.filtered   = filtered,
                   !.lastTarget = NextTarget(n, filtered, Elapsed(n, now)) ]

UpdatedWith(n, orientation, now, alpha) ==
    LET filtered == FilterStep(n, orientation, alpha)
    IN  [ n EXCEPT !.filtered   = filtered,
                   !.lastUpdate = now,
                   !.lastTarget = NextTarget(n, filtered, Elapsed(n, now)) ]

(* The states one call of update may leave the controller in.              *)
Updated(n, orientation, now) ==
    {UpdatedWith(n, orientation, now, alpha) : alpha \in FilterAlpha(Elapsed(n, now))}
================================================================================
