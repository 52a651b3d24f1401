--------------------------- MODULE NeckPipelineProofs ---------------------------
(***************************************************************************)
(* What the operators of the pipeline return, for every configuration the  *)
(* constructor of NeckControlConfig accepts.                               *)
(***************************************************************************)
EXTENDS NeckPipeline, TLAPS

(* The commanded target of a controller state is within the mechanical     *)
(* interval of every axis.                                                 *)
Limited(n) ==
    \A a \in Axis : Minimum[a] <= n.lastTarget[a] /\ n.lastTarget[a] <= Maximum[a]

(* A relative angle is an angle, and it is zero between an orientation and *)
(* itself.                                                                 *)
LEMMA RelativeAngleType ==
    ASSUME NEW reference \in Orientation, NEW orientation \in Orientation, NEW a \in Axis
    PROVE  /\ RelativeAngle(reference, orientation, a) \in Int
           /\ orientation = reference => RelativeAngle(reference, orientation, a) = 0
<1>1. Relative[reference][orientation] \in Degrees
  BY NeckConfig
<1>2. Relative[reference][orientation][a] \in Int
  BY <1>1 DEF Degrees
<1>3. Relative[reference][reference][a] = 0
  BY NeckConfig
<1> QED BY <1>2, <1>3 DEF RelativeAngle

LEMMA NewNeckType == NewNeck \in NeckState /\ Limited(NewNeck)
BY NeckConfig DEF NewNeck, NeckState, Degrees, Level, Limited

LEMMA RecenteredType ==
    ASSUME NEW n \in NeckState, NEW orientation \in Orientation, NEW now \in Nat,
           NEW preserve \in BOOLEAN
    PROVE  /\ Recentered(n, orientation, now, preserve) \in NeckState
           /\ Limited(n) => Limited(Recentered(n, orientation, now, preserve))
BY NeckConfig DEF Recentered, NeckState, Degrees, Level, Limited

LEMMA ElapsedType ==
    ASSUME NEW n \in NeckState, NEW now \in Nat
    PROVE  /\ Elapsed(n, now) \in Nat
           /\ n.lastUpdate <= now => Elapsed(n, now) = now - n.lastUpdate
BY DEF Elapsed, NeckState

LEMMA FilterAlphaType ==
    ASSUME NEW dt \in Nat, NEW alpha \in FilterAlpha(dt)
    PROVE  alpha \in Nat
BY NeckConfig DEF FilterAlpha

LEMMA FilterStepType ==
    ASSUME NEW n \in NeckState, NEW orientation \in Orientation, NEW alpha \in Nat
    PROVE  FilterStep(n, orientation, alpha) \in Degrees
<1> SUFFICES ASSUME NEW a \in Axis
             PROVE  n.filtered[a] +
                      (alpha * (RelativeAngle(n.reference, orientation, a) - n.filtered[a]))
                        \div Resolution \in Int
  BY DEF FilterStep, Degrees
<1>1. n.reference \in Orientation /\ n.filtered[a] \in Int
  BY DEF NeckState, Degrees
<1>2. RelativeAngle(n.reference, orientation, a) \in Int
  BY <1>1, RelativeAngleType
<1>3. alpha * (RelativeAngle(n.reference, orientation, a) - n.filtered[a]) \in Int
  BY <1>1, <1>2
<1> HIDE DEF RelativeAngle
<1> QED BY <1>1, <1>3, NeckConfig

(* The target of an update is within the limits, and no further from the   *)
(* previous one than the rate allows in the time elapsed; a request for    *)
(* the previous target repeats it.                                         *)
LEMMA NextTargetStep ==
    ASSUME NEW n \in NeckState, Limited(n), NEW filtered \in Degrees, NEW dt \in Nat,
           NEW a \in Axis
    PROVE  LET next == NextTarget(n, filtered, dt)[a]
           IN  /\ next \in Int
               /\ Minimum[a] <= next /\ next <= Maximum[a]
               /\ next - n.lastTarget[a] <= MaxRate[a] * dt
               /\ n.lastTarget[a] - next <= MaxRate[a] * dt
               /\ n.base[a] + Gain[a] * filtered[a] = n.lastTarget[a] => next = n.lastTarget[a]
<1> DEFINE request == n.base[a] + Gain[a] * filtered[a]
           reach == MaxRate[a] * dt
<1>1. request \in Int /\ n.lastTarget[a] \in Int
  <2>1. n.base[a] \in Int /\ Gain[a] \in Int /\ filtered[a] \in Int /\ n.lastTarget[a] \in Int
    BY NeckConfig DEF NeckState, Degrees
  <2> QED BY <2>1
<1>2. reach \in Nat
  <2>1. MaxRate[a] \in Nat
    BY NeckConfig
  <2> QED BY <2>1
<1>3. /\ Minimum[a] \in Int /\ Maximum[a] \in Int
      /\ Minimum[a] <= n.lastTarget[a] /\ n.lastTarget[a] <= Maximum[a]
  BY NeckConfig DEF Limited, Degrees
<1>4. NextTarget(n, filtered, dt)[a]
        = Clamp(RateLimit(request, n.lastTarget[a], reach), Minimum[a], Maximum[a])
  BY DEF NextTarget
<1> DEFINE low == Minimum[a]
           high == Maximum[a]
           previous == n.lastTarget[a]
<1>5. /\ request \in Int /\ previous \in Int /\ reach \in Nat
      /\ low \in Int /\ high \in Int /\ low <= previous /\ previous <= high
  BY <1>1, <1>2, <1>3
<1> HIDE DEF request, reach, low, high, previous
<1>6. LET next == Clamp(RateLimit(request, previous, reach), low, high)
      IN  /\ next \in Int
          /\ low <= next /\ next <= high
          /\ next - previous <= reach /\ previous - next <= reach
          /\ request = previous => next = previous
  BY <1>5 DEF Clamp, RateLimit
<1> QED BY <1>4, <1>6 DEF request, reach, low, high, previous

(* One call of update keeps the state well-formed and the target limited,  *)
(* and moves each axis by no more than its rate times the time elapsed.    *)
LEMMA UpdatedStep ==
    ASSUME NEW n \in NeckState, Limited(n), NEW orientation \in Orientation, NEW now \in Nat,
           NEW u \in Updated(n, orientation, now)
    PROVE  /\ u \in NeckState /\ Limited(u)
           /\ u.lastUpdate = now
           /\ \A a \in Axis :
                /\ u.lastTarget[a] - n.lastTarget[a] <= MaxRate[a] * Elapsed(n, now)
                /\ n.lastTarget[a] - u.lastTarget[a] <= MaxRate[a] * Elapsed(n, now)
<1>1. PICK alpha \in FilterAlpha(Elapsed(n, now)) : u = UpdatedWith(n, orientation, now, alpha)
  BY DEF Updated
<1>2. Elapsed(n, now) \in Nat /\ alpha \in Nat
  BY <1>1, ElapsedType, FilterAlphaType
<1> DEFINE filtered == FilterStep(n, orientation, alpha)
           next == NextTarget(n, filtered, Elapsed(n, now))
<1>3. filtered \in Degrees
  BY <1>2, FilterStepType
<1>4. u = [n EXCEPT !.filtered = filtered, !.lastUpdate = now, !.lastTarget = next]
  BY <1>1 DEF UpdatedWith
<1> HIDE DEF filtered
<1>5. \A a \in Axis :
        /\ next[a] \in Int
        /\ Minimum[a] <= next[a] /\ next[a] <= Maximum[a]
        /\ next[a] - n.lastTarget[a] <= MaxRate[a] * Elapsed(n, now)
        /\ n.lastTarget[a] - next[a] <= MaxRate[a] * Elapsed(n, now)
  BY <1>2, <1>3, NextTargetStep
<1>6. next \in Degrees
  BY <1>5 DEF NextTarget, Degrees
<1> HIDE DEF next
<1>7. u \in NeckState /\ u.lastTarget = next /\ u.lastUpdate = now
  BY <1>3, <1>4, <1>6 DEF NeckState
<1> QED BY <1>5, <1>7 DEF Limited
================================================================================
