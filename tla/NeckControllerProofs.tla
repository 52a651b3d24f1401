-------------------------- MODULE NeckControllerProofs --------------------------
(***************************************************************************)
(* The properties of the neck controller for every configuration that the  *)
(* constructor accepts, every set of orientations and any length of run.   *)
(***************************************************************************)
EXTENDS NeckController, NeckPipelineProofs

(* The target and the clock are consistent: the last update is not in the  *)
(* future, nor before the recentring it followed.                          *)
Timely ==
    origin.at <= neck.lastUpdate /\ neck.lastUpdate <= now

(* While the head is still since a bumpless recentring, the request of the *)
(* pipeline is the preserved target itself.                                *)
AtRest ==
    still => /\ neck.lastTarget = origin.target
             /\ neck.base = neck.lastTarget
             /\ neck.filtered = Level

IInv == TypeOK /\ Timely /\ WithinLimits /\ TravelBudget /\ AtRest

(* In the initial state and after a recentring nothing has moved.          *)
LEMMA InitInvariant == Init => IInv
<1> SUFFICES ASSUME Init PROVE IInv
  OBVIOUS
<1>1. neck = NewNeck /\ neck \in NeckState /\ Limited(neck)
  BY NewNeckType DEF Init
<1>2. TypeOK
  <2>1. Initial \in Degrees
    BY NeckConfig
  <2>2. now \in 0..MaxTime /\ origin \in [target : Degrees, at : 0..MaxTime]
    BY <2>1, MaxTimeType DEF Init
  <2>3. still \in BOOLEAN
    BY DEF Init
  <2> QED BY <1>1, <2>2, <2>3 DEF TypeOK
<1>3. Timely /\ AtRest
  BY <1>1 DEF Init, Timely, AtRest, NewNeck
<1>4. WithinLimits
  BY <1>1 DEF WithinLimits, Limited
<1>5. TravelBudget
  <2> SUFFICES ASSUME NEW a \in Axis
               PROVE  /\ neck.lastTarget[a] - origin.target[a] <= MaxRate[a] * (neck.lastUpdate - origin.at)
                      /\ origin.target[a] - neck.lastTarget[a] <= MaxRate[a] * (neck.lastUpdate - origin.at)
    BY DEF TravelBudget
  <2>1. neck.lastTarget[a] = Initial[a] /\ origin.target[a] = Initial[a]
    BY DEF Init, NewNeck
  <2>2. neck.lastUpdate - origin.at = 0
    BY DEF Init, NewNeck
  <2>3. Initial[a] \in Int /\ MaxRate[a] \in Nat
    BY NeckConfig DEF Degrees
  <2> QED BY <2>1, <2>2, <2>3
<1> QED BY <1>2, <1>3, <1>4, <1>5 DEF IInv

(* recenter keeps the invariant: the budget starts again from the target   *)
(* it leaves, and preserving the target puts the pipeline at rest.         *)
LEMMA RecenterInvariant ==
    ASSUME IInv, NEW orientation \in Orientation, NEW preserve \in BOOLEAN,
           Recenter(orientation, preserve)
    PROVE  IInv'
<1>1. neck \in NeckState /\ now \in Nat /\ orientation \in Orientation /\ Limited(neck)
  BY NeckConfig, MaxTimeType DEF IInv, TypeOK, WithinLimits, Limited
<1>2. neck' = Recentered(neck, orientation, now, preserve)
  BY DEF Recenter
<1>3. neck' \in NeckState /\ Limited(neck')
  BY <1>1, <1>2, RecenteredType
<1>4. /\ origin'.target = neck'.lastTarget /\ origin'.at = now
      /\ neck'.lastUpdate = now /\ now' = now
  BY <1>2 DEF Recenter, Recentered
<1>5. TypeOK'
  <2>1. neck'.lastTarget \in Degrees
    BY <1>3 DEF NeckState
  <2> QED BY <1>3, <2>1 DEF IInv, TypeOK, Recenter
<1>6. Timely'
  BY <1>1, <1>4 DEF Timely
<1>7. WithinLimits'
  BY <1>3 DEF WithinLimits, Limited
<1>8. TravelBudget'
  <2> SUFFICES ASSUME NEW a \in Axis
               PROVE  /\ neck'.lastTarget[a] - origin'.target[a] <= MaxRate[a] * (neck'.lastUpdate - origin'.at)
                      /\ origin'.target[a] - neck'.lastTarget[a] <= MaxRate[a] * (neck'.lastUpdate - origin'.at)
    BY DEF TravelBudget
  <2>1. neck'.lastTarget[a] \in Int /\ MaxRate[a] \in Nat
    BY <1>3, NeckConfig DEF NeckState, Degrees
  <2>2. neck'.lastUpdate - origin'.at = 0
    BY <1>1, <1>4
  <2> QED BY <1>4, <2>1, <2>2
<1>9. AtRest'
  BY <1>2, <1>4 DEF AtRest, Recenter, Recentered
<1> QED BY <1>5, <1>6, <1>7, <1>8, <1>9 DEF IInv

(* An update with the orientation of the reference, at rest, asks for the  *)
(* target there is and leaves the pipeline at rest.                        *)
LEMMA RestingUpdate ==
    ASSUME NEW n \in NeckState, Limited(n), n.base = n.lastTarget, n.filtered = Level,
           NEW time \in Nat, NEW u \in Updated(n, n.reference, time)
    PROVE  u.lastTarget = n.lastTarget /\ u.base = n.base /\ u.filtered = Level
<1>1. PICK alpha \in FilterAlpha(Elapsed(n, time)) : u = UpdatedWith(n, n.reference, time, alpha)
  BY DEF Updated
<1>2. Elapsed(n, time) \in Nat /\ alpha \in Nat
  BY <1>1, ElapsedType, FilterAlphaType
<1> DEFINE filtered == FilterStep(n, n.reference, alpha)
           next == NextTarget(n, filtered, Elapsed(n, time))
<1>3. \A a \in Axis : RelativeAngle(n.reference, n.reference, a) = 0 /\ n.filtered[a] = 0
  BY RelativeAngleType DEF Level, NeckState
<1>4. filtered = Level
  <2>1. 0 + (alpha * (0 - 0)) \div Resolution = 0
    BY <1>2, NeckConfig
  <2> QED BY <1>3, <2>1 DEF FilterStep, Level
<1>5. filtered \in Degrees
  BY <1>4 DEF Level, Degrees
<1>6. \A a \in Axis : n.base[a] + Gain[a] * filtered[a] = n.lastTarget[a]
  <2> SUFFICES ASSUME NEW a \in Axis
               PROVE  n.base[a] + Gain[a] * filtered[a] = n.lastTarget[a]
    OBVIOUS
  <2>1. filtered[a] = 0
    BY <1>4 DEF Level
  <2>2. n.base[a] = n.lastTarget[a] /\ n.lastTarget[a] \in Int /\ Gain[a] \in Int
    BY NeckConfig DEF NeckState, Degrees
  <2> QED BY <2>1, <2>2
<1>7. u = [n EXCEPT !.filtered = filtered, !.lastUpdate = time, !.lastTarget = next]
  BY <1>1 DEF UpdatedWith
<1> HIDE DEF filtered
<1>8. \A a \in Axis : next[a] = n.lastTarget[a]
  BY <1>2, <1>5, <1>6, NextTargetStep
<1>9. next = n.lastTarget
  <2>1. n.lastTarget = [a \in Axis |-> n.lastTarget[a]]
    BY DEF NeckState, Degrees
  <2>2. next = [a \in Axis |-> next[a]]
    BY DEF NextTarget
  <2> HIDE DEF next
  <2> QED BY <1>8, <2>1, <2>2
<1> HIDE DEF next
<1> QED BY <1>4, <1>7, <1>9 DEF NeckState

(* update keeps the invariant: what it adds to the distance travelled is   *)
(* within what the time elapsed adds to the budget.                        *)
LEMMA UpdateInvariant ==
    ASSUME IInv, NEW orientation \in Orientation, Update(orientation)
    PROVE  IInv'
<1>1. /\ neck \in NeckState /\ now \in Nat /\ orientation \in Orientation /\ Limited(neck)
      /\ origin.at \in Nat /\ origin.target \in Degrees
  BY NeckConfig, MaxTimeType DEF IInv, TypeOK, WithinLimits, Limited
<1>2. neck' \in Updated(neck, orientation, now) /\ now' = now /\ origin' = origin
  BY DEF Update
<1>3. /\ neck' \in NeckState /\ Limited(neck') /\ neck'.lastUpdate = now
      /\ \A a \in Axis :
           /\ neck'.lastTarget[a] - neck.lastTarget[a] <= MaxRate[a] * Elapsed(neck, now)
           /\ neck.lastTarget[a] - neck'.lastTarget[a] <= MaxRate[a] * Elapsed(neck, now)
  BY <1>1, <1>2, UpdatedStep
<1>4. neck.lastUpdate \in Nat /\ origin.at <= neck.lastUpdate /\ neck.lastUpdate <= now
  BY <1>1 DEF IInv, Timely, NeckState
<1>5. Elapsed(neck, now) = now - neck.lastUpdate
  BY <1>1, <1>4, ElapsedType
<1>6. TypeOK'
  BY <1>2, <1>3 DEF IInv, TypeOK, Update
<1>7. Timely'
  BY <1>1, <1>2, <1>3, <1>4 DEF Timely
<1>8. WithinLimits'
  BY <1>3 DEF WithinLimits, Limited
<1>9. TravelBudget'
  <2> SUFFICES ASSUME NEW a \in Axis
               PROVE  /\ neck'.lastTarget[a] - origin'.target[a] <= MaxRate[a] * (neck'.lastUpdate - origin'.at)
                      /\ origin'.target[a] - neck'.lastTarget[a] <= MaxRate[a] * (neck'.lastUpdate - origin'.at)
    BY DEF TravelBudget
  <2> DEFINE r == MaxRate[a]
             before == neck.lastUpdate - origin.at
             during == now - neck.lastUpdate
  <2>1. r \in Nat /\ before \in Nat /\ during \in Nat
    BY <1>1, <1>4, NeckConfig
  <2>2. neck.lastTarget[a] \in Int /\ neck'.lastTarget[a] \in Int /\ origin.target[a] \in Int
    BY <1>1, <1>3 DEF NeckState, Degrees
  <2>3. /\ neck.lastTarget[a] - origin.target[a] <= r * before
        /\ origin.target[a] - neck.lastTarget[a] <= r * before
    BY DEF IInv, TravelBudget
  <2>4. /\ neck'.lastTarget[a] - neck.lastTarget[a] <= r * during
        /\ neck.lastTarget[a] - neck'.lastTarget[a] <= r * during
    BY <1>3, <1>5
  <2>5. neck'.lastUpdate - origin'.at = before + during
    BY <1>1, <1>2, <1>3, <1>4
  <2> HIDE DEF r, before, during
  <2>6. r * (before + during) = r * before + r * during
    BY <2>1
  <2>7. r * before \in Int /\ r * during \in Int
    BY <2>1
  <2>8. /\ neck'.lastTarget[a] - origin.target[a] <= r * before + r * during
        /\ origin.target[a] - neck'.lastTarget[a] <= r * before + r * during
    BY <2>2, <2>3, <2>4, <2>7
  <2> QED BY <1>2, <2>5, <2>6, <2>8 DEF r
<1>10. AtRest'
  <2> SUFFICES ASSUME still'
               PROVE  /\ neck'.lastTarget = origin'.target
                      /\ neck'.base = neck'.lastTarget
                      /\ neck'.filtered = Level
    BY DEF AtRest
  <2>1. still /\ orientation = neck.reference
    BY DEF Update
  <2>2. neck.lastTarget = origin.target /\ neck.base = neck.lastTarget /\ neck.filtered = Level
    BY <2>1 DEF IInv, AtRest
  <2>3. neck'.lastTarget = neck.lastTarget /\ neck'.base = neck.base /\ neck'.filtered = Level
    BY <1>1, <1>2, <2>1, <2>2, RestingUpdate
  <2> QED BY <1>2, <2>2, <2>3
<1> QED BY <1>6, <1>7, <1>8, <1>9, <1>10 DEF IInv

LEMMA StepInvariant == IInv /\ [Next]_vars => IInv'
<1> SUFFICES ASSUME IInv, [Next]_vars PROVE IInv'
  OBVIOUS
<1>1. ASSUME NEW orientation \in Orientation, NEW preserve \in BOOLEAN,
             Recenter(orientation, preserve)
      PROVE  IInv'
  BY <1>1, RecenterInvariant
<1>2. ASSUME NEW orientation \in Orientation, Update(orientation) PROVE IInv'
  BY <1>2, UpdateInvariant
<1>3. CASE Tick
  <2>1. now' \in 0..MaxTime /\ now <= now' /\ UNCHANGED <<neck, origin, still>>
    BY <1>3, MaxTimeType DEF Tick, IInv, TypeOK
  <2>2. neck.lastUpdate <= now'
    <3>1. neck.lastUpdate \in Nat /\ now \in Nat
      BY MaxTimeType DEF IInv, TypeOK, NeckState
    <3> QED BY <2>1, <3>1, MaxTimeType DEF IInv, Timely
  <2> QED BY <2>1, <2>2 DEF IInv, TypeOK, Timely, WithinLimits, TravelBudget, AtRest
<1>4. CASE UNCHANGED vars
  BY <1>4 DEF vars, IInv, TypeOK, Timely, WithinLimits, TravelBudget, AtRest
<1> QED BY <1>1, <1>2, <1>3, <1>4 DEF Next

THEOREM Invariance == Spec => []IInv
BY InitInvariant, StepInvariant, PTL DEF Spec

(* Type correctness of the controller's attributes.                        *)
THEOREM NeckTypeCorrect == Spec => []TypeOK
<1>1. IInv => TypeOK
  BY DEF IInv
<1> QED BY <1>1, Invariance, PTL

(* Every target the controller ever holds is within the mechanical limits, *)
(* although the centre and the gain are not checked against them.          *)
THEOREM LimitsHold == Spec => []WithinLimits
<1>1. IInv => WithinLimits
  BY DEF IInv
<1> QED BY <1>1, Invariance, PTL

(* Since the last recentring the target has moved at most rate times time  *)
(* from where it was, for any pattern of poses and silence.                *)
THEOREM BudgetHolds == Spec => []TravelBudget
<1>1. IInv => TravelBudget
  BY DEF IInv
<1> QED BY <1>1, Invariance, PTL

(* Recentring in motion never makes the neck move by itself.               *)
THEOREM RecenterIsBumpless == Spec => []BumplessRecenter
<1>1. IInv => BumplessRecenter
  BY DEF IInv, AtRest, BumplessRecenter
<1> QED BY <1>1, Invariance, PTL
================================================================================
