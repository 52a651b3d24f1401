---------------------------- MODULE VrGatewayProofs ----------------------------
(***************************************************************************)
(* The properties of the gateway for any sessions, commands, timeouts and  *)
(* neck configuration.  The inductive invariant is the coherence of the    *)
(* session fields: it is what makes the gates of handle, each of which     *)
(* passes when the field it reads is None, sound.  With it and with what   *)
(* the events of each call are go the action properties, and the proof     *)
(* that the gateway implements the permission protocol of TeleopSafety.    *)
(* The node that serves it and a consumer of its events follow: they rest  *)
(* on the same invariant, which no surroundings can break.                 *)
(***************************************************************************)
EXTENDS VrGatewayNode, TeleopConsumer, NeckPipelineProofs, SequenceTheorems

IInv == TypeOK /\ SessionCoherence /\ Limited(neck)

Absent == <<None, None, None, None, None>>

(* What the fields of an envelope are.                                     *)
LEMMA CommandType ==
    ASSUME NEW c \in Command
    PROVE  /\ c.command \in CommandName
           /\ c.sessionId \in SessionId /\ c.sessionId # None
           /\ c.sequence \in Sequence /\ c.sequence \in Nat /\ c.sequence # None
           /\ c.timestamp \in Timestamp /\ c.timestamp \in Nat /\ c.timestamp # None
           /\ c.payload \in Payload
<1>1. c \in Envelope
  BY GatewayConstants
<1>2. /\ c.command \in CommandName /\ c.sessionId \in SessionId
      /\ c.sequence \in Sequence /\ c.timestamp \in Timestamp
      /\ c.payload \in Payload
  BY <1>1 DEF Envelope
<1>3. c.sequence \in Int /\ c.timestamp \in Int /\ c.sequence \in Nat /\ c.timestamp \in Nat
  <2>1. /\ \A n \in Sequence : n \in Int /\ n \in Nat
        /\ \A t \in Timestamp : t \in Int /\ t \in Nat
    BY GatewayConstants
  <2>2. c.sequence \in Sequence /\ c.timestamp \in Timestamp
    BY <1>2
  <2> QED BY <2>1, <2>2, Zenon
<1>4. c.sessionId # None /\ c.sequence # None /\ c.timestamp # None
  <2>1. None \notin SessionId /\ None \notin Int
    BY GatewayConstants
  <2> QED BY <1>2, <1>3, <2>1, Zenon
<1> QED BY <1>2, <1>3, <1>4

LEMMA PoseType ==
    ASSUME NEW c \in Command, c.payload.type = "Pose"
    PROVE  c.payload.orientation \in Orientation
<1>1. c.payload \in Payload
  BY CommandType
<1>2. c.payload \in [type : {"Pose"}, orientation : Orientation]
  BY <1>1 DEF Payload
<1> QED BY <1>2, NeckConfig

(* What the gates of handle establish for a command they let through.      *)
LEMMA Gates ==
    ASSUME NEW c \in Command, c.command \notin {"SESSION_START", "EMERGENCY_STOP"},
           Refusal(c) = None
    PROVE  /\ activeSessionId # None /\ c.sessionId = activeSessionId
           /\ lastSequence # None => ~(c.sequence <= lastSequence)
           /\ lastTimestamp # None => ~(c.timestamp < lastTimestamp)
           /\ c.payload.type = ExpectedPayload(c.command)
           /\ HandlerRefusal(c) = None
<1>1. \A code \in RejectionCode : code # None
  BY GatewayConstants
<1>2. /\ "WATCHDOG_ACTIVE" # None /\ "NO_ACTIVE_SESSION" # None /\ "SESSION_MISMATCH" # None
      /\ "STALE_SEQUENCE" # None /\ "STALE_TIMESTAMP" # None /\ "INVALID_PAYLOAD" # None
  BY <1>1 DEF RejectionCode
<1> HIDE DEF HandlerRefusal, ExpectedPayload
<1> QED BY <1>2 DEF Refusal

LEMMA StartGates ==
    ASSUME NEW c \in Command, c.command = "SESSION_START", Refusal(c) = None
    PROVE  /\ state # "ESTOP_LATCHED"
           /\ c.sequence = 1
           /\ c.sessionId \notin usedSessionIds
<1>1. "ESTOP_LATCHED" # None /\ "INVALID_PAYLOAD" # None
  BY GatewayConstants DEF RejectionCode
<1> QED BY <1>1 DEF Refusal, StartRefusal

(* A pose is let through only while the head is active.                    *)
LEMMA PoseGate ==
    ASSUME NEW c \in Command, c.command = "HEAD_POSE", Refusal(c) = None
    PROVE  state = "HEAD_ACTIVE"
<1>1. "MODE_BLOCKED" # None
  BY GatewayConstants DEF RejectionCode
<1>2. HandlerRefusal(c) = None
  BY Gates
<1> QED BY <1>1, <1>2 DEF HandlerRefusal

--------------------------------------------------------------------------------

LEMMA InitInvariant == Init => IInv
<1> SUFFICES ASSUME Init PROVE IInv
  OBVIOUS
<1>1. neck \in NeckState /\ Limited(neck)
  BY NewNeckType DEF Init
<1>2. TypeOK
  BY <1>1 DEF Init, TypeOK, GatewayState
<1>3. SessionCoherence
  BY DEF Init, SessionCoherence, InSession, session
<1> QED BY <1>1, <1>2, <1>3 DEF IInv

(* Evaluating the deadlines either changes nothing or ends the session.    *)
LEMMA DeadlineStep ==
    ASSUME EvaluateDeadline
    PROVE  /\ UNCHANGED <<usedSessionIds, neck, now>>
           /\ \/ Expired /\ state' \in {"IDLE", "SAFE_STOPPED"} /\ session' = Absent
              \/ ~Expired /\ UNCHANGED <<state, session>>
BY DEF EvaluateDeadline, Expired, HandshakeExpired, WatchdogExpired, DeadlineState,
       InvalidateActiveSession, session, Absent

(* Ending the session keeps the invariant in any state outside a session.  *)
LEMMA EndInvariant ==
    ASSUME IInv, session' = Absent, UNCHANGED <<usedSessionIds, neck, now>>,
           state' \in GatewayState \ {"AWAITING_RECENTER", "HEAD_ACTIVE"}
    PROVE  IInv'
<1>1. /\ activeSessionId' = None /\ lastSequence' = None /\ lastTimestamp' = None
      /\ sessionStarted' = None /\ lastValid' = None
  BY DEF session, Absent
<1>2. TypeOK'
  BY <1>1 DEF IInv, TypeOK
<1>3. SessionCoherence'
  BY <1>1 DEF SessionCoherence, InSession, session
<1> QED BY <1>2, <1>3 DEF IInv

LEMMA SameInvariant ==
    ASSUME IInv, UNCHANGED <<state, usedSessionIds, session, neck, now>>
    PROVE  IInv'
BY DEF IInv, TypeOK, SessionCoherence, InSession, session, Limited

LEMMA DeadlineInvariant ==
    ASSUME IInv, EvaluateDeadline
    PROVE  IInv'
<1>1. CASE state' \in {"IDLE", "SAFE_STOPPED"} /\ session' = Absent
  BY <1>1, DeadlineStep, EndInvariant DEF GatewayState
<1>2. CASE UNCHANGED <<state, session>>
  BY <1>2, DeadlineStep, SameInvariant
<1> QED BY <1>1, <1>2, DeadlineStep

(* Accepting a command of the open session, in a state of a session.       *)
LEMMA AcceptInvariant ==
    ASSUME IInv, InSession, InSession', NEW c \in Command, Accept(c),
           UNCHANGED <<usedSessionIds, activeSessionId, sessionStarted, now>>,
           state' \in GatewayState, neck' \in NeckState, Limited(neck')
    PROVE  IInv'
<1>1. TypeOK'
  BY CommandType DEF IInv, TypeOK, Accept
<1>2. SessionCoherence'
  <2>1. /\ activeSessionId \in usedSessionIds /\ now \in Nat
        /\ sessionStarted \in Nat /\ sessionStarted <= now
    BY DEF IInv, SessionCoherence, TypeOK
  <2>2. lastSequence' # None /\ lastTimestamp' # None /\ lastValid' = now
    BY CommandType DEF Accept
  <2> QED BY <2>1, <2>2 DEF SessionCoherence
<1> QED BY <1>1, <1>2 DEF IInv

LEMMA SessionStartInvariant ==
    ASSUME IInv, NEW c \in Command, SessionStart(c)
    PROVE  IInv'
<1>1. TypeOK'
  BY CommandType DEF IInv, TypeOK, SessionStart, Accept, GatewayState
<1>2. SessionCoherence'
  BY CommandType DEF IInv, TypeOK, SessionStart, Accept, SessionCoherence, InSession
<1> QED BY <1>1, <1>2 DEF IInv, SessionStart, Limited

(* An open session is what the gates require, so the states of a session   *)
(* are the only ones in which a handler runs.                              *)
LEMMA AdmittedInSession ==
    ASSUME IInv, NEW c \in Command, c.command \notin {"SESSION_START", "EMERGENCY_STOP"},
           Refusal(c) = None
    PROVE  InSession
BY Gates DEF IInv, SessionCoherence, session

(* Every call of handle keeps the invariant.                               *)
LEMMA HandleInvariant ==
    ASSUME IInv, NEW c \in Command, Handle(c)
    PROVE  IInv'
<1>1. CASE RejectMalformedStop(c) \/ RejectExpired(c)
  BY <1>1, DeadlineInvariant DEF RejectMalformedStop, RejectExpired
<1>2. CASE Reject(c)
  BY <1>2, SameInvariant DEF Reject
<1>3. CASE SessionStart(c)
  BY <1>3, SessionStartInvariant
<1>4. CASE ModeSet(c)
  <2>1. InSession
    BY <1>4, AdmittedInSession DEF ModeSet, Admitted
  <2>2. UNCHANGED <<state, usedSessionIds, activeSessionId, sessionStarted, neck, now>> /\ Accept(c)
    BY <1>4 DEF ModeSet
  <2> QED BY <2>1, <2>2, AcceptInvariant DEF InSession, IInv, TypeOK
<1>5. CASE HeadRecenter(c)
  <2>1. InSession /\ c.payload.type = "Pose"
    BY <1>5, AdmittedInSession, Gates DEF HeadRecenter, Admitted, ExpectedPayload
  <2>2. /\ neck' = Recentered(neck, c.payload.orientation, now, state = "HEAD_ACTIVE")
        /\ Accept(c) /\ state' = "HEAD_ACTIVE"
        /\ UNCHANGED <<usedSessionIds, activeSessionId, sessionStarted, now>>
    BY <1>5 DEF HeadRecenter
  <2>3. neck' \in NeckState /\ Limited(neck')
    <3>1. c.payload.orientation \in Orientation
      BY <2>1, PoseType
    <3>2. neck \in NeckState /\ now \in Nat /\ Limited(neck)
      BY DEF IInv, TypeOK
    <3>3. (state = "HEAD_ACTIVE") \in BOOLEAN
      OBVIOUS
    <3> QED BY <2>2, <3>1, <3>2, <3>3, RecenteredType
  <2> QED BY <2>1, <2>2, <2>3, AcceptInvariant DEF InSession, GatewayState
<1>6. CASE HeadPose(c)
  <2>1. InSession /\ c.payload.type = "Pose"
    BY <1>6, AdmittedInSession, Gates DEF HeadPose, Admitted, ExpectedPayload
  <2>2. /\ neck' \in Updated(neck, c.payload.orientation, now) /\ Accept(c)
        /\ UNCHANGED <<state, usedSessionIds, activeSessionId, sessionStarted, now>>
    BY <1>6 DEF HeadPose
  <2>3. neck' \in NeckState /\ Limited(neck')
    <3>1. c.payload.orientation \in Orientation
      BY <2>1, PoseType
    <3>2. neck \in NeckState /\ now \in Nat /\ Limited(neck)
      BY DEF IInv, TypeOK
    <3> QED BY <2>2, <3>1, <3>2, UpdatedStep
  <2> QED BY <2>1, <2>2, <2>3, AcceptInvariant DEF InSession, IInv, TypeOK
<1>7. CASE SessionStop(c)
  BY <1>7, EndInvariant DEF SessionStop, InvalidateActiveSession, session, Absent, GatewayState
<1>8. CASE EmergencyStop(c)
  BY <1>8, EndInvariant DEF EmergencyStop, InvalidateActiveSession, session, Absent, GatewayState
<1> QED BY <1>1, <1>2, <1>3, <1>4, <1>5, <1>6, <1>7, <1>8 DEF Handle

LEMMA StepInvariant == IInv /\ [Next]_vars => IInv'
<1> SUFFICES ASSUME IInv, [Next]_vars PROVE IInv'
  OBVIOUS
<1>1. ASSUME NEW c \in Command, Handle(c) PROVE IInv'
  BY <1>1, HandleInvariant
<1>2. ASSUME NEW sid, NEW seq, HandleInvalid(sid, seq) PROVE IInv'
  BY <1>2, DeadlineInvariant DEF HandleInvalid
<1>3. CASE Poll
  BY <1>3, DeadlineInvariant DEF Poll
<1>4. CASE Tick
  <2>1. now' \in Nat /\ now <= now' /\ UNCHANGED <<state, usedSessionIds, session, neck>>
    BY <1>4 DEF Tick, IInv, TypeOK
  <2>2. TypeOK'
    BY <2>1 DEF IInv, TypeOK, session
  <2>3. SessionCoherence'
    BY <2>1 DEF IInv, TypeOK, SessionCoherence, InSession, session
  <2> QED BY <2>1, <2>2, <2>3 DEF IInv, Limited
<1>5. CASE UNCHANGED vars
  BY <1>5, SameInvariant DEF vars
<1> QED BY <1>1, <1>2, <1>3, <1>4, <1>5 DEF Next

THEOREM Invariance == Spec => []IInv
BY InitInvariant, StepInvariant, PTL DEF Spec

(* Type correctness of the gateway's attributes.                           *)
THEOREM TypeCorrect == Spec => []TypeOK
<1>1. IInv => TypeOK
  BY DEF IInv
<1> QED BY <1>1, Invariance, PTL

(* The session attributes agree after any sequence of calls.               *)
THEOREM SessionsAreCoherent == Spec => []SessionCoherence
<1>1. IInv => SessionCoherence
  BY DEF IInv
<1> QED BY <1>1, Invariance, PTL

(* No command makes the gateway hold a target outside the mechanical       *)
(* limits, whatever the centre, the gain and the order of the calls.       *)
THEOREM NeckStaysLimited == Spec => []Limited(neck)
<1>1. IInv => Limited(neck)
  BY DEF IInv
<1> QED BY <1>1, Invariance, PTL

--------------------------------------------------------------------------------
(* Concatenations of short tuples, and the events in them.                 *)

LEMMA ConcatOneOne ==
    ASSUME NEW a, NEW b
    PROVE  <<a>> \o <<b>> = <<a, b>>
<1> DEFINE S == {a, b}
           s == <<a>> \o <<b>>
           t == <<a, b>>
<1>1. s \in Seq(S) /\ t \in Seq(S) /\ Len(s) = 2 /\ Len(t) = 2
  OBVIOUS
<1>2. s[1] = t[1] /\ s[2] = t[2]
  OBVIOUS
<1>3. \A i \in 1..Len(s) : s[i] = t[i]
  <2>1. \A i \in 1..2 : i = 1 \/ i = 2
    OBVIOUS
  <2> HIDE DEF s, t
  <2> QED BY <1>1, <1>2, <2>1
<1> HIDE DEF s, t, S
<1>4. s = t
  BY <1>1, <1>3, SeqEqual
<1> QED BY <1>4 DEF s, t

LEMMA ConcatTwoOne ==
    ASSUME NEW a, NEW b, NEW c
    PROVE  <<a, b>> \o <<c>> = <<a, b, c>>
<1> DEFINE S == {a, b, c}
           s == <<a, b>> \o <<c>>
           t == <<a, b, c>>
<1>1. s \in Seq(S) /\ t \in Seq(S) /\ Len(s) = 3 /\ Len(t) = 3
  OBVIOUS
<1>2. s[1] = t[1] /\ s[2] = t[2] /\ s[3] = t[3]
  OBVIOUS
<1>3. \A i \in 1..Len(s) : s[i] = t[i]
  <2>1. \A i \in 1..3 : i = 1 \/ i = 2 \/ i = 3
    OBVIOUS
  <2> HIDE DEF s, t
  <2> QED BY <1>1, <1>2, <2>1
<1> HIDE DEF s, t, S
<1>4. s = t
  BY <1>1, <1>3, SeqEqual
<1> QED BY <1>4 DEF s, t

LEMMA NoEvents == out' = <<>> => Events' = {}
BY DEF Events

LEMMA OneEvent ==
    ASSUME NEW a, out' = <<a>>
    PROVE  Events' = {a}
BY DEF Events

LEMMA TwoEvents ==
    ASSUME NEW a, NEW b, out' = <<a, b>>
    PROVE  Events' = {a, b}
<1>1. Len(out') = 2 /\ out'[1] = a /\ out'[2] = b
  OBVIOUS
<1>2. 1..2 = {1, 2}
  OBVIOUS
<1> QED BY <1>1, <1>2 DEF Events

LEMMA ThreeEvents ==
    ASSUME NEW a, NEW b, NEW c, out' = <<a, b, c>>
    PROVE  Events' = {a, b, c}
<1>1. Len(out') = 3 /\ out'[1] = a /\ out'[2] = b /\ out'[3] = c
  OBVIOUS
<1>2. 1..3 = {1, 2, 3}
  OBVIOUS
<1> QED BY <1>1, <1>2 DEF Events

--------------------------------------------------------------------------------
(* The events of each call.                                                *)

LEMMA TransitionShape ==
    ASSUME NEW s, NEW sid, NEW seq
    PROVE  /\ state = s => TransitionEvents(s, sid, seq) = <<>>
           /\ state # s => TransitionEvents(s, sid, seq) = <<GatewayStateEvent(s, sid, seq)>>
BY DEF TransitionEvents

(* A deadline evaluation that changes the state announces what it does.    *)
LEMMA DeadlineShape ==
    /\ HandshakeExpired =>
         DeadlineEvents = <<GatewayStateEvent("IDLE", activeSessionId, lastSequence)>>
    /\ WatchdogExpired =>
         DeadlineEvents = <<GatewayStateEvent("SAFE_STOPPED", activeSessionId, lastSequence),
                            SafetyStopEvent("WATCHDOG", activeSessionId, lastSequence)>>
    /\ ~Expired => DeadlineEvents = <<>>
<1>1. CASE HandshakeExpired
  <2>1. state # "IDLE" /\ ~WatchdogExpired
    BY <1>1 DEF HandshakeExpired, WatchdogExpired
  <2> HIDE DEF HandshakeExpired, WatchdogExpired
  <2> QED BY <1>1, <2>1, TransitionShape DEF DeadlineEvents, Expired
<1>2. CASE WatchdogExpired
  <2>1. state # "SAFE_STOPPED" /\ ~HandshakeExpired
    BY <1>2 DEF HandshakeExpired, WatchdogExpired
  <2>2. TransitionEvents("SAFE_STOPPED", activeSessionId, lastSequence)
          = <<GatewayStateEvent("SAFE_STOPPED", activeSessionId, lastSequence)>>
    BY <2>1, TransitionShape
  <2> QED BY <1>2, <2>1, <2>2, ConcatOneOne DEF DeadlineEvents, Expired
<1>3. CASE ~Expired
  BY <1>3 DEF DeadlineEvents, Expired
<1> QED BY <1>1, <1>2, <1>3 DEF Expired

(* What a step tells the actuators, from the kinds of its events.          *)
LEMMA QuietSignal ==
    ASSUME \A e \in Events' : e.event \in {"gateway.state", "command.rejected"}
    PROVE  Signal' = "quiet"
BY DEF Signal, Kind

LEMMA StopSignal ==
    ASSUME NEW s \in Events', s.event = "safety.stop",
           \A e \in Events' : e.event # "neck.target"
    PROVE  Signal' = "stop"
<1>1. Kind("neck.target")' = {}
  BY DEF Kind
<1>2. Kind("safety.stop")' # {}
  BY DEF Kind
<1> QED BY <1>1, <1>2 DEF Signal

LEMMA MoveSignal ==
    ASSUME NEW m, m.event = "neck.target", out' = <<m>>
    PROVE  Signal' = "move"
<1>1. Events' = {m}
  BY OneEvent
<1>2. Kind("neck.target")' # {} /\ Kind("safety.stop")' = {}
  BY <1>1 DEF Kind
<1> QED BY <1>2 DEF Signal

LEMMA TransitionSignal ==
    ASSUME NEW s, NEW sid, NEW seq, out' = TransitionEvents(s, sid, seq)
    PROVE  Signal' = "quiet"
<1>1. CASE state = s
  BY <1>1, TransitionShape, NoEvents, QuietSignal
<1>2. CASE state # s
  <2>1. Events' = {GatewayStateEvent(s, sid, seq)}
    BY <1>2, TransitionShape, OneEvent
  <2> QED BY <2>1, QuietSignal DEF GatewayStateEvent
<1> QED BY <1>1, <1>2

LEMMA TransitionStopSignal ==
    ASSUME NEW s, NEW sid, NEW seq, NEW r,
           out' = TransitionEvents(s, sid, seq) \o <<SafetyStopEvent(r, sid, seq)>>
    PROVE  /\ Signal' = "stop"
           /\ \A e \in Events' : e.event # "command.rejected"
<1> DEFINE stop == SafetyStopEvent(r, sid, seq)
           change == GatewayStateEvent(s, sid, seq)
<1>1. stop.event = "safety.stop" /\ change.event = "gateway.state"
  BY DEF SafetyStopEvent, GatewayStateEvent
<1> HIDE DEF stop, change
<1>2. Events' = {stop} \/ Events' = {change, stop}
  <2>1. CASE state = s
    <3>1. out' = <<>> \o <<stop>>
      BY <2>1, TransitionShape DEF stop
    <3>2. <<>> \o <<stop>> = <<stop>>
      OBVIOUS
    <3> QED BY <3>1, <3>2, OneEvent
  <2>2. CASE state # s
    <3>1. out' = <<change>> \o <<stop>>
      BY <2>2, TransitionShape DEF stop, change
    <3>2. out' = <<change, stop>>
      BY <3>1, ConcatOneOne
    <3> QED BY <3>2, TwoEvents
  <2> QED BY <2>1, <2>2
<1> QED BY <1>1, <1>2, StopSignal

(* A deadline evaluation, with or without a rejection after it.            *)
LEMMA DeadlineSignal ==
    ASSUME NEW r, r.event = "command.rejected",
           out' = DeadlineEvents \/ out' = DeadlineEvents \o <<r>>
    PROVE  Signal' = IF WatchdogExpired THEN "stop" ELSE "quiet"
<1>1. CASE ~Expired
  <2>1. DeadlineEvents = <<>> /\ ~WatchdogExpired
    BY <1>1, DeadlineShape DEF Expired
  <2>2. <<>> \o <<r>> = <<r>>
    OBVIOUS
  <2>3. Events' = {} \/ Events' = {r}
    BY <2>1, <2>2, NoEvents, OneEvent
  <2> QED BY <2>1, <2>3, QuietSignal
<1>2. CASE HandshakeExpired
  <2> DEFINE change == GatewayStateEvent("IDLE", activeSessionId, lastSequence)
  <2>1. change.event = "gateway.state" /\ ~WatchdogExpired
    BY <1>2 DEF GatewayStateEvent, HandshakeExpired, WatchdogExpired
  <2>2. DeadlineEvents = <<change>>
    BY <1>2, DeadlineShape
  <2> HIDE DEF change
  <2>3. Events' = {change} \/ Events' = {change, r}
    BY <2>2, ConcatOneOne, OneEvent, TwoEvents
  <2> QED BY <2>1, <2>3, QuietSignal
<1>3. CASE WatchdogExpired
  <2> DEFINE change == GatewayStateEvent("SAFE_STOPPED", activeSessionId, lastSequence)
             stop == SafetyStopEvent("WATCHDOG", activeSessionId, lastSequence)
  <2>1. change.event = "gateway.state" /\ stop.event = "safety.stop"
    BY DEF GatewayStateEvent, SafetyStopEvent
  <2>2. DeadlineEvents = <<change, stop>>
    BY <1>3, DeadlineShape
  <2> HIDE DEF change, stop
  <2>3. Events' = {change, stop} \/ Events' = {change, stop, r}
    BY <2>2, ConcatTwoOne, TwoEvents, ThreeEvents
  <2> QED BY <1>3, <2>1, <2>3, StopSignal
<1> QED BY <1>1, <1>2, <1>3 DEF Expired

--------------------------------------------------------------------------------
(* The latch and rejected traffic.                                         *)

(* The calls that at most evaluate a deadline before they answer.          *)
DeadlineCall ==
    \/ \E c \in Command : RejectMalformedStop(c) \/ RejectExpired(c)
    \/ \E sid \in SessionId \cup {None}, seq \in Sequence \cup {None} : HandleInvalid(sid, seq)
    \/ Poll

LEMMA DeadlineCallStep ==
    ASSUME DeadlineCall
    PROVE  /\ EvaluateDeadline
           /\ \E r : /\ r.event = "command.rejected"
                     /\ out' = DeadlineEvents \/ out' = DeadlineEvents \o <<r>>
<1>1. \A code, sid, seq : CommandRejectedEvent(code, sid, seq).event = "command.rejected"
  BY DEF CommandRejectedEvent
<1> HIDE DEF CommandRejectedEvent
<1>2. ASSUME NEW c \in Command, RejectMalformedStop(c) \/ RejectExpired(c)
      PROVE  /\ EvaluateDeadline
             /\ \E code : out' = DeadlineEvents \o <<Rejected(code, c)>>
  BY <1>2 DEF RejectMalformedStop, RejectExpired
<1>3. ASSUME NEW sid, NEW seq, HandleInvalid(sid, seq)
      PROVE  /\ EvaluateDeadline
             /\ out' = DeadlineEvents \o <<CommandRejectedEvent("INVALID_PAYLOAD", sid, seq)>>
  BY <1>3 DEF HandleInvalid
<1>4. CASE Poll
  BY <1>1, <1>4 DEF Poll
<1> QED BY <1>1, <1>2, <1>3, <1>4 DEF DeadlineCall, Rejected

(* Every step is a deadline call, a refusal, an obeyed command or a tick.  *)
LEMMA StepKinds ==
    ASSUME Next
    PROVE  \/ DeadlineCall
           \/ Tick
           \/ \E c \in Command :
                \/ Reject(c) \/ SessionStart(c) \/ ModeSet(c) \/ HeadRecenter(c)
                \/ HeadPose(c) \/ SessionStop(c) \/ EmergencyStop(c)
BY DEF Next, Handle, DeadlineCall

LEMMA NoSession == IInv /\ ~InSession => session = Absent
BY DEF IInv, SessionCoherence, session, Absent

(* Only inside a session is a command other than a start or an emergency   *)
(* stop obeyed.                                                            *)
LEMMA ObeyedInSession ==
    ASSUME IInv, NEW c \in Command,
           ModeSet(c) \/ HeadRecenter(c) \/ HeadPose(c) \/ SessionStop(c)
    PROVE  InSession
BY AdmittedInSession DEF ModeSet, HeadRecenter, HeadPose, SessionStop, Admitted

(* An emergency stop lasts: no later call leaves the latch.                *)
THEOREM LatchIsPermanent == Spec => LatchHolds
<1> DEFINE Step ==
      state = "ESTOP_LATCHED" =>
          state' = "ESTOP_LATCHED" /\ UNCHANGED <<usedSessionIds, session, neck>>
<1>1. IInv /\ [Next]_vars => [Step]_vars
  <2> SUFFICES ASSUME IInv, Next, state = "ESTOP_LATCHED"
               PROVE  state' = "ESTOP_LATCHED" /\ UNCHANGED <<usedSessionIds, session, neck>>
    OBVIOUS
  <2>1. ~Expired /\ ~InSession /\ session = Absent
    BY NoSession DEF Expired, HandshakeExpired, WatchdogExpired, InSession
  <2>2. CASE DeadlineCall
    BY <2>1, <2>2, DeadlineCallStep, DeadlineStep
  <2>3. CASE Tick
    BY <2>3 DEF Tick
  <2>4. ASSUME NEW c \in Command, Reject(c)
        PROVE  state' = "ESTOP_LATCHED" /\ UNCHANGED <<usedSessionIds, session, neck>>
    BY <2>4 DEF Reject
  <2>5. ASSUME NEW c \in Command, SessionStart(c) PROVE FALSE
    BY <2>5, StartGates DEF SessionStart, Admitted
  <2>6. ASSUME NEW c \in Command, ModeSet(c) \/ HeadRecenter(c) \/ HeadPose(c) \/ SessionStop(c)
        PROVE  FALSE
    BY <2>1, <2>6, ObeyedInSession
  <2>7. ASSUME NEW c \in Command, EmergencyStop(c)
        PROVE  state' = "ESTOP_LATCHED" /\ UNCHANGED <<usedSessionIds, session, neck>>
    BY <2>1, <2>7 DEF EmergencyStop, InvalidateActiveSession, session, Absent
  <2> QED BY <2>2, <2>3, <2>4, <2>5, <2>6, <2>7, StepKinds
<1> QED BY <1>1, Invariance, PTL DEF Spec, LatchHolds

(* A call that rejects its command changes nothing, or ends the session    *)
(* whose deadline had elapsed as a poll would have.                        *)
THEOREM RejectionIsInert == Spec => RejectionsAreInert
<1> DEFINE Inert ==
      /\ UNCHANGED <<usedSessionIds, neck>>
      /\ IF Expired THEN state' = DeadlineState /\ ~InSession'
                    ELSE UNCHANGED <<state, session>>
<1>1. IInv /\ [Next]_vars => [Called /\ Kind("command.rejected")' # {} => Inert]_vars
  <2> SUFFICES ASSUME IInv, Next, Called, Kind("command.rejected")' # {}
               PROVE  Inert
    OBVIOUS
  <2>1. \E e \in Events' : e.event = "command.rejected"
    BY DEF Kind
  <2>2. CASE DeadlineCall
    BY <2>2, DeadlineCallStep, DeadlineStep DEF EvaluateDeadline, InSession
  <2>3. CASE Tick
    BY <2>3 DEF Tick, Called, IInv, TypeOK
  <2>4. ASSUME NEW c \in Command, Reject(c) PROVE Inert
    BY <2>4 DEF Reject
  <2>5. ASSUME NEW c \in Command, SessionStart(c) \/ ModeSet(c) \/ HeadRecenter(c)
        PROVE  FALSE
    <3>1. out' = <<>> \/ \E s, sid, seq : out' = <<GatewayStateEvent(s, sid, seq)>>
      BY <2>5, TransitionShape DEF SessionStart, ModeSet, HeadRecenter
    <3>2. \A e \in Events' : e.event = "gateway.state"
      BY <3>1, NoEvents, OneEvent DEF GatewayStateEvent
    <3> QED BY <2>1, <3>2
  <2>6. ASSUME NEW c \in Command, HeadPose(c) PROVE FALSE
    <3>1. \A e \in Events' : e.event = "neck.target"
      BY <2>6, OneEvent DEF HeadPose, NeckTargetEvent
    <3> QED BY <2>1, <3>1
  <2>7. ASSUME NEW c \in Command, SessionStop(c) \/ EmergencyStop(c) PROVE FALSE
    <3>1. \E s, r : out' = TransitionEvents(s, c.sessionId, c.sequence)
                              \o <<SafetyStopEvent(r, c.sessionId, c.sequence)>>
      BY <2>7 DEF SessionStop, EmergencyStop
    <3> QED BY <2>1, <3>1, TransitionStopSignal
  <2> HIDE DEF Inert
  <2> QED BY <2>2, <2>3, <2>4, <2>5, <2>6, <2>7, StepKinds
<1> QED BY <1>1, Invariance, PTL DEF Spec, RejectionsAreInert

(* Losing the permission to move is announced by the call that loses it.   *)
THEOREM MotionLossAnnounced == Spec => MotionLossIsAnnounced
<1> DEFINE Announced ==
      /\ out'[1].event = "gateway.state" /\ out'[1].state = state'
      /\ \/ /\ state' = "AWAITING_RECENTER"
            /\ activeSessionId' \notin usedSessionIds
         \/ /\ out'[2].event = "safety.stop"
            /\ <<state', out'[2].reason>> \in
                 { <<"SAFE_STOPPED", "WATCHDOG">>, <<"IDLE", "SESSION_STOPPED">>,
                   <<"ESTOP_LATCHED", "EMERGENCY_STOP">> }
<1>1. ASSUME NEW s, NEW sid, NEW seq, NEW r, state' = s,
             \/ out' = <<GatewayStateEvent(s, sid, seq), SafetyStopEvent(r, sid, seq)>>
             \/ \E x : out' = <<GatewayStateEvent(s, sid, seq), SafetyStopEvent(r, sid, seq), x>>,
             <<s, r>> \in { <<"SAFE_STOPPED", "WATCHDOG">>, <<"IDLE", "SESSION_STOPPED">>,
                            <<"ESTOP_LATCHED", "EMERGENCY_STOP">> }
      PROVE  Announced
  <2>1. out'[1] = GatewayStateEvent(s, sid, seq) /\ out'[2] = SafetyStopEvent(r, sid, seq)
    BY <1>1
  <2> QED BY <1>1, <2>1 DEF GatewayStateEvent, SafetyStopEvent
<1>2. IInv /\ [Next]_vars => [Called /\ state = "HEAD_ACTIVE" /\ state' # "HEAD_ACTIVE" => Announced]_vars
  <2> SUFFICES ASSUME IInv, Next, state = "HEAD_ACTIVE", state' # "HEAD_ACTIVE"
               PROVE  Announced
    OBVIOUS
  <2> HIDE DEF Announced
  <2>1. CASE DeadlineCall
    <3>1. WatchdogExpired /\ state' = "SAFE_STOPPED"
      BY <2>1, DeadlineCallStep, DeadlineStep
         DEF EvaluateDeadline, DeadlineState, Expired, HandshakeExpired
    <3> DEFINE change == GatewayStateEvent("SAFE_STOPPED", activeSessionId, lastSequence)
               stop == SafetyStopEvent("WATCHDOG", activeSessionId, lastSequence)
    <3>2. DeadlineEvents = <<change, stop>>
      BY <3>1, DeadlineShape
    <3>3. out' = <<change, stop>> \/ \E x : out' = <<change, stop, x>>
      BY <2>1, <3>2, DeadlineCallStep, ConcatTwoOne
    <3> QED BY <1>1, <3>1, <3>3
  <2>2. CASE Tick
    BY <2>2 DEF Tick
  <2>3. ASSUME NEW c \in Command, Reject(c) \/ ModeSet(c) \/ HeadRecenter(c) \/ HeadPose(c)
        PROVE  FALSE
    BY <2>3 DEF Reject, ModeSet, HeadRecenter, HeadPose
  <2>4. ASSUME NEW c \in Command, SessionStart(c) PROVE Announced
    <3>1. /\ state' = "AWAITING_RECENTER" /\ activeSessionId' \notin usedSessionIds
          /\ out' = <<GatewayStateEvent("AWAITING_RECENTER", c.sessionId, c.sequence)>>
      BY <2>4, StartGates, TransitionShape DEF SessionStart, Admitted
    <3>2. out'[1] = GatewayStateEvent("AWAITING_RECENTER", c.sessionId, c.sequence)
      BY <3>1
    <3> QED BY <3>1, <3>2 DEF GatewayStateEvent, Announced
  <2>5. ASSUME NEW c \in Command, SessionStop(c) PROVE Announced
    <3>1. out' = <<GatewayStateEvent("IDLE", c.sessionId, c.sequence)>>
                   \o <<SafetyStopEvent("SESSION_STOPPED", c.sessionId, c.sequence)>>
      BY <2>5, TransitionShape DEF SessionStop
    <3>2. state' = "IDLE"
      BY <2>5 DEF SessionStop
    <3> QED BY <1>1, <3>1, <3>2, ConcatOneOne
  <2>6. ASSUME NEW c \in Command, EmergencyStop(c) PROVE Announced
    <3>1. out' = <<GatewayStateEvent("ESTOP_LATCHED", c.sessionId, c.sequence)>>
                   \o <<SafetyStopEvent("EMERGENCY_STOP", c.sessionId, c.sequence)>>
      BY <2>6, TransitionShape DEF EmergencyStop
    <3>2. state' = "ESTOP_LATCHED"
      BY <2>6 DEF EmergencyStop
    <3> QED BY <1>1, <3>1, <3>2, ConcatOneOne
  <2> QED BY <2>1, <2>2, <2>3, <2>4, <2>5, <2>6, StepKinds
<1> QED BY <1>2, Invariance, PTL DEF Spec, MotionLossIsAnnounced

--------------------------------------------------------------------------------
(* The refinement: every call is one step of the permission protocol.      *)

(* The sequence gate: an accepted command moves the session's number up.   *)
LEMMA SequenceRises ==
    ASSUME IInv, InSession, NEW c \in Command,
           c.command \notin {"SESSION_START", "EMERGENCY_STOP"}, Refusal(c) = None
    PROVE  c.sequence > lastSequence
<1>1. lastSequence \in Nat /\ lastSequence # None
  BY GatewayConstants DEF IInv, SessionCoherence, TypeOK
<1>2. ~(c.sequence <= lastSequence)
  BY <1>1, Gates
<1> QED BY <1>1, <1>2, CommandType

(* The deadlines have not elapsed for a command that is obeyed.            *)
LEMMA InTime ==
    ASSUME IInv, InSession, ~Expired
    PROVE  /\ state = "AWAITING_RECENTER" => now - sessionStarted < HandshakeTimeout
           /\ state = "HEAD_ACTIVE" => now - lastValid < WatchdogTimeout
<1>1. now \in Nat /\ sessionStarted \in Nat /\ lastValid \in Nat
  BY DEF IInv, TypeOK, SessionCoherence
<1>2. sessionStarted # None /\ lastValid # None
  BY <1>1, GatewayConstants
<1> QED BY <1>1, <1>2, GatewayConstants DEF Expired, HandshakeExpired, WatchdogExpired

LEMMA PhaseOf ==
    /\ state = "AWAITING_RECENTER" <=> Phase = "arming"
    /\ state = "HEAD_ACTIVE" <=> Phase = "on"
    /\ state = "ESTOP_LATCHED" <=> Phase = "latched"
    /\ state \notin {"AWAITING_RECENTER", "HEAD_ACTIVE", "ESTOP_LATCHED"} => Phase = "off"
BY DEF Phase

LEMMA NextPhase ==
    /\ state' = "AWAITING_RECENTER" => Phase' = "arming"
    /\ state' = "HEAD_ACTIVE" => Phase' = "on"
    /\ state' = "ESTOP_LATCHED" => Phase' = "latched"
    /\ state' \in {"IDLE", "SAFE_STOPPED"} => Phase' = "off"
    /\ UNCHANGED state => UNCHANGED Phase
BY DEF Phase

LEMMA ContractBegins == Init => Permission!Init
<1> SUFFICES ASSUME Init PROVE Permission!Init
  OBVIOUS
<1>1. Events = {}
  BY DEF Init, Events
<1>2. Signal = "quiet"
  BY <1>1 DEF Signal, Kind
<1>3. Phase = "off"
  BY PhaseOf DEF Init
<1> QED BY <1>2, <1>3 DEF Init, Permission!Init

LEMMA ObeyContract ==
    ASSUME IInv, InSession, ~Expired, NEW c \in Command, Accept(c),
           c.command \notin {"SESSION_START", "EMERGENCY_STOP"}, Refusal(c) = None,
           UNCHANGED <<usedSessionIds, activeSessionId, sessionStarted, now>>
    PROVE  Permission!Obey(c.sequence) /\ Phase \in {"arming", "on"}
BY SequenceRises, InTime, PhaseOf DEF Accept, InSession, Permission!Obey

LEMMA DeadlineContract ==
    ASSUME DeadlineCall
    PROVE  Permission!End \/ Permission!Ignore
<1>1. Signal' = IF WatchdogExpired THEN "stop" ELSE "quiet"
  BY DeadlineCallStep, DeadlineSignal
<1>2. EvaluateDeadline
  BY DeadlineCallStep
<1>3. CASE Expired
  <2>1. /\ Phase \in {"arming", "on"}
        /\ Phase = "on" => WatchdogExpired
    BY <1>3, PhaseOf DEF Expired, HandshakeExpired, WatchdogExpired
  <2>2. Phase' = "off"
    BY <1>2, <1>3, DeadlineStep, NextPhase
  <2>3. InvalidateActiveSession /\ UNCHANGED <<usedSessionIds, now>>
    BY <1>2, <1>3 DEF EvaluateDeadline
  <2> HIDE DEF WatchdogExpired
  <2>4. Permission!End
    BY <1>1, <2>1, <2>2, <2>3
       DEF InvalidateActiveSession, Permission!End, Permission!Vacate
  <2> QED BY <2>4
<1>4. CASE ~Expired
  <2>1. Signal' = "quiet"
    BY <1>1, <1>4 DEF Expired
  <2>2. UNCHANGED <<state, session, usedSessionIds, now>>
    BY <1>2, <1>4, DeadlineStep
  <2> QED BY <2>1, <2>2, NextPhase DEF session, Permission!Ignore
<1> QED BY <1>3, <1>4

LEMMA ContractStep == IInv /\ [Next]_vars => [Permission!Next]_(Permission!vars)
<1> SUFFICES ASSUME IInv, [Next]_vars
             PROVE  [Permission!Next]_(Permission!vars)
  OBVIOUS
<1>1. CASE DeadlineCall
  BY <1>1, DeadlineContract DEF Permission!Next
<1>2. CASE Tick
  <2>1. UNCHANGED <<Phase, Signal>>
    BY <1>2 DEF Tick, Phase, Signal, Kind, Events
  <2> QED BY <1>2, <2>1 DEF Tick, session, Permission!Next, Permission!Elapse
<1>3. ASSUME NEW c \in Command, Reject(c)
      PROVE  Permission!Next
  <2>1. out' = <<Rejected(Refusal(c), c)>>
    BY <1>3 DEF Reject
  <2>2. Signal' = "quiet"
    BY <2>1, OneEvent, QuietSignal DEF Rejected, CommandRejectedEvent
  <2>3. UNCHANGED <<Phase, session, usedSessionIds, now>>
    BY <1>3, NextPhase DEF Reject
  <2> QED BY <2>2, <2>3 DEF session, Permission!Next, Permission!Ignore
<1>4. ASSUME NEW c \in Command, SessionStart(c)
      PROVE  Permission!Next
  <2>1. c.sessionId \in SessionId /\ c.sequence \in Sequence
    BY CommandType
  <2>2. Signal' = "quiet"
    BY <1>4, TransitionSignal DEF SessionStart
  <2>3. Phase # "latched" /\ c.sessionId \notin usedSessionIds /\ Phase' = "arming"
    BY <1>4, StartGates, PhaseOf, NextPhase DEF SessionStart, Admitted
  <2>4. Permission!Begin(c.sessionId, c.sequence)
    BY <1>4, <2>2, <2>3 DEF SessionStart, Accept, Permission!Begin
  <2> QED BY <2>1, <2>4 DEF Permission!Next
<1>5. ASSUME NEW c \in Command, ModeSet(c)
      PROVE  Permission!Next
  <2>1. c.sequence \in Sequence
    BY CommandType
  <2>2. Permission!Obey(c.sequence) /\ Phase \in {"arming", "on"}
    BY <1>5, ObeyedInSession, ObeyContract DEF ModeSet, Admitted
  <2>3. Signal' = "quiet"
    BY <1>5, NoEvents, QuietSignal DEF ModeSet
  <2>4. UNCHANGED Phase
    BY <1>5, NextPhase DEF ModeSet
  <2> QED BY <2>1, <2>2, <2>3, <2>4 DEF Permission!Next, Permission!Keep
<1>6. ASSUME NEW c \in Command, HeadRecenter(c)
      PROVE  Permission!Next
  <2>1. c.sequence \in Sequence
    BY CommandType
  <2>2. Permission!Obey(c.sequence) /\ Phase \in {"arming", "on"}
    BY <1>6, ObeyedInSession, ObeyContract DEF HeadRecenter, Admitted
  <2>3. Signal' = "quiet"
    BY <1>6, TransitionSignal DEF HeadRecenter
  <2>4. Phase' = "on"
    BY <1>6, NextPhase DEF HeadRecenter
  <2> QED BY <2>1, <2>2, <2>3, <2>4 DEF Permission!Next, Permission!Engage
<1>7. ASSUME NEW c \in Command, HeadPose(c)
      PROVE  Permission!Next
  <2>1. c.sequence \in Sequence
    BY CommandType
  <2>2. Permission!Obey(c.sequence)
    BY <1>7, ObeyedInSession, ObeyContract DEF HeadPose, Admitted
  <2>3. Signal' = "move"
    BY <1>7, MoveSignal DEF HeadPose, NeckTargetEvent
  <2>4. Phase = "on" /\ UNCHANGED Phase
    BY <1>7, PoseGate, PhaseOf, NextPhase DEF HeadPose, Admitted
  <2> QED BY <2>1, <2>2, <2>3, <2>4 DEF Permission!Next, Permission!Move
<1>8. ASSUME NEW c \in Command, SessionStop(c)
      PROVE  Permission!Next
  <2>1. Phase \in {"arming", "on"}
    BY <1>8, ObeyedInSession, PhaseOf DEF InSession
  <2>2. Signal' = "stop"
    BY <1>8, TransitionStopSignal DEF SessionStop
  <2>3. Phase' = "off"
    BY <1>8, NextPhase DEF SessionStop
  <2>4. Permission!End
    BY <1>8, <2>1, <2>2, <2>3
       DEF SessionStop, InvalidateActiveSession, Permission!End, Permission!Vacate
  <2> QED BY <2>4 DEF Permission!Next
<1>9. ASSUME NEW c \in Command, EmergencyStop(c)
      PROVE  Permission!Next
  <2>1. Signal' = "stop"
    BY <1>9, TransitionStopSignal DEF EmergencyStop
  <2>2. Phase' = "latched"
    BY <1>9, NextPhase DEF EmergencyStop
  <2>3. Permission!Latch
    BY <1>9, <2>1, <2>2
       DEF EmergencyStop, InvalidateActiveSession, Permission!Latch, Permission!Vacate
  <2> QED BY <2>3 DEF Permission!Next
<1>10. CASE UNCHANGED vars
  <2>1. UNCHANGED <<Phase, Signal>>
    BY <1>10 DEF vars, Phase, Signal, Kind, Events
  <2> QED BY <1>10, <2>1 DEF vars, session, Permission!vars
<1> QED BY <1>1, <1>2, <1>3, <1>4, <1>5, <1>6, <1>7, <1>8, <1>9, <1>10, StepKinds

(* The gateway implements TeleopSafety.                                    *)
THEOREM Refinement == Spec => PermissionContract
BY ContractBegins, ContractStep, Invariance, PTL DEF Spec, PermissionContract, Permission!Spec

--------------------------------------------------------------------------------
(* The node                                                                *)

(* The poll timer is due no later than a period from now, and no earlier   *)
(* than the executor's latency allows.                                     *)
Timer ==
    up => /\ pollDue <= now + PollPeriod
          /\ now <= pollDue + Latency

(* At the latest poll the watchdog had not expired on what is still valid. *)
Polled ==
    up /\ state = "HEAD_ACTIVE" => pollDue - PollPeriod < lastValid + WatchdogTimeout

NodeInv == IInv /\ NodeTypeOK /\ Timer /\ Polled /\ EventsAreEncodable

(* The periods a late timer skips take it past now, but no further than a  *)
(* period past it.                                                         *)
LEMMA NextPeriod ==
    ASSUME NEW p \in Nat \ {0}, NEW d \in Nat
    PROVE  /\ p * (1 + d \div p) \in Nat
           /\ d < p * (1 + d \div p) /\ p * (1 + d \div p) <= d + p
<1>1. /\ d \div p \in Nat
      /\ p * (d \div p) <= d /\ d < p * (d \div p) + p
  OBVIOUS
<1> DEFINE q == d \div p
<1> HIDE DEF q
<1>2. q \in Nat /\ p * q <= d /\ d < p * q + p
  BY <1>1 DEF q
<1>3. p * (1 + q) = p * q + p /\ p * q \in Nat
  BY <1>2
<1> QED BY <1>2, <1>3 DEF q

LEMMA NextDue ==
    ASSUME NEW t \in Nat, NEW due \in Nat, t < due, due <= t + PollPeriod
    PROVE  /\ t <= due + Latency
           /\ \A valid \in Nat : t - valid < WatchdogTimeout =>
                  due - PollPeriod < valid + WatchdogTimeout
BY NodeConstants, GatewayConstants

(* Identified events can be encoded.                                       *)
LEMMA EventIdentity ==
    ASSUME NEW x, NEW sid, NEW seq, sid # None, seq # None
    PROVE  /\ Encodable(GatewayStateEvent(x, sid, seq))
           /\ Encodable(NeckTargetEvent(sid, seq, x))
           /\ Encodable(SafetyStopEvent(x, sid, seq))
           /\ Encodable(CommandRejectedEvent(x, sid, seq))
BY DEF Encodable, GatewayStateEvent, NeckTargetEvent, SafetyStopEvent, CommandRejectedEvent

LEMMA AnonymousRejection == Encodable(CommandRejectedEvent("INVALID_PAYLOAD", None, None))
BY DEF Encodable, CommandRejectedEvent

(* The session a deadline ends has identifiers to name it by.              *)
LEMMA DeadlineEncodable ==
    ASSUME IInv, NEW r, Encodable(r),
           out' = DeadlineEvents \/ out' = DeadlineEvents \o <<r>>
    PROVE  \A e \in Events' : Encodable(e)
<1>1. CASE ~Expired
  <2>1. DeadlineEvents = <<>> /\ <<>> \o <<r>> = <<r>>
    BY <1>1, DeadlineShape
  <2>2. Events' = {} \/ Events' = {r}
    BY <2>1, NoEvents, OneEvent
  <2> QED BY <2>2
<1>2. CASE Expired
  <2>1. InSession
    BY <1>2 DEF Expired, HandshakeExpired, WatchdogExpired, InSession
  <2>2. activeSessionId # None /\ lastSequence # None
    BY <2>1, GatewayConstants DEF IInv, SessionCoherence, TypeOK
  <2> DEFINE idle == GatewayStateEvent("IDLE", activeSessionId, lastSequence)
             stopped == GatewayStateEvent("SAFE_STOPPED", activeSessionId, lastSequence)
             stop == SafetyStopEvent("WATCHDOG", activeSessionId, lastSequence)
  <2>3. Encodable(idle) /\ Encodable(stopped) /\ Encodable(stop)
    BY <2>2, EventIdentity
  <2>4. DeadlineEvents = <<idle>> \/ DeadlineEvents = <<stopped, stop>>
    BY <1>2, DeadlineShape DEF Expired
  <2> HIDE DEF idle, stopped, stop, Encodable
  <2>5. CASE DeadlineEvents = <<idle>>
    <3>1. Events' = {idle} \/ Events' = {idle, r}
      BY <2>5, ConcatOneOne, OneEvent, TwoEvents
    <3> QED BY <2>3, <3>1
  <2>6. CASE DeadlineEvents = <<stopped, stop>>
    <3>1. Events' = {stopped, stop} \/ Events' = {stopped, stop, r}
      BY <2>6, ConcatTwoOne, TwoEvents, ThreeEvents
    <3> QED BY <2>3, <3>1
  <2> QED BY <2>4, <2>5, <2>6
<1> QED BY <1>1, <1>2

(* Every command has the identifiers that its answers repeat.              *)
LEMMA HandleEncodable ==
    ASSUME IInv, NEW c \in Command, Handle(c)
    PROVE  \A e \in Events' : Encodable(e)
<1>1. c.sessionId # None /\ c.sequence # None
  BY CommandType
<1>2. \A x : /\ Encodable(GatewayStateEvent(x, c.sessionId, c.sequence))
             /\ Encodable(NeckTargetEvent(c.sessionId, c.sequence, x))
             /\ Encodable(SafetyStopEvent(x, c.sessionId, c.sequence))
             /\ Encodable(CommandRejectedEvent(x, c.sessionId, c.sequence))
  BY <1>1, EventIdentity
<1> HIDE DEF Encodable, GatewayStateEvent, NeckTargetEvent, SafetyStopEvent, CommandRejectedEvent
<1>3. CASE RejectMalformedStop(c) \/ RejectExpired(c)
  <2>1. \E code : out' = DeadlineEvents \o <<Rejected(code, c)>>
    BY <1>3 DEF RejectMalformedStop, RejectExpired
  <2> QED BY <1>2, <2>1, DeadlineEncodable DEF Rejected
<1>4. CASE Reject(c)
  BY <1>2, <1>4, OneEvent DEF Reject, Rejected
<1>5. CASE SessionStart(c) \/ HeadRecenter(c)
  <2>1. \/ out' = <<>>
        \/ \E s : out' = <<GatewayStateEvent(s, c.sessionId, c.sequence)>>
    BY <1>5, TransitionShape DEF SessionStart, HeadRecenter
  <2> QED BY <1>2, <2>1, NoEvents, OneEvent
<1>6. CASE ModeSet(c)
  BY <1>6, NoEvents DEF ModeSet
<1>7. CASE HeadPose(c)
  BY <1>2, <1>7, OneEvent DEF HeadPose
<1>8. CASE SessionStop(c) \/ EmergencyStop(c)
  <2>1. \E s, x : out' = TransitionEvents(s, c.sessionId, c.sequence)
                            \o <<SafetyStopEvent(x, c.sessionId, c.sequence)>>
    BY <1>8 DEF SessionStop, EmergencyStop
  <2>2. PICK s, x : out' = TransitionEvents(s, c.sessionId, c.sequence)
                              \o <<SafetyStopEvent(x, c.sessionId, c.sequence)>>
    BY <2>1
  <2> DEFINE stop == SafetyStopEvent(x, c.sessionId, c.sequence)
             change == GatewayStateEvent(s, c.sessionId, c.sequence)
  <2>3. out' = <<>> \o <<stop>> \/ out' = <<change>> \o <<stop>>
    BY <2>2, TransitionShape
  <2>4. Encodable(stop) /\ Encodable(change)
    BY <1>2
  <2> HIDE DEF stop, change
  <2>5. <<>> \o <<stop>> = <<stop>>
    OBVIOUS
  <2>6. Events' = {stop} \/ Events' = {change, stop}
    BY <2>3, <2>5, ConcatOneOne, OneEvent, TwoEvents
  <2> QED BY <2>4, <2>6
<1> QED BY <1>3, <1>4, <1>5, <1>6, <1>7, <1>8 DEF Handle

LEMMA NodeInitInvariant == NodeInit => NodeInv
<1> SUFFICES ASSUME NodeInit PROVE NodeInv
  OBVIOUS
<1>1. Init /\ IInv /\ now = 0 /\ state = "IDLE" /\ out = <<>>
  BY InitInvariant DEF NodeInit, Init
<1>2. NodeTypeOK
  BY <1>1, NodeConstants DEF NodeInit, NodeTypeOK, IInv
<1>3. Timer /\ Polled
  BY <1>1, NodeConstants DEF NodeInit, Timer, Polled
<1>4. EventsAreEncodable
  BY <1>1 DEF EventsAreEncodable, Events
<1> QED BY <1>1, <1>2, <1>3, <1>4 DEF NodeInv

(* What the latest poll found to be in time is replaced only by something  *)
(* newer: a command that was obeyed now.                                   *)
LEMMA HandleKeepsPolled ==
    ASSUME IInv, Timer, Polled, up, NEW c \in Command, Handle(c), UNCHANGED <<up, pollDue>>,
           pollDue \in Nat
    PROVE  Polled'
<1> SUFFICES ASSUME state' = "HEAD_ACTIVE"
             PROVE  pollDue - PollPeriod < lastValid' + WatchdogTimeout
  BY DEF Polled
<1>1. now \in Nat /\ WatchdogTimeout \in Nat \ {0} /\ PollPeriod \in Nat \ {0}
  BY GatewayConstants, NodeConstants DEF IInv, TypeOK
<1>2. CASE lastValid' = now
  BY <1>1, <1>2 DEF Timer
<1>3. CASE UNCHANGED <<state, lastValid>>
  BY <1>3 DEF Polled
<1>4. CASE RejectMalformedStop(c) \/ RejectExpired(c)
  BY <1>3, <1>4, DeadlineStep DEF RejectMalformedStop, RejectExpired, session
<1>5. CASE Reject(c)
  BY <1>3, <1>5 DEF Reject, session
<1>6. CASE SessionStart(c) \/ SessionStop(c) \/ EmergencyStop(c)
  BY <1>6 DEF SessionStart, SessionStop, EmergencyStop
<1>7. CASE ModeSet(c) \/ HeadRecenter(c) \/ HeadPose(c)
  BY <1>2, <1>7 DEF ModeSet, HeadRecenter, HeadPose, Accept
<1> QED BY <1>4, <1>5, <1>6, <1>7 DEF Handle

(* The frames a subscription hands over are those that were published.     *)
LEMMA FrameCommand ==
    ASSUME NEW f \in Frame, Decode(f) = "envelope"
    PROVE  f.command \in Command
<1>1. f.text = "command"
  BY DEF Decode
<1>2. f \in [text : {"command"}, command : Command]
  BY <1>1, NodeConstants
<1> QED BY <1>2

LEMMA OnCommandInvariant == NodeInv /\ OnCommand => NodeInv'
<1> SUFFICES ASSUME NodeInv, OnCommand PROVE NodeInv'
  OBVIOUS
<1>1. /\ IInv /\ Timer /\ Polled /\ pollDue \in Nat
      /\ queue \in Seq(Frame) /\ Len(queue) <= Depth /\ Depth \in Nat
  BY NodeConstants DEF NodeInv, NodeTypeOK
<1>2. up /\ queue # <<>> /\ queue' = Tail(queue) /\ UNCHANGED <<up, pollDue, crashes>>
  BY DEF OnCommand
<1>3. Head(queue) \in Frame /\ Tail(queue) \in Seq(Frame) /\ Len(Tail(queue)) <= Depth
  BY <1>1, <1>2
<1>4. IInv' /\ Polled' /\ EventsAreEncodable' /\ now' = now
  <2>1. CASE Decode(Head(queue)) = "envelope" /\ Handle(Head(queue).command)
    <3>1. PICK c \in Command : Handle(c)
      BY <1>3, <2>1, FrameCommand
    <3>2. now' = now
      BY <3>1 DEF Handle, RejectMalformedStop, RejectExpired, Reject, SessionStart, ModeSet,
                  HeadRecenter, HeadPose, SessionStop, EmergencyStop, EvaluateDeadline
    <3> QED BY <1>1, <1>2, <3>1, <3>2, HandleInvariant, HandleKeepsPolled, HandleEncodable
            DEF EventsAreEncodable
  <2>2. CASE HandleInvalid(None, None)
    <3>1. EvaluateDeadline
          /\ out' = DeadlineEvents \o <<CommandRejectedEvent("INVALID_PAYLOAD", None, None)>>
      BY <2>2 DEF HandleInvalid
    <3>2. EventsAreEncodable'
      BY <1>1, <3>1, AnonymousRejection, DeadlineEncodable DEF EventsAreEncodable
    <3>3. Polled'
      BY <1>1, <1>2, <3>1, DeadlineStep DEF Polled, session
    <3> QED BY <1>1, <3>1, <3>2, <3>3, DeadlineInvariant, DeadlineStep
  <2> QED BY <2>1, <2>2 DEF OnCommand
<1>5. Timer'
  BY <1>1, <1>2, <1>4 DEF Timer
<1>6. NodeTypeOK'
  BY <1>2, <1>3, <1>4 DEF NodeInv, NodeTypeOK, IInv
<1> QED BY <1>4, <1>5, <1>6 DEF NodeInv

LEMMA OnPollTimerInvariant == NodeInv /\ OnPollTimer => NodeInv'
<1> SUFFICES ASSUME NodeInv, OnPollTimer PROVE NodeInv'
  OBVIOUS
<1>1. /\ IInv /\ up /\ up' /\ now >= pollDue /\ now \in Nat /\ pollDue \in Nat
      /\ PollPeriod \in Nat \ {0} /\ Latency \in Nat /\ WatchdogTimeout \in Nat \ {0}
  BY NodeConstants, GatewayConstants DEF NodeInv, NodeTypeOK, IInv, TypeOK, OnPollTimer
<1>2. EvaluateDeadline /\ out' = DeadlineEvents
  BY DEF OnPollTimer, Poll
<1>3. IInv' /\ now' = now
  BY <1>1, <1>2, DeadlineInvariant, DeadlineStep
<1>4. pollDue' \in Nat /\ now < pollDue' /\ pollDue' <= now + PollPeriod
  <2> DEFINE late == now - pollDue
  <2>1. late \in Nat
    BY <1>1
  <2>2. pollDue' = pollDue + PollPeriod * (1 + late \div PollPeriod)
    BY DEF OnPollTimer
  <2> DEFINE skipped == PollPeriod * (1 + late \div PollPeriod)
  <2>3. skipped \in Nat /\ late < skipped /\ skipped <= late + PollPeriod
    BY <1>1, <2>1, NextPeriod
  <2> HIDE DEF skipped
  <2> QED BY <1>1, <2>2, <2>3 DEF skipped
<1>5. Timer'
  <2>1. now <= pollDue' + Latency
    BY <1>1, <1>4, NextDue
  <2> QED BY <1>3, <1>4, <2>1 DEF Timer
<1>6. Polled'
  <2> SUFFICES ASSUME state' = "HEAD_ACTIVE"
               PROVE  pollDue' - PollPeriod < lastValid' + WatchdogTimeout
    BY DEF Polled
  <2>1. ~Expired /\ UNCHANGED <<state, session>>
    BY <1>2, DeadlineStep
  <2>2. lastValid \in Nat /\ now - lastValid < WatchdogTimeout /\ lastValid' = lastValid
    BY <1>1, <2>1, InTime DEF InSession, IInv, SessionCoherence, session
  <2>3. pollDue' - PollPeriod < lastValid + WatchdogTimeout
    BY <1>1, <1>4, <2>2, NextDue
  <2> QED BY <2>2, <2>3
<1>7. EventsAreEncodable'
  BY <1>1, <1>2, AnonymousRejection, DeadlineEncodable DEF EventsAreEncodable
<1>8. NodeTypeOK'
  BY <1>3, <1>4 DEF NodeInv, NodeTypeOK, IInv, OnPollTimer
<1> QED BY <1>3, <1>5, <1>6, <1>7, <1>8 DEF NodeInv

LEMMA RestartInvariant == NodeInv /\ Restart => NodeInv'
<1> SUFFICES ASSUME NodeInv, Restart PROVE NodeInv'
  OBVIOUS
<1>1. /\ IInv /\ NodeTypeOK /\ now \in Nat
      /\ PollPeriod \in Nat \ {0} /\ Latency \in Nat
  BY NodeConstants DEF NodeInv, IInv, TypeOK
<1>2. /\ state' = "IDLE" /\ usedSessionIds' = {} /\ InvalidateActiveSession
      /\ neck' = NewNeck /\ out' = <<>> /\ up' = TRUE /\ pollDue' = now + PollPeriod
      /\ UNCHANGED <<now, queue, crashes>>
  BY DEF Restart
<1>3. neck' \in NeckState /\ Limited(neck')
  BY <1>2, NewNeckType
<1>4. TypeOK' /\ SessionCoherence' /\ Limited(neck)'
  BY <1>1, <1>2, <1>3
     DEF TypeOK, GatewayState, SessionCoherence, InSession, session, InvalidateActiveSession
<1>5. Timer' /\ Polled' /\ EventsAreEncodable'
  BY <1>1, <1>2 DEF Timer, Polled, EventsAreEncodable, Events
<1> QED BY <1>1, <1>2, <1>4, <1>5 DEF NodeInv, NodeTypeOK, IInv

LEMMA NodeStepInvariant == NodeInv /\ [NodeNext]_<<vars, nodeVars>> => NodeInv'
<1> SUFFICES ASSUME NodeInv, [NodeNext]_<<vars, nodeVars>> PROVE NodeInv'
  OBVIOUS
<1>1. ASSUME NEW f \in Frame, up, Publish(f) PROVE NodeInv'
  <2>1. /\ queue \in Seq(Frame) /\ Len(queue) <= Depth /\ Depth \in Nat \ {0}
    BY NodeConstants DEF NodeInv, NodeTypeOK
  <2>2. queue' \in Seq(Frame) /\ Len(queue') <= Depth
    BY <1>1, <2>1 DEF Publish
  <2>3. UNCHANGED vars /\ UNCHANGED <<up, pollDue, crashes>>
    BY <1>1 DEF Publish, gateway, vars
  <2>4. IInv'
    BY <2>3, SameInvariant DEF vars, NodeInv
  <2> QED BY <2>2, <2>3, <2>4
      DEF vars, session, NodeInv, NodeTypeOK, IInv, Timer, Polled, EventsAreEncodable, Events
<1>2. ASSUME Lose, crashes' \in 0..MaxCrashes PROVE NodeInv'
  <2>1. UNCHANGED vars /\ up' = FALSE /\ queue' = <<>> /\ UNCHANGED pollDue
    BY <1>2 DEF Lose, gateway, vars
  <2>2. IInv'
    BY <2>1, SameInvariant DEF vars, NodeInv
  <2>3. Timer' /\ Polled' /\ EventsAreEncodable'
    BY <2>1 DEF Timer, Polled, EventsAreEncodable
  <2>4. NodeTypeOK'
    <3>1. <<>> \in Seq(Frame) /\ Len(<<>>) <= Depth /\ pollDue \in Nat
      BY NodeConstants DEF NodeInv, NodeTypeOK
    <3> QED BY <1>2, <2>1, <2>2, <3>1 DEF NodeTypeOK, IInv
  <2> QED BY <2>2, <2>3, <2>4 DEF NodeInv
<1>3. CASE OnCommand
  BY <1>3, OnCommandInvariant
<1>4. CASE OnCommandRaises
  BY <1>2, <1>4 DEF OnCommandRaises, NodeInv, NodeTypeOK
<1>5. CASE OnPollTimer
  BY <1>5, OnPollTimerInvariant
<1>6. CASE Crash
  BY <1>2, <1>6, NodeConstants DEF Crash, NodeInv, NodeTypeOK
<1>7. CASE Restart
  BY <1>7, RestartInvariant
<1>8. CASE TimePasses
  <2>1. /\ now' = now + 1 /\ UNCHANGED <<state, usedSessionIds, session, neck, out>>
        /\ UNCHANGED <<queue, up, pollDue, crashes>>
        /\ up => now < pollDue + Latency
    BY <1>8 DEF TimePasses, Tick, nodeVars
  <2>2. IInv /\ now \in Nat /\ pollDue \in Nat /\ Latency \in Nat /\ PollPeriod \in Nat
    BY NodeConstants DEF NodeInv, NodeTypeOK, IInv, TypeOK
  <2>3. IInv'
    BY <1>8, <2>2, StepInvariant DEF TimePasses, Next
  <2>4. Timer'
    BY <2>1, <2>2 DEF NodeInv, Timer
  <2> QED BY <2>1, <2>3, <2>4
      DEF session, NodeInv, NodeTypeOK, IInv, Polled, EventsAreEncodable, Events
<1>9. CASE UNCHANGED <<vars, nodeVars>>
  <2>1. UNCHANGED vars /\ UNCHANGED <<queue, up, pollDue, crashes>>
    BY <1>9 DEF nodeVars
  <2>2. IInv'
    BY <2>1, SameInvariant DEF vars, NodeInv
  <2> QED BY <2>1, <2>2
      DEF vars, session, NodeInv, NodeTypeOK, IInv, Timer, Polled, EventsAreEncodable, Events
<1> QED BY <1>1, <1>3, <1>4, <1>5, <1>6, <1>7, <1>8, <1>9 DEF NodeNext

LEMMA NodeInvariance == NodeSpec => []NodeInv
BY NodeInitInvariant, NodeStepInvariant, PTL DEF NodeSpec

(* Type correctness of the node, its queue bounded whatever is published.  *)
THEOREM NodeTypeCorrect == NodeSpec => []NodeTypeOK
<1>1. NodeInv => NodeTypeOK
  BY DEF NodeInv
<1> QED BY <1>1, NodeInvariance, PTL

(* The poll timer alone stops motion in time, for any traffic, crashes and *)
(* restarts, any timeout, period and latency: at the latest poll the last  *)
(* accepted command was in time, and the next is a period and the latency  *)
(* away at most.                                                           *)
THEOREM MotionStopsInTime == NodeSpec => []StoppedInTime
<1>1. NodeInv => StoppedInTime
  <2> SUFFICES ASSUME NodeInv, up, state = "HEAD_ACTIVE"
               PROVE  now - lastValid < WatchdogTimeout + PollPeriod + Latency
    BY DEF StoppedInTime
  <2>1. /\ now \in Nat /\ lastValid \in Nat /\ pollDue \in Nat
        /\ WatchdogTimeout \in Nat /\ PollPeriod \in Nat /\ Latency \in Nat
    BY NodeConstants, GatewayConstants
       DEF NodeInv, NodeTypeOK, IInv, TypeOK, SessionCoherence, InSession
  <2>2. now <= pollDue + Latency /\ pollDue - PollPeriod < lastValid + WatchdogTimeout
    BY DEF NodeInv, Timer, Polled
  <2> QED BY <2>1, <2>2
<1> QED BY <1>1, NodeInvariance, PTL

(* encode_events never raises, so no event of a call that has taken effect *)
(* is lost to it.                                                          *)
THEOREM EventsCanBeEncoded == NodeSpec => []EventsAreEncodable
<1>1. NodeInv => EventsAreEncodable
  BY DEF NodeInv
<1> QED BY <1>1, NodeInvariance, PTL

--------------------------------------------------------------------------------
(* A consumer of the events                                                *)

(* What the events of a call tell: the new state if it changed, and a stop *)
(* only with the loss of the permission to move.                           *)
Announced ==
    /\ Kind("gateway.state")' = {} => state' = state
    /\ \A e \in Kind("gateway.state")' : e.state = state'
    /\ Kind("safety.stop")' # {} => state' # "HEAD_ACTIVE"

LEMMA AnnouncedWithoutTargets ==
    ASSUME NEW E, Events' = E, \A e \in E : e.event # "neck.target",
           (\E e \in E : e.event = "gateway.state") \/ state' = state,
           \A e \in E : e.event = "gateway.state" => e.state = state',
           (\E e \in E : e.event = "safety.stop") => state' # "HEAD_ACTIVE"
    PROVE  Announced /\ Kind("neck.target")' = {}
BY DEF Announced, Kind

(* A change, a stop or both.                                               *)
LEMMA TransitionAnnounced ==
    ASSUME NEW s, NEW sid, NEW seq, NEW r, state' = s,
           \/ out' = TransitionEvents(s, sid, seq)
           \/ /\ out' = TransitionEvents(s, sid, seq) \o <<SafetyStopEvent(r, sid, seq)>>
              /\ s # "HEAD_ACTIVE"
    PROVE  Announced /\ Kind("neck.target")' = {}
<1> DEFINE stop == SafetyStopEvent(r, sid, seq)
           change == GatewayStateEvent(s, sid, seq)
<1>1. /\ stop.event = "safety.stop" /\ change.event = "gateway.state" /\ change.state = s
  BY DEF SafetyStopEvent, GatewayStateEvent
<1>2. /\ state = s => TransitionEvents(s, sid, seq) = <<>>
      /\ state # s => TransitionEvents(s, sid, seq) = <<change>>
  BY TransitionShape
<1>3. \/ out' = TransitionEvents(s, sid, seq)
      \/ (out' = TransitionEvents(s, sid, seq) \o <<stop>>) /\ s # "HEAD_ACTIVE"
  OBVIOUS
<1>4. <<>> \o <<stop>> = <<stop>>
  OBVIOUS
<1> HIDE DEF stop, change
<1>5. CASE state = s
  <2>1. out' = <<>> \/ (out' = <<stop>> /\ s # "HEAD_ACTIVE")
    BY <1>2, <1>3, <1>4, <1>5
  <2>2. Events' = {} \/ (Events' = {stop} /\ s # "HEAD_ACTIVE")
    BY <2>1, NoEvents, OneEvent
  <2> QED BY <1>1, <1>5, <2>2, AnnouncedWithoutTargets
<1>6. CASE state # s
  <2>1. out' = <<change>> \/ (out' = <<change, stop>> /\ s # "HEAD_ACTIVE")
    BY <1>2, <1>3, <1>6, ConcatOneOne
  <2>2. Events' = {change} \/ (Events' = {change, stop} /\ s # "HEAD_ACTIVE")
    BY <2>1, OneEvent, TwoEvents
  <2> QED BY <1>1, <2>2, AnnouncedWithoutTargets
<1> QED BY <1>5, <1>6

LEMMA DeadlineAnnounced ==
    ASSUME DeadlineCall
    PROVE  Announced /\ Kind("neck.target")' = {}
<1>1. EvaluateDeadline
  BY DeadlineCallStep
<1>2. PICK r : /\ r.event = "command.rejected"
               /\ out' = DeadlineEvents \/ out' = DeadlineEvents \o <<r>>
  BY DeadlineCallStep
<1>3. CASE ~Expired
  <2>1. DeadlineEvents = <<>> /\ <<>> \o <<r>> = <<r>>
    BY <1>3, DeadlineShape
  <2>2. Events' = {} \/ Events' = {r}
    BY <1>2, <2>1, NoEvents, OneEvent
  <2>3. state' = state
    BY <1>1, <1>3, DeadlineStep
  <2> QED BY <1>2, <2>2, <2>3, AnnouncedWithoutTargets
<1>4. CASE HandshakeExpired
  <2> DEFINE change == GatewayStateEvent("IDLE", activeSessionId, lastSequence)
  <2>1. change.event = "gateway.state" /\ change.state = "IDLE"
    BY DEF GatewayStateEvent
  <2>2. DeadlineEvents = <<change>> /\ state' = "IDLE"
    BY <1>1, <1>4, DeadlineShape DEF EvaluateDeadline, DeadlineState
  <2> HIDE DEF change
  <2>3. Events' = {change} \/ Events' = {change, r}
    BY <1>2, <2>2, ConcatOneOne, OneEvent, TwoEvents
  <2> QED BY <1>2, <2>1, <2>2, <2>3, AnnouncedWithoutTargets
<1>5. CASE WatchdogExpired
  <2> DEFINE change == GatewayStateEvent("SAFE_STOPPED", activeSessionId, lastSequence)
             stop == SafetyStopEvent("WATCHDOG", activeSessionId, lastSequence)
  <2>1. /\ change.event = "gateway.state" /\ change.state = "SAFE_STOPPED"
        /\ stop.event = "safety.stop"
    BY DEF GatewayStateEvent, SafetyStopEvent
  <2>2. DeadlineEvents = <<change, stop>> /\ state' = "SAFE_STOPPED"
    BY <1>1, <1>5, DeadlineShape
       DEF EvaluateDeadline, DeadlineState, HandshakeExpired, WatchdogExpired
  <2> HIDE DEF change, stop
  <2>3. Events' = {change, stop} \/ Events' = {change, stop, r}
    BY <1>2, <2>2, ConcatTwoOne, TwoEvents, ThreeEvents
  <2> QED BY <1>2, <2>1, <2>2, <2>3, AnnouncedWithoutTargets
<1> QED BY <1>3, <1>4, <1>5 DEF Expired

(* The calls that obey or refuse without a deadline.                       *)
LEMMA CommandAnnounced ==
    ASSUME NEW c \in Command,
           \/ Reject(c) \/ SessionStart(c) \/ ModeSet(c) \/ HeadRecenter(c)
           \/ SessionStop(c) \/ EmergencyStop(c)
    PROVE  Announced /\ Kind("neck.target")' = {}
<1>1. CASE Reject(c)
  <2> DEFINE r == Rejected(Refusal(c), c)
  <2>1. r.event = "command.rejected"
    BY DEF Rejected, CommandRejectedEvent
  <2>2. out' = <<r>> /\ state' = state
    BY <1>1 DEF Reject
  <2> HIDE DEF r
  <2> QED BY <2>1, <2>2, OneEvent, AnnouncedWithoutTargets
<1>2. CASE SessionStart(c)
  BY <1>2, TransitionAnnounced DEF SessionStart
<1>3. CASE ModeSet(c)
  BY <1>3, NoEvents, AnnouncedWithoutTargets DEF ModeSet
<1>4. CASE HeadRecenter(c)
  BY <1>4, TransitionAnnounced DEF HeadRecenter
<1>5. CASE SessionStop(c)
  BY <1>5, TransitionAnnounced DEF SessionStop
<1>6. CASE EmergencyStop(c)
  BY <1>6, TransitionAnnounced DEF EmergencyStop
<1> QED BY <1>1, <1>2, <1>3, <1>4, <1>5, <1>6

LEMMA PoseAnnounced ==
    ASSUME NEW c \in Command, HeadPose(c)
    PROVE  /\ Announced
           /\ Kind("safety.stop")' = {} /\ Kind("gateway.state")' = {}
           /\ Kind("neck.target")' = {NeckTargetEvent(c.sessionId, c.sequence, neck'.lastTarget)}
<1> DEFINE target == NeckTargetEvent(c.sessionId, c.sequence, neck'.lastTarget)
<1>1. target.event = "neck.target"
  BY DEF NeckTargetEvent
<1>2. out' = <<target>> /\ state' = state
  BY DEF HeadPose
<1> HIDE DEF target
<1>3. Events' = {target}
  BY <1>2, OneEvent
<1> QED BY <1>1, <1>2, <1>3 DEF Announced, Kind, target

(* The targets published are of sessions begun, and never of one that has  *)
(* yet to be recentred.                                                    *)
PublishedInSession ==
    published # None =>
        /\ published.order.sessionId \in usedSessionIds
        /\ published.at \in Nat /\ published.at <= now
        /\ state = "AWAITING_RECENTER" => published.order.sessionId # activeSessionId

ConsumerInv == IInv /\ ShownIsState /\ PublishedInSession /\ CommandedIsPublished

LEMMA ConsumerInitInvariant == CInit => ConsumerInv
BY InitInvariant
   DEF CInit, Init, ConsumerInv, ShownIsState, PublishedInSession, CommandedIsPublished

(* Events that announce what the call did keep the reader informed.        *)
LEMMA ShownFollows ==
    ASSUME ShownIsState, Announced, Consume
    PROVE  ShownIsState'
<1> DEFINE states == Kind("gateway.state")'
           stops == Kind("safety.stop")'
<1>1. /\ shown' = IF states = {} THEN shown ELSE (CHOOSE e \in states : TRUE).state
      /\ holding' = IF stops # {} THEN TRUE
                    ELSE IF states # {} THEN shown' # "HEAD_ACTIVE" ELSE holding
  BY DEF Consume
<1>2. /\ states = {} => state' = state
      /\ \A e \in states : e.state = state'
      /\ stops # {} => state' # "HEAD_ACTIVE"
  BY DEF Announced
<1>3. shown = state /\ (holding <=> state # "HEAD_ACTIVE")
  BY DEF ShownIsState
<1> HIDE DEF states, stops
<1>4. shown' = state'
  <2>1. CASE states = {}
    BY <1>1, <1>2, <1>3, <2>1
  <2>2. CASE states # {}
    <3>1. (CHOOSE e \in states : TRUE) \in states
      BY <2>2
    <3> QED BY <1>1, <1>2, <2>2, <3>1
  <2> QED BY <2>1, <2>2
<1>5. holding' <=> state' # "HEAD_ACTIVE"
  <2>1. CASE stops # {}
    BY <1>1, <1>2, <2>1
  <2>2. CASE stops = {} /\ states # {}
    BY <1>1, <1>4, <2>2
  <2>3. CASE stops = {} /\ states = {}
    BY <1>1, <1>2, <1>3, <2>3
  <2> QED BY <2>1, <2>2, <2>3
<1> QED BY <1>4, <1>5 DEF ShownIsState

LEMMA NothingPublished ==
    ASSUME Consume, Kind("neck.target")' = {}
    PROVE  published' = published
BY DEF Consume

LEMMA TargetPublished ==
    ASSUME Consume, NEW t, Kind("neck.target")' = {t}
    PROVE  published' = [order |-> t, at |-> now]
<1>1. (CHOOSE e \in {t} : TRUE) = t
  OBVIOUS
<1>2. {t} # {}
  OBVIOUS
<1> QED BY <1>1, <1>2 DEF Consume

(* A call that ends the session or leaves it and the neck alone.           *)
LEMMA NeckLeftAlone ==
    ASSUME PublishedInSession, CommandedIsPublished, UNCHANGED <<usedSessionIds, neck, now, published>>,
           \/ ~InSession'
           \/ UNCHANGED <<state, activeSessionId>>
    PROVE  PublishedInSession' /\ CommandedIsPublished'
BY DEF PublishedInSession, CommandedIsPublished, InSession

LEMMA DeadlineConsumed ==
    ASSUME ConsumerInv, DeadlineCall, Consume
    PROVE  ConsumerInv'
<1>1. EvaluateDeadline /\ Announced /\ published' = published
  BY DeadlineCallStep, DeadlineAnnounced, NothingPublished
<1>2. IInv' /\ ShownIsState'
  BY <1>1, DeadlineInvariant, ShownFollows DEF ConsumerInv
<1>3. PublishedInSession' /\ CommandedIsPublished'
  <2>1. UNCHANGED <<usedSessionIds, neck, now>>
    BY <1>1, DeadlineStep
  <2>2. ~InSession' \/ UNCHANGED <<state, activeSessionId>>
    BY <1>1, DeadlineStep DEF InSession, session
  <2> QED BY <1>1, <2>1, <2>2, NeckLeftAlone DEF ConsumerInv
<1> QED BY <1>2, <1>3 DEF ConsumerInv

LEMMA CommandConsumed ==
    ASSUME ConsumerInv, Consume, NEW c \in Command,
           \/ Reject(c) \/ SessionStart(c) \/ ModeSet(c) \/ HeadRecenter(c)
           \/ SessionStop(c) \/ EmergencyStop(c)
    PROVE  ConsumerInv'
<1>1. Announced /\ published' = published
  BY CommandAnnounced, NothingPublished
<1>2. IInv' /\ ShownIsState'
  BY <1>1, HandleInvariant, ShownFollows DEF ConsumerInv, Handle
<1>3. now \in Nat
  BY DEF ConsumerInv, IInv, TypeOK
<1>4. PublishedInSession' /\ CommandedIsPublished'
  <2>1. CASE Reject(c) \/ ModeSet(c)
    BY <1>1, <2>1, NeckLeftAlone DEF Reject, ModeSet, session, ConsumerInv
  <2>2. CASE SessionStop(c) \/ EmergencyStop(c)
    BY <1>1, <2>2, NeckLeftAlone DEF SessionStop, EmergencyStop, InSession, ConsumerInv
  <2>3. CASE SessionStart(c)
    <3>1. c.sessionId \notin usedSessionIds
      BY <2>3, StartGates DEF SessionStart, Admitted
    <3> QED BY <1>1, <2>3, <3>1
        DEF SessionStart, ConsumerInv, PublishedInSession, CommandedIsPublished
  <2>4. CASE HeadRecenter(c)
    <3>1. /\ neck'.lastUpdate = now
          /\ neck'.lastTarget = IF state = "HEAD_ACTIVE" THEN neck.lastTarget ELSE Initial
      BY <2>4 DEF HeadRecenter, Recentered
    <3>2. UNCHANGED <<usedSessionIds, activeSessionId, now>> /\ state' = "HEAD_ACTIVE"
      BY <2>4 DEF HeadRecenter
    <3>3. state = "HEAD_ACTIVE" \/ state = "AWAITING_RECENTER"
      BY <2>4, ObeyedInSession DEF ConsumerInv, InSession
    <3>4. PublishedInSession'
      BY <1>1, <3>2 DEF ConsumerInv, PublishedInSession
    <3>5. CommandedIsPublished'
      BY <1>1, <1>3, <3>1, <3>2, <3>3
         DEF ConsumerInv, PublishedInSession, CommandedIsPublished
    <3> QED BY <3>4, <3>5
  <2> QED BY <2>1, <2>2, <2>3, <2>4
<1> QED BY <1>2, <1>4 DEF ConsumerInv

LEMMA PoseConsumed ==
    ASSUME ConsumerInv, Consume, NEW c \in Command, HeadPose(c)
    PROVE  /\ ConsumerInv'
           /\ published' = [order |-> NeckTargetEvent(c.sessionId, c.sequence, neck'.lastTarget), at |-> now]
           /\ state = "HEAD_ACTIVE" /\ c.sessionId = activeSessionId
<1> DEFINE target == NeckTargetEvent(c.sessionId, c.sequence, neck'.lastTarget)
<1>1. Announced /\ published' = [order |-> target, at |-> now]
  BY PoseAnnounced, TargetPublished
<1>2. IInv /\ IInv' /\ ShownIsState'
  BY <1>1, HandleInvariant, ShownFollows DEF ConsumerInv, Handle
<1>3. /\ state = "HEAD_ACTIVE" /\ InSession /\ c.sessionId = activeSessionId
      /\ c.payload.type = "Pose"
  BY <1>2, Gates, PoseGate, ObeyedInSession DEF HeadPose, Admitted, ExpectedPayload
<1>4. UNCHANGED <<state, usedSessionIds, activeSessionId, now>> /\ now \in Nat
  BY <1>2 DEF HeadPose, IInv, TypeOK
<1>5. neck' \in NeckState /\ neck'.lastUpdate = now
  <2>1. neck' \in Updated(neck, c.payload.orientation, now)
    BY DEF HeadPose
  <2>2. c.payload.orientation \in Orientation /\ neck \in NeckState /\ Limited(neck)
    BY <1>2, <1>3, PoseType DEF IInv, TypeOK
  <2> QED BY <1>4, <2>1, <2>2, UpdatedStep
<1>6. target \in [event : {"neck.target"}, sessionId : SessionId, sequence : Sequence, target : Degrees]
  <2>1. neck'.lastTarget \in Degrees
    BY <1>5 DEF NeckState
  <2> QED BY <2>1, CommandType DEF NeckTargetEvent
<1>7. published' # None
  BY <1>1, <1>4, <1>6, ConsumerAssumption DEF Publication
<1>8. /\ published'.order.sessionId = activeSessionId /\ published'.order.target = neck'.lastTarget
      /\ published'.at = now
  BY <1>1, <1>3 DEF NeckTargetEvent
<1>9. activeSessionId \in usedSessionIds
  BY <1>2, <1>3 DEF IInv, SessionCoherence
<1>10. PublishedInSession' /\ CommandedIsPublished'
  BY <1>3, <1>4, <1>5, <1>7, <1>8, <1>9 DEF PublishedInSession, CommandedIsPublished
<1> QED BY <1>1, <1>2, <1>3, <1>10 DEF ConsumerInv

(* The steps of the consumer: it reads the events of every call.           *)
LEMMA ConsumerSteps ==
    ASSUME ConsumerInv, CNext
    PROVE  \/ Tick /\ UNCHANGED consumer
           \/ Consume /\ DeadlineCall
           \/ Consume /\ \E c \in Command :
                \/ Reject(c) \/ SessionStart(c) \/ ModeSet(c) \/ HeadRecenter(c)
                \/ HeadPose(c) \/ SessionStop(c) \/ EmergencyStop(c)
<1>1. Next /\ IF Called THEN Consume ELSE UNCHANGED consumer
  BY DEF CNext
<1>2. CASE Tick
  <2>1. now \in Nat
    BY DEF ConsumerInv, IInv, TypeOK
  <2>2. ~Called
    BY <1>2, <2>1 DEF Tick, Called
  <2> QED BY <1>1, <1>2, <2>2
<1>3. CASE DeadlineCall
  <2>1. Called
    BY <1>3, DeadlineCallStep, DeadlineStep DEF Called
  <2> QED BY <1>1, <1>3, <2>1
<1>4. ASSUME NEW c \in Command,
             \/ Reject(c) \/ SessionStart(c) \/ ModeSet(c) \/ HeadRecenter(c)
             \/ HeadPose(c) \/ SessionStop(c) \/ EmergencyStop(c)
      PROVE  Called
  BY <1>4 DEF Called, Reject, SessionStart, ModeSet, HeadRecenter, HeadPose,
              SessionStop, EmergencyStop
<1> QED BY <1>1, <1>2, <1>3, <1>4, StepKinds

LEMMA ConsumerStepInvariant == ConsumerInv /\ [CNext]_<<vars, consumer>> => ConsumerInv'
<1> SUFFICES ASSUME ConsumerInv, [CNext]_<<vars, consumer>> PROVE ConsumerInv'
  OBVIOUS
<1>1. CASE Tick /\ UNCHANGED consumer
  <2>1. /\ now' = now + 1 /\ UNCHANGED <<state, usedSessionIds, activeSessionId, neck>>
        /\ UNCHANGED <<shown, holding, published>>
    BY <1>1 DEF Tick, session, consumer
  <2>2. IInv' /\ now \in Nat
    BY <1>1, StepInvariant DEF Next, ConsumerInv, IInv, TypeOK
  <2> QED BY <2>1, <2>2 DEF ConsumerInv, ShownIsState, PublishedInSession, CommandedIsPublished
<1>2. CASE Consume /\ DeadlineCall
  BY <1>2, DeadlineConsumed
<1>3. ASSUME NEW c \in Command, Consume,
             \/ Reject(c) \/ SessionStart(c) \/ ModeSet(c) \/ HeadRecenter(c)
             \/ HeadPose(c) \/ SessionStop(c) \/ EmergencyStop(c)
      PROVE  ConsumerInv'
  BY <1>3, CommandConsumed, PoseConsumed
<1>4. CASE UNCHANGED <<vars, consumer>>
  <2>1. IInv'
    BY <1>4, StepInvariant DEF ConsumerInv
  <2> QED BY <1>4, <2>1
      DEF vars, session, consumer, ConsumerInv, ShownIsState, PublishedInSession, CommandedIsPublished
<1> QED BY <1>1, <1>2, <1>3, <1>4, ConsumerSteps

LEMMA ConsumerInvariance == CSpec => []ConsumerInv
BY ConsumerInitInvariant, ConsumerStepInvariant, PTL DEF CSpec

(* Who reads every event knows the gateway's state and when to hold.       *)
THEOREM StreamIsFaithful == CSpec => []ShownIsState
<1>1. ConsumerInv => ShownIsState
  BY DEF ConsumerInv
<1> QED BY <1>1, ConsumerInvariance, PTL

(* What the controller takes for the commanded position is what consumers  *)
(* were last told, through any number of recentrings.                      *)
THEOREM CommandIsWhatWasPublished == CSpec => []CommandedIsPublished
<1>1. ConsumerInv => CommandedIsPublished
  BY DEF ConsumerInv
<1> QED BY <1>1, ConsumerInvariance, PTL

(* A step that publishes a target handles a pose.                          *)
LEMMA PublishingStep ==
    ASSUME ConsumerInv, CNext, Called, Kind("neck.target")' # {}
    PROVE  Consume /\ \E c \in Command : HeadPose(c)
<1>1. CASE Consume /\ DeadlineCall
  BY <1>1, DeadlineAnnounced
<1>2. ~Tick
  BY DEF Tick, Called, ConsumerInv, IInv, TypeOK
<1>3. ASSUME NEW c \in Command,
             \/ Reject(c) \/ SessionStart(c) \/ ModeSet(c) \/ HeadRecenter(c)
             \/ SessionStop(c) \/ EmergencyStop(c)
      PROVE  FALSE
  BY <1>3, CommandAnnounced
<1> QED BY <1>1, <1>2, <1>3, ConsumerSteps

(* A target reaches a consumer only after it was released, in the session  *)
(* that released it, newer than all before and in time.                    *)
THEOREM TargetsAreReleased == CSpec => TargetsOnlyWhenReleased
<1> DEFINE Released ==
      /\ ~holding /\ shown = "HEAD_ACTIVE"
      /\ published'.order.sessionId = activeSessionId
      /\ published'.order.sequence > lastSequence
      /\ now - lastValid < WatchdogTimeout
<1>1. ConsumerInv /\ [CNext]_<<vars, consumer>>
        => [Called /\ Kind("neck.target")' # {} => Released]_<<vars, consumer>>
  <2> SUFFICES ASSUME ConsumerInv, CNext, Called, Kind("neck.target")' # {}
               PROVE  Released
    OBVIOUS
  <2>1. PICK c \in Command : Consume /\ HeadPose(c)
    BY PublishingStep
  <2>2. /\ state = "HEAD_ACTIVE" /\ c.sessionId = activeSessionId
        /\ published'.order = NeckTargetEvent(c.sessionId, c.sequence, neck'.lastTarget)
    BY <2>1, PoseConsumed
  <2>3. ~holding /\ shown = "HEAD_ACTIVE"
    BY <2>2 DEF ConsumerInv, ShownIsState
  <2>4. c.sequence > lastSequence /\ now - lastValid < WatchdogTimeout
    BY <2>1, <2>2, SequenceRises, InTime DEF HeadPose, Admitted, InSession, ConsumerInv
  <2> QED BY <2>2, <2>3, <2>4 DEF NeckTargetEvent
<1> QED BY <1>1, ConsumerInvariance, PTL DEF CSpec, TargetsOnlyWhenReleased

(* More time allows no less movement.                                      *)
LEMMA MoreTime ==
    ASSUME NEW rate \in Nat, NEW short \in Nat, NEW long \in Nat, short <= long
    PROVE  rate * short \in Nat /\ rate * long \in Nat /\ rate * short <= rate * long
OBVIOUS

(* The rate holds between the targets a consumer sees, whatever happened   *)
(* between them.                                                           *)
THEOREM RateIsKeptForConsumers == CSpec => PublishedRate
<1> DEFINE Kept ==
      \A a \in Axis :
        LET moved == published'.order.target[a] - published.order.target[a]
            reach == MaxRate[a] * (now - published.at)
        IN  moved <= reach /\ -moved <= reach
           Before == published # None /\ published.order.sessionId = activeSessionId
<1>1. ConsumerInv /\ [CNext]_<<vars, consumer>>
        => [Called /\ Kind("neck.target")' # {} /\ Before => Kept]_<<vars, consumer>>
  <2> SUFFICES ASSUME ConsumerInv, CNext, Called, Kind("neck.target")' # {}, Before,
                      NEW a \in Axis
               PROVE  LET moved == published'.order.target[a] - published.order.target[a]
                          reach == MaxRate[a] * (now - published.at)
                      IN  moved <= reach /\ -moved <= reach
    OBVIOUS
  <2>1. PICK c \in Command : Consume /\ HeadPose(c)
    BY PublishingStep
  <2>2. /\ state = "HEAD_ACTIVE"
        /\ published'.order = NeckTargetEvent(c.sessionId, c.sequence, neck'.lastTarget)
    BY <2>1, PoseConsumed
  <2>3. published'.order.target = neck'.lastTarget
    BY <2>2 DEF NeckTargetEvent
  <2>4. /\ neck.lastTarget = published.order.target /\ published.at <= neck.lastUpdate
        /\ published.at \in Nat /\ published.at <= now
    BY <2>2 DEF ConsumerInv, CommandedIsPublished, PublishedInSession
  <2>5. /\ neck \in NeckState /\ Limited(neck) /\ now \in Nat
        /\ neck' \in Updated(neck, c.payload.orientation, now)
        /\ c.payload.orientation \in Orientation
    BY <2>1, Gates, PoseType
       DEF ConsumerInv, IInv, TypeOK, HeadPose, Admitted, ExpectedPayload
  <2> DEFINE before == neck.lastTarget[a]
             after == neck'.lastTarget[a]
             rate == MaxRate[a]
             short == Elapsed(neck, now)
             long == now - published.at
  <2>6. before \in Int /\ after \in Int
    <3>1. neck' \in NeckState
      BY <2>5, UpdatedStep
    <3> QED BY <2>5, <3>1 DEF NeckState, Degrees
  <2>7. after - before <= rate * short /\ before - after <= rate * short
    BY <2>5, UpdatedStep
  <2>8. rate \in Nat /\ short \in Nat /\ long \in Nat /\ short <= long
    <3>1. rate \in Nat
      BY NeckConfig
    <3>2. neck.lastUpdate \in Nat
      BY <2>5 DEF NeckState
    <3> QED BY <2>4, <2>5, <3>1, <3>2 DEF Elapsed
  <2>9. rate * short \in Nat /\ rate * long \in Nat /\ rate * short <= rate * long
    BY <2>8, MoreTime
  <2> HIDE DEF before, after, short, long, rate
  <2> DEFINE near == rate * short
             far == rate * long
  <2>10. near \in Nat /\ far \in Nat /\ near <= far
    BY <2>9
  <2>11. after - before <= near /\ before - after <= near
    BY <2>7
  <2> HIDE DEF near, far
  <2>12. after - before <= far /\ -(after - before) <= far
    BY <2>6, <2>10, <2>11
  <2> QED BY <2>3, <2>4, <2>12 DEF before, after, rate, long, far
<1> QED BY <1>1, ConsumerInvariance, PTL DEF CSpec, PublishedRate
================================================================================
