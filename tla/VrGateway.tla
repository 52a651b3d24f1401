------------------------------- MODULE VrGateway -------------------------------
(***************************************************************************)
(* The gateway state machine of robot/vr_gateway/gateway.py.  One action   *)
(* is one call of handle() or poll(), from the clock reading to the events *)
(* it returns (out); the calls are made by a single thread, and Tick lets  *)
(* the monotonic clock advance between them.                               *)
(***************************************************************************)
EXTENDS NeckPipeline, Sequences

CONSTANTS
    SessionId,         \* the session identifiers clients choose
    None,              \* Python's None
    Sequence,          \* the sequence numbers commands carry
    Timestamp,         \* the client timestamps commands carry
    Mode,              \* mode names
    Command,           \* the envelopes that may arrive
    HandshakeTimeout,  \* handshake_timeout_ns, in ticks
    WatchdogTimeout,   \* motion_watchdog_timeout_ns, in ticks
    Horizon,           \* bound: clients fall silent after this moment
    MaxTime            \* bound on the clock

CommandName ==
    { "SESSION_START", "SESSION_STOP", "MODE_SET",
      "HEAD_POSE", "HEAD_RECENTER", "EMERGENCY_STOP" }

GatewayState ==
    {"IDLE", "AWAITING_RECENTER", "HEAD_ACTIVE", "SAFE_STOPPED", "ESTOP_LATCHED"}

RejectionCode ==
    { "STALE_SEQUENCE", "STALE_TIMESTAMP", "SESSION_MISMATCH", "NO_ACTIVE_SESSION",
      "MODE_BLOCKED", "UNKNOWN_MODE", "WATCHDOG_ACTIVE", "INVALID_PAYLOAD",
      "ESTOP_LATCHED" }

StopReason == {"WATCHDOG", "EMERGENCY_STOP", "SESSION_STOPPED"}

(* The four payload classes; a pose is its orientation.                    *)
Payload ==
    [type : {"SessionStart", "ModeSet"}, mode : Mode]
        \cup [type : {"Pose"}, orientation : Orientation]
        \cup [type : {"Empty"}]

(* A CommandEnvelope that passes its own validation.                       *)
Envelope ==
    [ command : CommandName, sessionId : SessionId, sequence : Sequence,
      timestamp : Timestamp, payload : Payload ]

ASSUME GatewayConstants ==
    /\ None \notin SessionId /\ None \notin Int /\ None \notin RejectionCode
    /\ Sequence \subseteq Nat \ {0}
    /\ Timestamp \subseteq Nat
    /\ Command \subseteq Envelope
    /\ HandshakeTimeout \in Nat \ {0}
    /\ WatchdogTimeout \in Nat \ {0}
    /\ Horizon \in Nat /\ MaxTime \in Nat

(* The output events.                                                      *)
GatewayStateEvent(s, sid, seq) == [event |-> "gateway.state", state |-> s, sessionId |-> sid, sequence |-> seq]
NeckTargetEvent(sid, seq, t) == [event |-> "neck.target", sessionId |-> sid, sequence |-> seq, target |-> t]
SafetyStopEvent(r, sid, seq) == [event |-> "safety.stop", reason |-> r, sessionId |-> sid, sequence |-> seq]
CommandRejectedEvent(code, sid, seq) == [event |-> "command.rejected", code |-> code, sessionId |-> sid, sequence |-> seq]

--------------------------------------------------------------------------------

VARIABLES
    state,
    usedSessionIds,
    activeSessionId,
    lastSequence,
    lastTimestamp,
    sessionStarted,   \* session_started_monotonic_ns
    lastValid,        \* last_valid_packet_received_monotonic_ns
    neck,             \* the state of neck_controller
    now,              \* the monotonic clock
    out               \* the events returned by the latest call

session == <<activeSessionId, lastSequence, lastTimestamp, sessionStarted, lastValid>>
vars == <<state, usedSessionIds, session, neck, now, out>>

Init ==
    /\ state = "IDLE"
    /\ usedSessionIds = {}
    /\ activeSessionId = None
    /\ lastSequence = None
    /\ lastTimestamp = None
    /\ sessionStarted = None
    /\ lastValid = None
    /\ neck = NewNeck
    /\ now = 0
    /\ out = <<>>

(* Faulty variant of Accept: the two ordering fields are exchanged.        *)
AcceptExchanged(c) ==
    /\ lastSequence' = c.timestamp
    /\ lastTimestamp' = c.sequence
    /\ lastValid' = now

(* _accept                                                                 *)
Accept(c) ==
    /\ lastSequence' = c.sequence
    /\ lastTimestamp' = c.timestamp
    /\ lastValid' = now

(* Faulty variant of InvalidateActiveSession: the sequence is left behind. *)
InvalidateExceptSequence ==
    /\ activeSessionId' = None /\ lastTimestamp' = None
    /\ sessionStarted' = None /\ lastValid' = None
    /\ UNCHANGED lastSequence

InvalidateActiveSession ==
    /\ activeSessionId' = None
    /\ lastSequence' = None
    /\ lastTimestamp' = None
    /\ sessionStarted' = None
    /\ lastValid' = None

(* Faulty variant of TransitionEvents: becoming idle is not announced.     *)
TransitionEventsButIdle(s, sid, seq) ==
    IF state = s \/ s = "IDLE" THEN <<>> ELSE <<GatewayStateEvent(s, sid, seq)>>

(* _transition: an event only when the state changes; state' = s goes with it. *)
TransitionEvents(s, sid, seq) ==
    IF state = s THEN <<>> ELSE <<GatewayStateEvent(s, sid, seq)>>

Rejected(code, c) == CommandRejectedEvent(code, c.sessionId, c.sequence)

--------------------------------------------------------------------------------
(* _evaluate_deadline                                                      *)

HandshakeExpired ==
    /\ state = "AWAITING_RECENTER"
    /\ sessionStarted # None
    /\ now - sessionStarted >= HandshakeTimeout

(* Faulty variant of WatchdogExpired: the boundary is taken as in time.    *)
WatchdogExpiredLate ==
    /\ state = "HEAD_ACTIVE" /\ lastValid # None
    /\ now - lastValid > WatchdogTimeout

WatchdogExpired ==
    /\ state = "HEAD_ACTIVE"
    /\ lastValid # None
    /\ now - lastValid >= WatchdogTimeout

Expired == HandshakeExpired \/ WatchdogExpired

DeadlineState ==
    CASE HandshakeExpired -> "IDLE"
      [] WatchdogExpired -> "SAFE_STOPPED"
      [] OTHER -> state

(* Faulty variants of DeadlineEvents: the stop precedes the state it       *)
(* announces; the session identifier is read after it was cleared.         *)
DeadlineEventsStopFirst ==
    CASE HandshakeExpired ->
           TransitionEvents("IDLE", activeSessionId, lastSequence)
      [] WatchdogExpired ->
           <<SafetyStopEvent("WATCHDOG", activeSessionId, lastSequence)>>
             \o TransitionEvents("SAFE_STOPPED", activeSessionId, lastSequence)
      [] OTHER -> <<>>

DeadlineEventsAfterClearing ==
    CASE HandshakeExpired -> TransitionEvents("IDLE", None, lastSequence)
      [] WatchdogExpired ->
           TransitionEvents("SAFE_STOPPED", None, lastSequence)
             \o <<SafetyStopEvent("WATCHDOG", None, lastSequence)>>
      [] OTHER -> <<>>

DeadlineEvents ==
    CASE HandshakeExpired ->
           TransitionEvents("IDLE", activeSessionId, lastSequence)
      [] WatchdogExpired ->
           TransitionEvents("SAFE_STOPPED", activeSessionId, lastSequence)
             \o <<SafetyStopEvent("WATCHDOG", activeSessionId, lastSequence)>>
      [] OTHER -> <<>>

EvaluateDeadline ==
    /\ state' = DeadlineState
    /\ IF Expired THEN InvalidateActiveSession ELSE UNCHANGED session
    /\ UNCHANGED <<usedSessionIds, neck, now>>

(* Faulty variant of Poll: only the motion watchdog is polled.             *)
PollWatchdogOnly ==
    IF HandshakeExpired
    THEN /\ out' = <<>>
         /\ UNCHANGED <<state, usedSessionIds, session, neck, now>>
    ELSE /\ EvaluateDeadline
         /\ out' = DeadlineEvents

Poll ==
    /\ EvaluateDeadline
    /\ out' = DeadlineEvents

--------------------------------------------------------------------------------
(* handle: the calls that end in a rejection                               *)

(* The envelope does not validate.  The rejection repeats what usable      *)
(* identifiers it has: _reject_untrusted.                                  *)
HandleInvalid(sid, seq) ==
    /\ EvaluateDeadline
    /\ out' = DeadlineEvents \o <<CommandRejectedEvent("INVALID_PAYLOAD", sid, seq)>>

IsEmergencyStop(c) == c.command = "EMERGENCY_STOP" /\ c.payload.type = "Empty"

RejectMalformedStop(c) ==
    /\ c.command = "EMERGENCY_STOP" /\ ~IsEmergencyStop(c)
    /\ EvaluateDeadline
    /\ out' = DeadlineEvents \o <<Rejected("INVALID_PAYLOAD", c)>>

(* A command that finds a deadline elapsed expires the session and is not  *)
(* looked at further, a session.start included.                            *)
RejectExpired(c) ==
    /\ c.command # "EMERGENCY_STOP"
    /\ Expired
    /\ EvaluateDeadline
    /\ LET code == IF DeadlineState = "SAFE_STOPPED" THEN "WATCHDOG_ACTIVE"
                                                    ELSE "NO_ACTIVE_SESSION"
       IN  out' = DeadlineEvents \o <<Rejected(code, c)>>

ModeRefusal(mode) ==
    CASE mode \in {"drive", "arm"} -> "MODE_BLOCKED"
      [] mode \notin {"drive", "arm", "head"} -> "UNKNOWN_MODE"
      [] OTHER -> None

(* Faulty variant of StartRefusal: a new session escapes the latch.        *)
StartRefusalUnlatched(c) ==
    IF c.payload.type # "SessionStart" \/ c.sequence # 1 THEN "INVALID_PAYLOAD"
    ELSE IF c.sessionId \in usedSessionIds THEN "INVALID_PAYLOAD"
    ELSE ModeRefusal(c.payload.mode)

(* The checks of _handle_session_start, in order.                          *)
StartRefusal(c) ==
    IF state = "ESTOP_LATCHED" THEN "ESTOP_LATCHED"
    ELSE IF c.payload.type # "SessionStart" \/ c.sequence # 1 THEN "INVALID_PAYLOAD"
    ELSE IF c.sessionId \in usedSessionIds THEN "INVALID_PAYLOAD"
    ELSE ModeRefusal(c.payload.mode)

ExpectedPayload(name) ==
    CASE name = "SESSION_STOP" -> "Empty"
      [] name = "MODE_SET" -> "ModeSet"
      [] OTHER -> "Pose"

(* What the handler of an admitted command refuses.                        *)
HandlerRefusal(c) ==
    CASE c.command = "MODE_SET" -> ModeRefusal(c.payload.mode)
      [] c.command = "HEAD_RECENTER" /\ state \notin {"AWAITING_RECENTER", "HEAD_ACTIVE"} -> "MODE_BLOCKED"
      [] c.command = "HEAD_POSE" /\ state # "HEAD_ACTIVE" -> "MODE_BLOCKED"
      [] OTHER -> None

(* Faulty variant of Refusal: a command may be replayed.                   *)
RefusalUnlessReplayed(c) ==
    IF c.command = "SESSION_START" THEN StartRefusal(c)
    ELSE IF state = "SAFE_STOPPED" THEN "WATCHDOG_ACTIVE"
    ELSE IF activeSessionId = None THEN "NO_ACTIVE_SESSION"
    ELSE IF c.sessionId # activeSessionId THEN "SESSION_MISMATCH"
    ELSE IF lastSequence # None /\ c.sequence < lastSequence THEN "STALE_SEQUENCE"
    ELSE IF lastTimestamp # None /\ c.timestamp < lastTimestamp THEN "STALE_TIMESTAMP"
    ELSE IF c.payload.type # ExpectedPayload(c.command) THEN "INVALID_PAYLOAD"
    ELSE HandlerRefusal(c)

(* The session, order and payload gates of handle, in order.               *)
Refusal(c) ==
    IF c.command = "SESSION_START" THEN StartRefusal(c)
    ELSE IF state = "SAFE_STOPPED" THEN "WATCHDOG_ACTIVE"
    ELSE IF activeSessionId = None THEN "NO_ACTIVE_SESSION"
    ELSE IF c.sessionId # activeSessionId THEN "SESSION_MISMATCH"
    ELSE IF lastSequence # None /\ c.sequence <= lastSequence THEN "STALE_SEQUENCE"
    ELSE IF lastTimestamp # None /\ c.timestamp < lastTimestamp THEN "STALE_TIMESTAMP"
    ELSE IF c.payload.type # ExpectedPayload(c.command) THEN "INVALID_PAYLOAD"
    ELSE HandlerRefusal(c)

(* Faulty variant of Reject: any traffic of a session feeds the watchdog.  *)
RejectFeedingWatchdog(c) ==
    /\ c.command # "EMERGENCY_STOP"
    /\ ~Expired
    /\ Refusal(c) # None
    /\ out' = <<Rejected(Refusal(c), c)>>
    /\ lastValid' = IF activeSessionId = None THEN None ELSE now
    /\ UNCHANGED <<state, usedSessionIds, activeSessionId, lastSequence,
                   lastTimestamp, sessionStarted, neck, now>>

Reject(c) ==
    /\ c.command # "EMERGENCY_STOP"
    /\ ~Expired
    /\ Refusal(c) # None
    /\ out' = <<Rejected(Refusal(c), c)>>
    /\ UNCHANGED <<state, usedSessionIds, session, neck, now>>

--------------------------------------------------------------------------------
(* handle: the calls that obey                                             *)

Admitted(c, name) ==
    /\ c.command = name
    /\ ~Expired
    /\ Refusal(c) = None

SessionStart(c) ==
    /\ Admitted(c, "SESSION_START")
    /\ usedSessionIds' = usedSessionIds \cup {c.sessionId}
    /\ activeSessionId' = c.sessionId
    /\ sessionStarted' = now
    /\ Accept(c)
    /\ state' = "AWAITING_RECENTER"
    /\ out' = TransitionEvents("AWAITING_RECENTER", c.sessionId, c.sequence)
    /\ UNCHANGED <<neck, now>>

ModeSet(c) ==
    /\ Admitted(c, "MODE_SET")
    /\ Accept(c)
    /\ out' = <<>>
    /\ UNCHANGED <<state, usedSessionIds, activeSessionId, sessionStarted, neck, now>>

HeadRecenter(c) ==
    /\ Admitted(c, "HEAD_RECENTER")
    /\ neck' = Recentered(neck, c.payload.orientation, now, state = "HEAD_ACTIVE")
    /\ Accept(c)
    /\ state' = "HEAD_ACTIVE"
    /\ out' = TransitionEvents("HEAD_ACTIVE", c.sessionId, c.sequence)
    /\ UNCHANGED <<usedSessionIds, activeSessionId, sessionStarted, now>>

HeadPose(c) ==
    /\ Admitted(c, "HEAD_POSE")
    /\ neck' \in Updated(neck, c.payload.orientation, now)
    /\ Accept(c)
    /\ out' = <<NeckTargetEvent(c.sessionId, c.sequence, neck'.lastTarget)>>
    /\ UNCHANGED <<state, usedSessionIds, activeSessionId, sessionStarted, now>>

SessionStop(c) ==
    /\ Admitted(c, "SESSION_STOP")
    /\ state' = "IDLE"
    /\ InvalidateActiveSession
    /\ out' = TransitionEvents("IDLE", c.sessionId, c.sequence)
                \o <<SafetyStopEvent("SESSION_STOPPED", c.sessionId, c.sequence)>>
    /\ UNCHANGED <<usedSessionIds, neck, now>>

(* Obeyed before any deadline, session or order check.                     *)
EmergencyStop(c) ==
    /\ IsEmergencyStop(c)
    /\ state' = "ESTOP_LATCHED"
    /\ InvalidateActiveSession
    /\ out' = TransitionEvents("ESTOP_LATCHED", c.sessionId, c.sequence)
                \o <<SafetyStopEvent("EMERGENCY_STOP", c.sessionId, c.sequence)>>
    /\ UNCHANGED <<usedSessionIds, neck, now>>

--------------------------------------------------------------------------------

Handle(c) ==
    \/ RejectMalformedStop(c)
    \/ RejectExpired(c)
    \/ Reject(c)
    \/ SessionStart(c)
    \/ ModeSet(c)
    \/ HeadRecenter(c)
    \/ HeadPose(c)
    \/ SessionStop(c)
    \/ EmergencyStop(c)

Tick ==
    /\ now < MaxTime
    /\ now' = now + 1
    /\ UNCHANGED <<state, usedSessionIds, session, neck, out>>

Next ==
    \/ now <= Horizon /\ \E c \in Command : Handle(c)
    \/ now <= Horizon /\ \E sid \in SessionId \cup {None}, seq \in Sequence \cup {None} :
                            HandleInvalid(sid, seq)
    \/ Poll
    \/ Tick

Spec == Init /\ [][Next]_vars

(* The poll timer runs on a steady clock and the executor serves it: the   *)
(* clock advances and poll() keeps being called, whatever clients do.      *)
Fairness == WF_vars(Tick) /\ WF_vars(Poll)

FairSpec == Spec /\ Fairness
--------------------------------------------------------------------------------
(* Properties                                                              *)

Events == {out[i] : i \in 1..Len(out)}

Kind(name) == {e \in Events : e.event = name}

TypeOK ==
    /\ state \in GatewayState
    /\ usedSessionIds \subseteq SessionId
    /\ activeSessionId \in SessionId \cup {None}
    /\ lastSequence \in Sequence \cup {None}
    /\ lastTimestamp \in Timestamp \cup {None}
    /\ sessionStarted \in Nat \cup {None}
    /\ lastValid \in Nat \cup {None}
    /\ neck \in NeckState
    /\ now \in Nat

InSession == state \in {"AWAITING_RECENTER", "HEAD_ACTIVE"}

(* The six attributes that describe a session agree in every state: either *)
(* a session is open, its identifier is spent and all its fields are set   *)
(* in chronological order, or none of them is.  The deadline tests, the    *)
(* order tests and the encoding of events all rely on it, each skipping    *)
(* its check when the field it reads is None.                              *)
SessionCoherence ==
    IF InSession
    THEN /\ activeSessionId \in usedSessionIds
         /\ lastSequence # None /\ lastTimestamp # None
         /\ sessionStarted \in Nat /\ lastValid \in Nat
         /\ sessionStarted <= lastValid /\ lastValid <= now
    ELSE session = <<None, None, None, None, None>>

Called == now' = now   \* the step is a call, not the clock

(* A call that loses the permission to move says so in the events it       *)
(* returns: the new state and the stop with the matching reason, in that   *)
(* order.  Only the takeover by a new session gives the new state alone.   *)
MotionLossIsAnnounced ==
    [][ Called /\ state = "HEAD_ACTIVE" /\ state' # "HEAD_ACTIVE" =>
          /\ out'[1].event = "gateway.state" /\ out'[1].state = state'
          /\ \/ /\ state' = "AWAITING_RECENTER"
                /\ activeSessionId' \notin usedSessionIds
             \/ /\ out'[2].event = "safety.stop"
                /\ <<state', out'[2].reason>> \in
                     { <<"SAFE_STOPPED", "WATCHDOG">>, <<"IDLE", "SESSION_STOPPED">>,
                       <<"ESTOP_LATCHED", "EMERGENCY_STOP">> } ]_vars

(* Rejected traffic is inert: a call that rejects its command leaves the   *)
(* session, the identifiers spent, the watchdog and the neck as they were, *)
(* unless a deadline had already elapsed, in which case it does exactly    *)
(* what a poll would have done at that moment.                             *)
RejectionsAreInert ==
    [][ Called /\ Kind("command.rejected")' # {} =>
          /\ UNCHANGED <<usedSessionIds, neck>>
          /\ IF Expired THEN state' = DeadlineState /\ ~InSession'
                        ELSE UNCHANGED <<state, session>> ]_vars

(* An emergency stop is for the life of the process: nothing leaves the    *)
(* latch, opens a session under it or moves the neck.                      *)
LatchHolds ==
    [][ state = "ESTOP_LATCHED" =>
          state' = "ESTOP_LATCHED" /\ UNCHANGED <<usedSessionIds, session, neck>> ]_vars

(* Every session ends once its client falls silent, without any traffic to *)
(* prompt the deadline checks.                                             *)
SilentSessionsEnd == InSession ~> ~InSession

--------------------------------------------------------------------------------
(* The gateway implements the permission protocol of TeleopSafety.         *)

Phase ==
    CASE state = "AWAITING_RECENTER" -> "arming"
      [] state = "HEAD_ACTIVE" -> "on"
      [] state = "ESTOP_LATCHED" -> "latched"
      [] OTHER -> "off"

Signal ==
    CASE Kind("neck.target") # {} -> "move"
      [] Kind("safety.stop") # {} -> "stop"
      [] OTHER -> "quiet"

Permission == INSTANCE TeleopSafety WITH
    Holder <- SessionId, Nobody <- None, Number <- Sequence,
    Handshake <- HandshakeTimeout, Lease <- WatchdogTimeout,
    phase <- Phase, holder <- activeSessionId, known <- usedSessionIds,
    number <- lastSequence, begun <- sessionStarted, heard <- lastValid,
    clock <- now, signal <- Signal

(* Permission to move is held by one never-used session at a time, engaged *)
(* within the handshake time, kept only by accepted commands of increasing *)
(* sequence less than the watchdog time apart, and never regained.         *)
PermissionContract == Permission!Spec
================================================================================
