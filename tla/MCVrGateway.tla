------------------------------ MODULE MCVrGateway ------------------------------
(***************************************************************************)
(* Small instances of the gateway: two client sessions, one neck axis.     *)
(***************************************************************************)
EXTENDS VrGateway

MCAxis == {"pan"}
Pan(degrees) == [a \in MCAxis |-> degrees]
MCZero == Pan(0)
MCInitial == Pan(0)
MCMaxRate == Pan(1)
MCGain == Pan(1)
MCMinimum == Pan(-3)
MCMaximum == Pan(3)
MCRelative == [ahead |-> [ahead |-> Pan(0)]]

Order(name, payload) ==
    [ command : {name}, sessionId : SessionId, sequence : Sequence,
      timestamp : Timestamp, payload : {payload} ]

PosePayload == [type |-> "Pose", orientation |-> "ahead"]
EmptyPayload == [type |-> "Empty"]
ModeSetPayload(mode) == [type |-> "ModeSet", mode |-> mode]
StartPayload(mode) == [type |-> "SessionStart", mode |-> mode]

(* What the wire codec produces: each command with the payload of its kind *)
WellFormed ==
    UNION { Order("SESSION_START", StartPayload("head")),
            Order("SESSION_STOP", EmptyPayload),
            Order("MODE_SET", ModeSetPayload("head")),
            Order("HEAD_POSE", PosePayload),
            Order("HEAD_RECENTER", PosePayload),
            Order("EMERGENCY_STOP", EmptyPayload) }

(* ... and what only a caller of the gateway itself can pass: the payload  *)
(* of another command, and the modes that are refused.                     *)
Odd ==
    UNION { Order("SESSION_START", EmptyPayload),
            Order("HEAD_POSE", EmptyPayload),
            Order("EMERGENCY_STOP", PosePayload) }
      \cup UNION {Order("SESSION_START", StartPayload(m)) : m \in Mode}
      \cup UNION {Order("MODE_SET", ModeSetPayload(m)) : m \in Mode}

MCCommand == WellFormed \cup Odd
================================================================================
