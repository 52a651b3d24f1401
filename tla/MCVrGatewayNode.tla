---------------------------- MODULE MCVrGatewayNode ----------------------------
(***************************************************************************)
(* A node with a subscription of two frames.  Clients publish the commands *)
(* of one session, the start of a second one, an emergency stop, a command *)
(* the codec refuses, and text that is no command.                         *)
(***************************************************************************)
EXTENDS VrGatewayNode

CONSTANTS First, Second

MCAxis == {"pan"}
Pan(degrees) == [a \in MCAxis |-> degrees]
MCZero == Pan(0)
MCMaxRate == Pan(1)
MCMinimum == Pan(-3)
MCMaximum == Pan(3)
MCRelative == [ahead |-> [ahead |-> Pan(0)]]

Order(name, sid, seq, payload) ==
    [ command |-> name, sessionId |-> sid, sequence |-> seq,
      timestamp |-> 0, payload |-> payload ]

Start == [type |-> "SessionStart", mode |-> "head"]
Pose == [type |-> "Pose", orientation |-> "ahead"]
EmptyPayload == [type |-> "Empty"]

MCCommand ==
    { Order("SESSION_START", First, 1, Start),
      Order("SESSION_START", Second, 1, Start),
      Order("HEAD_RECENTER", First, 2, Pose),
      Order("HEAD_POSE", First, 3, Pose),
      Order("SESSION_STOP", First, 4, EmptyPayload),
      Order("EMERGENCY_STOP", Second, 1, EmptyPayload),
      Order("EMERGENCY_STOP", Second, 1, Pose) }

Texts == {[text |-> "command", command |-> c] : c \in MCCommand}

MCFrame == Texts \cup [text : {"malformed", "numberOutOfRange"}]
================================================================================
