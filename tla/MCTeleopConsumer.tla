---------------------------- MODULE MCTeleopConsumer ----------------------------
(***************************************************************************)
(* The consumer beside a gateway whose clients send well-formed commands:  *)
(* fewer kinds of command than MCVrGateway, and a head that moves.         *)
(***************************************************************************)
EXTENDS TeleopConsumer

MCAxis == {"pan"}
Pan(degrees) == [a \in MCAxis |-> degrees]

(* A head that looks ahead or four degrees to the left.                    *)
MCOrientation == {"ahead", "left"}
MCRelative ==
    [ ahead |-> [ahead |-> Pan(0),  left |-> Pan(4)],
      left  |-> [ahead |-> Pan(-4), left |-> Pan(0)] ]
MCCenter == Pan(0)
MCInitial == Pan(1)
MCGain == Pan(1)
MCMaxRate == Pan(1)
MCMinimum == Pan(-2)
MCMaximum == Pan(3)

CONSTANTS Long, Short   \* a session that goes on and one that replaces it

Order(name, payload) ==
    [ command : {name}, sessionId : {Long}, sequence : Sequence,
      timestamp : {0}, payload : {payload} ]
      \cup
    [ command : {name}, sessionId : {Short}, sequence : 1..3,
      timestamp : {0}, payload : {payload} ]

Start == [type |-> "SessionStart", mode |-> "head"]
Pose(orientation) == [type |-> "Pose", orientation |-> orientation]
EmptyPayload == [type |-> "Empty"]

MCCommand ==
    UNION { Order("SESSION_STOP", EmptyPayload),
            Order("MODE_SET", [type |-> "ModeSet", mode |-> "head"]),
            Order("HEAD_RECENTER", Pose("left")),
            Order("HEAD_POSE", Pose("ahead")), Order("HEAD_POSE", Pose("left")) }
      \cup {c \in Order("SESSION_START", Start) \cup Order("EMERGENCY_STOP", EmptyPayload) :
                c.sequence = 1}
================================================================================
