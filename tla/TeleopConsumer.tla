----------------------------- MODULE TeleopConsumer -----------------------------
(***************************************************************************)
(* A consumer of the gateway's event stream, such as the driver of the     *)
(* neck: it knows the gateway only through the events of each call, in     *)
(* order.  It keeps the state last shown, whether it was told to hold and  *)
(* has not been released since, and the last target published.             *)
(***************************************************************************)
EXTENDS VrGateway

VARIABLES shown, holding, published

consumer == <<shown, holding, published>>

(* The target that was published and when; None is no such record.         *)
Publication ==
    [ order : [event : {"neck.target"}, sessionId : SessionId, sequence : Sequence, target : Degrees],
      at : Nat ]

ASSUME ConsumerAssumption == None \notin Publication

CInit ==
    /\ Init
    /\ shown = "IDLE"
    /\ holding = TRUE
    /\ published = None

(* The events of one call are consumed before the next call is made.       *)
Consume ==
    LET states  == Kind("gateway.state")
        stops   == Kind("safety.stop")
        targets == Kind("neck.target")
    IN  /\ shown' = IF states' = {} THEN shown ELSE (CHOOSE e \in states' : TRUE).state
        /\ holding' = IF stops' # {} THEN TRUE
                      ELSE IF states' # {} THEN shown' # "HEAD_ACTIVE" ELSE holding
        /\ published' = IF targets' = {} THEN published
                        ELSE [order |-> CHOOSE e \in targets' : TRUE, at |-> now]

CNext ==
    /\ Next
    /\ IF Called THEN Consume ELSE UNCHANGED consumer

CSpec == CInit /\ [][CNext]_<<vars, consumer>>

--------------------------------------------------------------------------------

(* The stream is a faithful account of the gateway: who has read every     *)
(* event knows the gateway's state although states are announced only when *)
(* they change, and is released from holding exactly while it is active.   *)
ShownIsState ==
    /\ shown = state
    /\ holding <=> state # "HEAD_ACTIVE"

(* A target is published only to a consumer that is released, and each one *)
(* is ordered by a newer command of the session whose recentring released  *)
(* it, within the watchdog time of the one before it.                      *)
TargetsOnlyWhenReleased ==
    [][ Called /\ Kind("neck.target")' # {} =>
          /\ ~holding /\ shown = "HEAD_ACTIVE"
          /\ published'.order.sessionId = activeSessionId
          /\ published'.order.sequence > lastSequence
          /\ now - lastValid < WatchdogTimeout ]_<<vars, consumer>>

(* The controller's idea of the commanded position is the position last    *)
(* published in the session, whatever recentrings, mode changes and        *)
(* rejections came after it; before the first one it is the initial target.*)
CommandedIsPublished ==
    state = "HEAD_ACTIVE" =>
        IF published # None /\ published.order.sessionId = activeSessionId
        THEN /\ neck.lastTarget = published.order.target
             /\ published.at <= neck.lastUpdate
        ELSE neck.lastTarget = Initial

(* Between two published targets of a session the commanded position moves *)
(* by no more than the configured rate times the time between them, also   *)
(* when the head was silent in between while mode changes kept the         *)
(* watchdog fed, or was recentred.                                         *)
PublishedRate ==
    [][ Called /\ Kind("neck.target")' # {}
          /\ published # None /\ published.order.sessionId = activeSessionId =>
          \A a \in Axis :
            LET moved == published'.order.target[a] - published.order.target[a]
                reach == MaxRate[a] * (now - published.at)
            IN  moved <= reach /\ -moved <= reach ]_<<vars, consumer>>
================================================================================
