---------------------------- MODULE MCUnityTeleop -----------------------------
(***************************************************************************)
(* Two sessions of up to three commands each, in a channel for two.        *)
(***************************************************************************)
EXTENDS UnityTeleop, TLC

MCAxis == {"pan"}
Pan(degrees) == [a \in MCAxis |-> degrees]
MCZero == Pan(0)
MCInitial == Pan(0)
MCMaxRate == Pan(1)
MCGain == Pan(1)
MCMinimum == Pan(-3)
MCMaximum == Pan(3)
MCRelative == [ahead |-> [ahead |-> Pan(0)]]

PayloadsOf ==
    [ SESSION_START |-> [type : {"SessionStart"}, mode : {"head"}],
      SESSION_STOP |-> [type : {"Empty"}],
      MODE_SET |-> [type : {"ModeSet"}, mode : Mode],
      HEAD_POSE |-> [type : {"Pose"}, orientation : Orientation],
      HEAD_RECENTER |-> [type : {"Pose"}, orientation : Orientation],
      EMERGENCY_STOP |-> [type : {"Empty"}] ]

MCCommand ==
    UNION { [ command : {name}, sessionId : SessionId, sequence : Sequence,
              timestamp : Timestamp, payload : PayloadsOf[name] ] : name \in CommandName }

Sessions == Permutations(SessionId)
================================================================================
