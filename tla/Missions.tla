------------------------------- MODULE Missions -------------------------------
(***************************************************************************)
(* The missions that need no operator: the simulated one                   *)
(* (robot/sim_executor.py), the one over a camera, a vision and an arm     *)
(* adapter (robot/adapter_sim_mission.py), and the hybrid one, whose       *)
(* detection is real (robot/hybrid_demo.py).  Missions follow each other   *)
(* over one adapter runtime.  An action is the code from one call of an    *)
(* adapter to the next; what a call answers is any result its adapter      *)
(* contract (robot/adapters) permits, or an exception, which ends the      *)
(* mission without a log.                                                  *)
(***************************************************************************)
EXTENDS EventLog

CONSTANTS
    MaxMissions,    \* bound: missions that return a log
    MaxFrames       \* bound: frames captured

ASSUME MissionAssumption == MaxMissions \in Nat /\ MaxFrames \in Nat

VARIABLES
    executor,       \* the mission under way, or "none"
    pc,             \* where its program stands
    events,         \* its event log
    frame,          \* number of the frame it captured, 0 for no artifact
    found,          \* vision found the object in it
    frames,         \* _frame_number of the camera
    gripperOpen,    \* the arm's gripper
    returned        \* the logs handed to the callers

adapters == <<frames, gripperOpen>>
vars == <<executor, pc, events, frame, found, frames, gripperOpen, returned>>

(* The events up to the search, common to the missions.                    *)
SearchEvents ==
    << "task.created", "plan.created", "task.accepted", "route.started",
       "route.arrived", "object.search_started" >>

DeliveryEvents ==
    << "delivery.started", "route.arrived", "object.released",
       "delivery.completed", "task.completed" >>

ApprovedSuccessEventSequence ==
    SearchEvents \o << "object.found", "grasp.started", "object.grasped" >> \o DeliveryEvents

--------------------------------------------------------------------------------
Idle ==
    /\ executor' = "none" /\ pc' = "idle" /\ events' = <<>>
    /\ frame' = 0 /\ found' = FALSE

MissionsInit ==
    /\ executor = "none" /\ pc = "idle" /\ events = <<>>
    /\ frame = 0 /\ found = FALSE
    /\ frames = 0 /\ gripperOpen = TRUE
    /\ returned = <<>>

(* The log goes on and the next call follows, unless an append raised.     *)
Continue(log, next) ==
    /\ events' = log
    /\ pc' = IF log = Refused THEN "refused" ELSE next
    /\ UNCHANGED returned

(* The log is validated and returned, unless an append or validate raised. *)
Finish(name, log, seen, grasped) ==
    IF log # Refused /\ Valid(log)
    THEN /\ returned' = Append(returned,
                [executor |-> name, log |-> log, frame |-> frame,
                 found |-> seen, grasped |-> grasped])
         /\ Idle
    ELSE /\ pc' = "refused"
         /\ UNCHANGED <<executor, events, frame, found, returned>>

(* Faulty variant of CallRaises: the broken off mission stays in charge.   *)
CallRaisesInCharge ==
    /\ pc \notin {"idle", "refused"}
    /\ pc' = "idle" /\ events' = <<>> /\ frame' = 0 /\ found' = FALSE
    /\ UNCHANGED <<executor, adapters, returned>>

(* A call raises: the log is lost, what the adapters did is not.           *)
CallRaises ==
    /\ pc \notin {"idle", "refused"}
    /\ Idle
    /\ UNCHANGED <<adapters, returned>>

MayBegin == pc = "idle" /\ Len(returned) < MaxMissions

--------------------------------------------------------------------------------
(* run_adapter_simulated_mission.  A task of another mode is refused       *)
(* before anything is done, here and in run_simulated_mission.             *)

BeginAdapterMission ==
    /\ MayBegin
    /\ executor' = "adapter"
    /\ Continue(Emitted(<<>>, SearchEvents), "camera")
    /\ UNCHANGED <<frame, found, adapters>>

ProbeCamera ==
    /\ pc = "camera"
    /\ Continue(Emitted(events, <<"camera.probe.completed">>), "capture")
    /\ UNCHANGED <<executor, frame, found, adapters>>

(* Faulty variant of CaptureFrame: the frame number is not counted up.     *)
CaptureUncounted ==
    /\ pc = "capture" /\ frames < MaxFrames
    /\ frame' = frames + 1
    /\ Continue(Emitted(events, <<"camera.frame.captured">>), "detect")
    /\ UNCHANGED <<executor, found, adapters>>

CaptureFrame ==
    /\ pc = "capture" /\ frames < MaxFrames
    /\ frames' = frames + 1
    /\ frame' = frames + 1
    /\ Continue(Emitted(events, <<"camera.frame.captured">>), "detect")
    /\ UNCHANGED <<executor, found, gripperOpen>>

CaptureNothing ==
    /\ pc = "capture"
    /\ Finish(executor, FailedWith(Emitted(events, <<"camera.frame.captured">>),
                                  "object_not_found"), FALSE, FALSE)
    /\ UNCHANGED adapters

Detect ==
    /\ pc = "detect"
    /\ found' = TRUE
    /\ Continue(Emitted(events, <<"vision.object.detected", "object.found">>), "arm")
    /\ UNCHANGED <<executor, frame, adapters>>

(* Faulty variant of DetectNothing: the mission goes on all the same.      *)
DetectNothingGoOn ==
    /\ pc = "detect"
    /\ Continue(Emitted(events, <<"object.not_found">>), "arm")
    /\ UNCHANGED <<executor, frame, found, adapters>>

(* Faulty variant of DetectNothing: it returns without a terminal event.   *)
DetectNothingUnfailed ==
    /\ pc = "detect"
    /\ Finish(executor, Emitted(events, <<"object.not_found">>), FALSE, FALSE)
    /\ UNCHANGED adapters

DetectNothing ==
    /\ pc = "detect"
    /\ Finish(executor, FailedWith(Emitted(events, <<"object.not_found">>),
                                  "object_not_found"), FALSE, FALSE)
    /\ UNCHANGED adapters

ProbeArm ==
    /\ pc = "arm"
    /\ Continue(Emitted(events, <<"hardware.probe.completed", "grasp.started">>), "grasp")
    /\ UNCHANGED <<executor, frame, found, adapters>>

(* Whatever simulate_grasp answers is noted in the payload of              *)
(* object.grasped; the mission goes on.                                    *)
SimulateGrasp(grasped) ==
    /\ pc = "grasp"
    /\ gripperOpen' = (gripperOpen /\ ~grasped)
    /\ Finish(executor, Emitted(events, <<"object.grasped">> \o DeliveryEvents),
              found, grasped)
    /\ UNCHANGED frames

--------------------------------------------------------------------------------
(* run_simulated_mission, and run_hybrid_fixture_mission, which calls it   *)
(* and then puts the event of the detection in the place of object.found.  *)

SimulatedLog == Emitted(<<>>, ApprovedSuccessEventSequence)

SimulatedMission ==
    /\ MayBegin
    /\ Finish("simulated", SimulatedLog, FALSE, FALSE)
    /\ UNCHANGED adapters

BeginHybridMission ==
    /\ MayBegin
    /\ executor' = "hybrid"
    /\ Continue(SimulatedLog, "fixture")
    /\ UNCHANGED <<frame, found, adapters>>

(* Faulty variant of VisionEvent: numbered as if it came after the log.    *)
VisionEventAtEnd(e, type, code) ==
    [e EXCEPT !.type = type, !.code = code, !.sequence = Len(SimulatedLog) + 1]

(* run_fixture_detection is given the sequence of the event it replaces.   *)
VisionEvent(e, type, code) == [e EXCEPT !.type = type, !.code = code]

(* The copy is appended event by event, so what is no valid log is refused. *)
Hybrid(log, type, code) ==
    LET copy == [i \in DOMAIN log |->
                    IF log[i].type = "object.found" THEN VisionEvent(log[i], type, code)
                                                    ELSE log[i]]
    IN  IF Valid(copy) THEN copy ELSE Refused

DetectInFixture(seen) ==
    /\ pc = "fixture"
    /\ Finish(executor, IF seen THEN Hybrid(events, "object.found", NoCode)
                               ELSE Hybrid(events, "object.not_found", "object_not_found"),
              seen, FALSE)
    /\ UNCHANGED adapters

MissionsNext ==
    \/ BeginAdapterMission \/ ProbeCamera \/ CaptureFrame \/ CaptureNothing
    \/ Detect \/ DetectNothing \/ ProbeArm
    \/ \E grasped \in BOOLEAN : SimulateGrasp(grasped)
    \/ SimulatedMission \/ BeginHybridMission
    \/ \E seen \in BOOLEAN : DetectInFixture(seen)
    \/ CallRaises

MissionsSpec == MissionsInit /\ [][MissionsNext]_vars

--------------------------------------------------------------------------------
MissionsTypeOK ==
    /\ executor \in {"none", "adapter", "hybrid"}
    /\ pc \in {"idle", "camera", "capture", "detect", "arm", "grasp", "fixture", "refused"}
    /\ pc = "idle" <=> executor = "none"
    /\ {frame, frames} \subseteq 0..MaxFrames
    /\ {found, gripperOpen} \subseteq BOOLEAN
    /\ Len(returned) <= MaxMissions

(* No mission of the program ever loses its log to an append or a validate *)
(* that raises: the numbering that the builder, the simulator and the      *)
(* event spliced into the hybrid log use, fits the rules of the log.       *)
LogsNeverRefuse == pc # "refused"

(* A log that reaches a caller is valid and ends with its only terminal    *)
(* event, whatever the adapters answered.                                  *)
ReturnedLogsAreSealed ==
    \A i \in DOMAIN returned :
        LET log == returned[i].log
        IN  Valid(log) /\ log[Len(log)].type \in TerminalEventTypes

(* Two missions never refer to one frame as the place of their object,     *)
(* also when missions in between broke off after the capture.              *)
FramesAreNotShared ==
    \A i, j \in DOMAIN returned :
        i # j /\ returned[i].frame # 0 => returned[i].frame # returned[j].frame

(* The gripper is first closed (nothing opens it again) by a mission whose *)
(* vision returned a detection from a frame of its own, and whose log says *)
(* so.  Which object was detected, the code does not compare.              *)
GripperClosesOnObject ==
    [][gripperOpen /\ ~gripperOpen' =>
           /\ found /\ frame # 0
           /\ Includes(events, "object.found") /\ ~Includes(events, "object.not_found")]_vars

(* Lifecycle of the design document: an object that is not found and a     *)
(* grasp that fails both lead to task.failed.                              *)
FailuresFailTask ==
    \A i \in DOMAIN returned :
        LET m == returned[i]
            notFound == Includes(m.log, "object.not_found")
            graspFailed == Includes(m.log, "grasp.started") /\ m.executor = "adapter" /\ ~m.grasped
        IN  notFound \/ graspFailed => TerminalEventType(m.log) = "task.failed"
================================================================================
