----------------------------- MODULE PhysicalDemo -----------------------------
(***************************************************************************)
(* Runs of scripts/run_physical_demo.py in one output directory, and what  *)
(* scripts/check_physical_demo_output.py says of the files they leave.     *)
(* Every run uses the same task id, hence the same file names.  A file is  *)
(* overwritten in place: opening it for writing empties it.  An exception  *)
(* (camera, OpenCV, the operator's Ctrl-C) or a killed process may end a   *)
(* run between any two steps.  A picture is represented by the run whose   *)
(* camera took it, 0 if there is none.                                     *)
(***************************************************************************)
EXTENDS Dashboard

CONSTANTS
    Marker,         \* ids of the markers the camera may see
    ExpectedMarker, \* --expected-marker-id
    ProjectRoot,    \* the path of the repository's directory
    MaxRuns         \* bound: runs of the demo

(* Every run uses the task id of the script.                               *)
ASSUME PhysicalAssumption ==
    /\ ExpectedMarker \in Marker /\ MaxRuns \in Nat
    /\ ProjectRoot \in Seq(STRING)
    /\ LogTask \in STRING \ {"data", ".."}

VARIABLES
    pc,             \* where the run stands, "idle" between runs
    run,            \* the number of the latest run
    events,         \* its event log
    ended,          \* how the latest run ended
    frame,          \* tmp/live-camera-probe-frame.png
    raw,            \* the evidence file ...-raw.png
    annotated,      \* the evidence file ...-annotated.png
    replay,         \* replay.json
    dashboard,      \* dashboard.html
    seen,           \* the marker each run's camera saw, or "none"
    confirmed       \* how often each run's operator said yes

pictures == <<frame, raw, annotated>>
files == <<frame, raw, annotated, replay, dashboard>>
world == <<seen, confirmed>>
vars == <<pc, run, events, ended, frame, raw, annotated, replay, dashboard, seen, confirmed>>

SearchEvents ==
    << "task.created", "task.accepted", "plan.created",
       "route.started", "route.arrived", "object.search_started" >>

(* _operator_confirmations                                                 *)
OperatorEvents ==
    << "grasp.started", "object.grasped", "delivery.started",
       "object.released", "delivery.completed" >>

PhysicalDemoSuccessEventSequence ==
    SearchEvents \o <<"object.found">> \o OperatorEvents \o <<"task.completed">>

(* A text file is absent, torn (cut off before what the check looks for),  *)
(* or has been written by a run, as a whole or up to some part.            *)
Absent == [run |-> 0, log |-> <<>>, extent |-> "none"]
Torn == [run |-> 0, log |-> <<>>, extent |-> "part"]
Written(r, log) == [run |-> r, log |-> log, extent |-> "whole"]

--------------------------------------------------------------------------------
PhysicalInit ==
    /\ pc = "idle" /\ run = 0 /\ events = <<>> /\ ended = "none"
    /\ frame = 0 /\ raw = 0 /\ annotated = 0
    /\ replay = Absent /\ dashboard = Absent
    /\ seen = [r \in 1..MaxRuns |-> "none"]
    /\ confirmed = [r \in 1..MaxRuns |-> 0]

Continue(log, next) ==
    /\ events' = log
    /\ pc' = IF log = Refused THEN "refused" ELSE next

(* run_physical_demo validates the log and returns it to main.             *)
Return(log) ==
    Continue(IF log # Refused /\ Valid(log) THEN log ELSE Refused, "replay")

(* Without --enable-live-camera the program exits before it does anything. *)
BeginDisabled ==
    /\ pc = "idle"
    /\ UNCHANGED vars

Begin ==
    /\ pc = "idle" /\ run < MaxRuns
    /\ run' = run + 1
    /\ ended' = "none"
    /\ Continue(Emitted(<<>>, SearchEvents), "camera")
    /\ UNCHANGED <<files, world>>

(* capture_live_camera_frame                                               *)
CaptureFrame ==
    /\ pc = "camera"
    /\ \E m \in Marker \cup {"none"} : seen' = [seen EXCEPT ![run] = m]
    /\ frame' = run
    /\ pc' = "raw"
    /\ UNCHANGED <<run, events, ended, raw, annotated, replay, dashboard, confirmed>>

(* run_fixture_detection keeps the picture before it looks at it.          *)
WriteRaw ==
    /\ pc = "raw"
    /\ raw' = frame
    /\ pc' = "detect"
    /\ UNCHANGED <<run, events, ended, frame, annotated, replay, dashboard, world>>

DetectNothing ==
    /\ pc = "detect" /\ seen[run] = "none"
    /\ Return(FailedWith(Emitted(events, <<"object.not_found">>), "object_not_found"))
    /\ UNCHANGED <<run, ended, files, world>>

(* Faulty variant of DetectMarker: the event comes before its picture.     *)
DetectMarkerUnannotated ==
    /\ pc = "detect" /\ seen[run] # "none"
    /\ Continue(Emitted(events, <<"object.found">>), "operator")
    /\ UNCHANGED <<run, ended, files, world>>

(* Whatever marker it is, it is taken for the object of the task.          *)
DetectMarker ==
    /\ pc = "detect" /\ seen[run] # "none"
    /\ annotated' = frame
    /\ Continue(Emitted(events, <<"object.found">>), "operator")
    /\ UNCHANGED <<run, ended, frame, raw, replay, dashboard, world>>

(* Another live_probe_runner may return an event of any other type.        *)
ProbeOtherwise ==
    /\ pc = "camera"
    /\ Return(FailedWith(Emitted(events, <<"camera.probe.completed">>), "invalid_task"))
    /\ UNCHANGED <<run, ended, files, world>>

Step == Len(events) - Len(SearchEvents)

Confirm ==
    /\ pc = "operator"
    /\ confirmed' = [confirmed EXCEPT ![run] = @ + 1]
    /\ IF Step < Len(OperatorEvents)
       THEN Continue(Emitted(events, <<OperatorEvents[Step]>>), "operator")
       ELSE Return(Emitted(events, <<OperatorEvents[Step], "task.completed">>))
    /\ UNCHANGED <<run, ended, files, seen>>

(* Faulty variant of Decline: the answer to the last question is ignored.  *)
DeclineIgnoredAtEnd ==
    /\ pc = "operator"
    /\ IF Step < Len(OperatorEvents)
       THEN Return(FailedWith(events, "manual_cancelled"))
       ELSE Return(Emitted(events, <<OperatorEvents[Step], "task.completed">>))
    /\ UNCHANGED <<run, ended, files, world>>

(* Faulty variant of Decline: the log is left without a terminal event.    *)
DeclineUnsealed ==
    /\ pc = "operator"
    /\ Return(events)
    /\ UNCHANGED <<run, ended, files, world>>

Decline ==
    /\ pc = "operator"
    /\ Return(FailedWith(events, "manual_cancelled"))
    /\ UNCHANGED <<run, ended, files, world>>

--------------------------------------------------------------------------------
(* main, after run_physical_demo has returned                              *)

(* Faulty variant of OpenReplay: the file is not truncated.                *)
OpenReplayInPlace ==
    /\ pc = "replay"
    /\ replay' = [replay EXCEPT !.run = 0, !.extent = "part"]
    /\ pc' = "replayOpen"
    /\ UNCHANGED <<run, events, ended, pictures, dashboard, world>>

OpenReplay ==
    /\ pc = "replay"
    /\ replay' = Torn
    /\ pc' = "replayOpen"
    /\ UNCHANGED <<run, events, ended, pictures, dashboard, world>>

WriteReplay ==
    /\ pc = "replayOpen"
    /\ replay' = Written(run, events)
    /\ pc' = "dashboard"
    /\ UNCHANGED <<run, events, ended, pictures, dashboard, world>>

(* The dashboard is rendered from the file, not from the log.              *)
OpenDashboard ==
    /\ pc = "dashboard"
    /\ dashboard' = Torn
    /\ pc' = "dashboardOpen"
    /\ UNCHANGED <<run, events, ended, pictures, replay, world>>

FlushDashboard ==
    /\ pc = "dashboardOpen" /\ dashboard = Torn
    /\ dashboard' = [replay EXCEPT !.extent = "part"]
    /\ UNCHANGED <<pc, run, events, ended, pictures, replay, world>>

(* Faulty variant of WriteDashboard: success is to have found the object.  *)
WriteDashboardIfFound ==
    /\ pc = "dashboardOpen"
    /\ dashboard' = replay
    /\ pc' = "idle"
    /\ ended' = IF Includes(events, "object.found") THEN "completed" ELSE "failed"
    /\ UNCHANGED <<run, events, pictures, replay, world>>

WriteDashboard ==
    /\ pc = "dashboardOpen"
    /\ dashboard' = replay
    /\ pc' = "idle"
    /\ ended' = IF TerminalEventType(events) = "task.completed" THEN "completed" ELSE "failed"
    /\ UNCHANGED <<run, events, pictures, replay, world>>

BreakOff ==
    /\ pc \notin {"idle", "refused"}
    /\ pc' = "idle" /\ ended' = "brokenOff"
    /\ UNCHANGED <<run, events, files, world>>

PhysicalNext ==
    \/ BeginDisabled \/ Begin
    \/ CaptureFrame \/ WriteRaw \/ DetectNothing \/ DetectMarker \/ ProbeOtherwise
    \/ Confirm \/ Decline
    \/ OpenReplay \/ WriteReplay \/ OpenDashboard \/ FlushDashboard \/ WriteDashboard
    \/ BreakOff

PhysicalSpec == PhysicalInit /\ [][PhysicalNext]_vars

--------------------------------------------------------------------------------
(* check_physical_demo_output.  The marker of a replay is the one its run  *)
(* saw.  Of the dashboard it reads only that certain texts occur in it.    *)

ReplayPasses ==
    /\ replay.run # 0
    /\ Types(replay.log) = PhysicalDemoSuccessEventSequence
    /\ \A i \in DOMAIN replay.log : replay.log[i].sequence = i
    /\ seen[replay.run] = ExpectedMarker

EvidencePasses == raw # 0 /\ annotated # 0

DashboardPasses ==
    Includes(dashboard.log, "object.found") /\ Includes(dashboard.log, "task.completed")

OutputPasses == ReplayPasses /\ EvidencePasses /\ DashboardPasses

--------------------------------------------------------------------------------
TextFile(f) ==
    /\ f.run \in 0..MaxRuns /\ f.extent \in {"none", "part", "whole"}
    /\ f.run = 0 => f.log = <<>>

PhysicalTypeOK ==
    /\ pc \in {"idle", "camera", "raw", "detect", "operator", "replay", "replayOpen",
               "dashboard", "dashboardOpen", "refused"}
    /\ run \in 0..MaxRuns
    /\ ended \in {"none", "completed", "failed", "brokenOff"}
    /\ {frame, raw, annotated} \subseteq 0..run
    /\ TextFile(replay) /\ TextFile(dashboard)
    /\ seen \in [1..MaxRuns -> Marker \cup {"none"}]
    /\ confirmed \in [1..MaxRuns -> 0..Len(OperatorEvents)]

(* No run ends because its own log refuses an event or does not validate,  *)
(* although the detection is numbered by the caller of the probe.          *)
LogsNeverRefuse == pc # "refused"

(* A replay that can be read tells the story of a run to its end: runs     *)
(* under way and runs broken off never leave one, only torn files.         *)
ReplayIsSealed ==
    replay.run # 0 =>
        /\ Valid(replay.log)
        /\ replay.log[Len(replay.log)].type \in TerminalEventTypes

(* The output check, asked at any moment, also in the middle of a later    *)
(* run or after it broke off, passes only on the replay of a run whose     *)
(* operator confirmed every step.                                          *)
PassMeansConfirmedRun ==
    OutputPasses =>
        confirmed[replay.run] = Len(OperatorEvents)

(* After a run that came to its end, the check tells whether that run      *)
(* succeeded; files of earlier runs, successful or not, cannot change it.  *)
CheckJudgesFinishedRun ==
    /\ ended = "failed" => ~OutputPasses
    /\ ended = "completed" => (OutputPasses <=> seen[run] = ExpectedMarker)

(* A run that came to its end leaves its own replay, a whole dashboard of  *)
(* that replay, and the pictures that the replay refers to.                *)
FinishedRunLeavesItsFiles ==
    ended \in {"completed", "failed"} =>
        /\ replay.run = run /\ dashboard = replay
        /\ Includes(replay.log, "object.found") => raw = run /\ annotated = run
        /\ Includes(replay.log, "object.not_found") => raw = run

DashboardPath == ProjectRoot \o <<"data", "runs", LogTask, "dashboard.html">>

(* The final status on a dashboard that is there is the truth about the    *)
(* operator of the run it shows: completed if every step was confirmed,    *)
(* failed otherwise, and never anything in between.                        *)
DashboardTellsOutcome ==
    dashboard.run # 0 =>
        FinalStatus(dashboard.log) =
            IF confirmed[dashboard.run] = Len(OperatorEvents) THEN "completed" ELSE "failed"

(* The links of a dashboard lead to the files in which runs keep their     *)
(* pictures, wherever the repository lies, and what is there is no older   *)
(* than the run shown.                                                     *)
LinksReachEvidence ==
    \A i \in DOMAIN dashboard.log :
        LET e == dashboard.log[i]
        IN  /\ {Followed(href, DashboardPath) : href \in EvidenceLinks(e, DashboardPath)}
                 = {ProjectRoot \o path : path \in EvidenceRefs(e)}
            /\ EvidencePath(LogTask, "raw") \in EvidenceRefs(e) => dashboard.run <= raw
            /\ EvidencePath(LogTask, "annotated") \in EvidenceRefs(e) => dashboard.run <= annotated

(* Table of failure modes in the design document: the timeline that the    *)
(* dashboard shows is that of the log, here of a replay that passes the    *)
(* check between two runs.                                                 *)
PassMeansConsistentReport ==
    pc = "idle" /\ OutputPasses => dashboard.run = replay.run
================================================================================
