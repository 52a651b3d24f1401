----------------------------- MODULE MissionsProofs -----------------------------
(***************************************************************************)
(* Proofs about Missions, for any number of missions and frames.  At each  *)
(* place of a program its log is open (or, before the detection of the     *)
(* hybrid mission, closed) and has recorded what led there: MissionsInv.   *)
(***************************************************************************)
EXTENDS Missions, EventLogProofs

(* The lists of types that the programs emit, and what is in them.         *)
LEMMA SearchTypes ==
    /\ Harmless(SearchEvents) /\ Len(SearchEvents) = 6
    /\ \A i \in 1..6 : SearchEvents[i] # "object.not_found"
BY DEF Harmless, SearchEvents, IsSequence, TerminalEventTypes

LEMMA DeliveryTypes ==
    /\ Harmless(<<"object.grasped">>)
    /\ Closing(DeliveryEvents)
BY DEF Harmless, Closing, DeliveryEvents, IsSequence, TerminalEventTypes

LEMMA ApprovedTypes == Closing(ApprovedSuccessEventSequence)
<1>1. Harmless(<< "object.found", "grasp.started", "object.grasped" >>)
  BY DEF Harmless, IsSequence, TerminalEventTypes
<1>2. Harmless(SearchEvents \o << "object.found", "grasp.started", "object.grasped" >>)
  BY <1>1, SearchTypes, JoinedTypes, Zenon
<1> QED BY <1>2, DeliveryTypes, JoinedTypes, Zenon DEF ApprovedSuccessEventSequence

(* A single event, or two, that do not end the log.                        *)
LEMMA OneType ==
    ASSUME NEW t, t \notin TerminalEventTypes
    PROVE  Harmless(<<t>>) /\ Len(<<t>>) = 1 /\ <<t>>[1] = t
BY DEF Harmless, IsSequence

LEMMA TwoTypes ==
    ASSUME NEW t, t \notin TerminalEventTypes, NEW u, u \notin TerminalEventTypes
    PROVE  Harmless(<<t, u>>) /\ Len(<<t, u>>) = 2 /\ <<t, u>>[1] = t /\ <<t, u>>[2] = u
BY DEF Harmless, IsSequence

(* The log of the simulated mission.                                       *)
LEMMA SimulatedIsClosed == Closed(SimulatedLog)
BY EmptyIsOpen, ApprovedTypes, EmittedClosed, Zenon DEF SimulatedLog

LEMMA Retyped ==
    ASSUME NEW e, NEW n, Envelope(e, n), NEW type, NEW code
    PROVE  Envelope(VisionEvent(e, type, code), n) /\ VisionEvent(e, type, code).type = type
<1> DEFINE f == [e EXCEPT !.type = type]
           g == [f EXCEPT !.code = code]
<1>1. ASSUME NEW t, NEW c, e = [task |-> LogTask, sequence |-> n, type |-> t, code |-> c]
      PROVE  VisionEvent(e, type, code)
               = [task |-> LogTask, sequence |-> n, type |-> type, code |-> code]
  <2>1. f = [task |-> LogTask, sequence |-> n, type |-> type, code |-> c]
    BY <1>1
  <2>2. VisionEvent(e, type, code) = g
    BY DEF VisionEvent
  <2> HIDE DEF f
  <2>3. g = [task |-> LogTask, sequence |-> n, type |-> type, code |-> code]
    BY <2>1
  <2> QED BY <2>2, <2>3
<1>2. VisionEvent(e, type, code)
        = [task |-> LogTask, sequence |-> n, type |-> type, code |-> code]
  BY <1>1 DEF Envelope
<1> QED BY <1>2 DEF Envelope

(* The event of the detection takes the place of object.found without      *)
(* breaking the log.                                                       *)
LEMMA HybridIsClosed ==
    ASSUME NEW log, Closed(log), NEW type, type \notin TerminalEventTypes, NEW code
    PROVE  Closed(Hybrid(log, type, code))
<1> DEFINE n == Len(log)
           copy == [i \in DOMAIN log |->
                      IF log[i].type = "object.found" THEN VisionEvent(log[i], type, code)
                                                      ELSE log[i]]
<1>1. /\ n \in Nat \ {0} /\ DOMAIN log = 1..n /\ IsSequence(log)
      /\ \A i \in 1..n : Envelope(log[i], i)
  BY NumberedFields DEF Closed
<1>2. IsSequence(copy) /\ Len(copy) = n
  <2> DEFINE S == {copy[i] : i \in 1..n}
  <2>1. copy = [i \in 1..n |-> copy[i]]
    BY <1>1
  <2>2. \A i \in 1..n : copy[i] \in S
    OBVIOUS
  <2> HIDE DEF copy, S, n
  <2>3. copy \in [1..n -> S]
    BY <2>1, <2>2
  <2>4. copy \in Seq(S) /\ Len(copy) = n
    BY <1>1, <2>3
  <2> QED BY <2>4, SequenceOf
<1>3. ASSUME NEW i \in 1..n
      PROVE  /\ Envelope(copy[i], i)
             /\ copy[i].type = IF log[i].type = "object.found" THEN type ELSE log[i].type
  <2>1. copy[i] = IF log[i].type = "object.found" THEN VisionEvent(log[i], type, code)
                                                 ELSE log[i]
    BY <1>1
  <2> HIDE DEF copy
  <2>2. /\ Envelope(VisionEvent(log[i], type, code), i)
        /\ VisionEvent(log[i], type, code).type = type
    BY <1>1, Retyped
  <2> QED BY <1>1, <2>1, <2>2
<1> HIDE DEF copy
<1>4. "object.found" \notin TerminalEventTypes
  BY DEF TerminalEventTypes
<1>5. Closed(copy)
  <2>1. Numbered(copy)
    BY <1>2, <1>3 DEF Numbered
  <2>2. \A i \in 1..(n - 1) : i \in 1..n /\ log[i].type \notin TerminalEventTypes
    BY <1>1 DEF Closed
  <2>3. n \in 1..n /\ log[n].type \in TerminalEventTypes
    BY <1>1 DEF Closed
  <2>4. \A i \in 1..(n - 1) : copy[i].type \notin TerminalEventTypes
    BY <1>3, <2>2
  <2>5. copy[n].type \in TerminalEventTypes
    BY <1>3, <1>4, <2>3
  <2> QED BY <1>1, <1>2, <2>1, <2>4, <2>5 DEF Closed
<1>6. Valid(copy)
  BY <1>5, ClosedIsSealed
<1>7. Hybrid(log, type, code) = IF Valid(copy) THEN copy ELSE Refused
  BY DEF Hybrid, copy
<1> QED BY <1>5, <1>6, <1>7

--------------------------------------------------------------------------------
AdapterPlaces == {"camera", "capture", "detect", "arm", "grasp"}

(* What the log has recorded, where the program stands.                    *)
LogInv ==
    /\ pc # "refused"
    /\ pc \in AdapterPlaces => OpenAt(events) /\ ~Includes(events, "object.not_found")
    /\ pc \in {"arm", "grasp"} => found /\ Includes(events, "object.found")
    /\ pc = "fixture" => Closed(events)

(* Frame numbers are counted up, so a frame captured is a new one.         *)
FrameInv ==
    /\ frame <= frames
    /\ pc \in {"detect", "arm", "grasp"} => frame # 0
    /\ \A i \in 1..Len(returned) :
         returned[i].frame \in 0..frames /\ (returned[i].frame # 0 => returned[i].frame # frame)
    /\ \A i, j \in 1..Len(returned) :
         i # j /\ returned[i].frame # 0 => returned[i].frame # returned[j].frame

ReturnedInv ==
    /\ IsSequence(returned)
    /\ \A i \in 1..Len(returned) : Closed(returned[i].log)
    /\ pc # "idle" => Len(returned) < MaxMissions

MissionsInv == MissionsTypeOK /\ LogInv /\ FrameInv /\ ReturnedInv

LEMMA MissionsFacts ==
    ASSUME MissionsInv
    PROVE  /\ Len(returned) \in Nat /\ DOMAIN returned = 1..Len(returned)
           /\ MaxMissions \in Nat /\ MaxFrames \in Nat
           /\ frame \in Nat /\ frames \in Nat
           /\ frame \in 0..MaxFrames /\ frames \in 0..MaxFrames
BY MissionAssumption, SequenceFields DEF MissionsInv, ReturnedInv, MissionsTypeOK

LEMMA MissionsInitInv ==
    ASSUME MissionsInit
    PROVE  MissionsInv
<1>1. Len(returned) = 0 /\ IsSequence(returned)
  BY DEF MissionsInit, IsSequence
<1>2. MissionsTypeOK
  <2>1. {found, gripperOpen} \subseteq BOOLEAN
    BY Zenon DEF MissionsInit
  <2>2. {frame, frames} \subseteq 0..MaxFrames /\ Len(returned) <= MaxMissions
    BY <1>1, MissionAssumption DEF MissionsInit
  <2>3. executor = "none" /\ pc = "idle"
    BY DEF MissionsInit
  <2> QED BY <2>1, <2>2, <2>3 DEF MissionsTypeOK
<1>3. LogInv
  BY DEF MissionsInit, LogInv, AdapterPlaces
<1>4. FrameInv
  BY <1>1 DEF MissionsInit, FrameInv
<1>5. ReturnedInv
  BY <1>1 DEF MissionsInit, ReturnedInv
<1> QED BY <1>2, <1>3, <1>4, <1>5 DEF MissionsInv

(* A closed log is handed to the caller, and the next mission may begin.   *)
LEMMA FinishKeepsInv ==
    ASSUME MissionsInv, Len(returned) < MaxMissions,
           NEW name, NEW log, Closed(log), NEW seen, NEW grasped,
           Finish(name, log, seen, grasped), UNCHANGED frames, gripperOpen' \in BOOLEAN
    PROVE  MissionsInv'
<1> DEFINE n == Len(returned)
           m == [executor |-> name, log |-> log, frame |-> frame,
                 found |-> seen, grasped |-> grasped]
<1>1. returned' = Append(returned, m) /\ Idle
  BY ClosedIsSealed DEF Finish
<1>2. m.log = log /\ m.frame = frame
  OBVIOUS
<1> HIDE DEF m
<1>3. /\ n \in Nat /\ MaxMissions \in Nat /\ frame \in Nat /\ frames \in Nat
      /\ MaxFrames \in Nat /\ frames \in 0..MaxFrames /\ IsSequence(returned)
  BY MissionsFacts DEF MissionsInv, ReturnedInv
<1>4. /\ IsSequence(returned') /\ Len(returned') = n + 1
      /\ \A i \in 1..n : returned'[i] = returned[i]
      /\ returned'[n + 1] = m
  BY <1>1, <1>3, Appending
<1>5. \A i \in 1..(n + 1) : i \in 1..n \/ i = n + 1
  BY <1>3
<1>6. MissionsTypeOK'
  <2>1. {found', gripperOpen'} \subseteq BOOLEAN
    BY <1>1, Zenon DEF Idle
  <2>2. {frame', frames'} \subseteq 0..MaxFrames /\ Len(returned') <= MaxMissions
    BY <1>1, <1>3, <1>4 DEF Idle
  <2>3. executor' = "none" /\ pc' = "idle"
    BY <1>1 DEF Idle
  <2> QED BY <2>1, <2>2, <2>3 DEF MissionsTypeOK
<1>7. LogInv'
  BY <1>1 DEF LogInv, Idle, AdapterPlaces
<1>8. FrameInv'
  <2>1. \A i \in 1..n : returned[i].frame \in 0..frames
                        /\ (returned[i].frame # 0 => returned[i].frame # frame)
    BY DEF MissionsInv, FrameInv
  <2>2. \A i, j \in 1..n : i # j /\ returned[i].frame # 0 => returned[i].frame # returned[j].frame
    BY DEF MissionsInv, FrameInv
  <2>3. frame <= frames /\ frame' = 0 /\ frames' = frames /\ pc' = "idle"
    BY <1>1 DEF MissionsInv, FrameInv, Idle
  <2>4. \A i \in 1..(n + 1) : returned'[i].frame \in 0..frames
    BY <1>2, <1>3, <1>4, <1>5, <2>1, <2>3
  <2>5. \A i, j \in 1..(n + 1) :
          i # j /\ returned'[i].frame # 0 => returned'[i].frame # returned'[j].frame
    <3>1. \A i \in 1..n : frame # 0 => frame # returned[i].frame
      BY <2>1
    <3> QED BY <1>2, <1>4, <1>5, <2>1, <2>2, <3>1
  <2> QED BY <1>3, <1>4, <2>3, <2>4, <2>5 DEF FrameInv
<1>9. ReturnedInv'
  BY <1>1, <1>2, <1>4, <1>5 DEF MissionsInv, ReturnedInv, Idle
<1> QED BY <1>6, <1>7, <1>8, <1>9 DEF MissionsInv

(* The program goes on with an open log, after which only its place, its   *)
(* frame and its detection matter.                                         *)
LEMMA ContinueKeepsInv ==
    ASSUME MissionsInv, Len(returned) < MaxMissions,
           NEW next \in AdapterPlaces, NEW log,
           OpenAt(log), ~Includes(log, "object.not_found"),
           Continue(log, next), executor' \in {"adapter", "hybrid"},
           {found', gripperOpen'} \subseteq BOOLEAN, {frame', frames'} \subseteq 0..MaxFrames,
           next \in {"arm", "grasp"} => found' /\ Includes(log, "object.found"),
           FrameInv'
    PROVE  MissionsInv'
<1>1. events' = log /\ pc' = next /\ returned' = returned
  BY OpenOutcome DEF Continue
<1>2. next \in {"camera", "capture", "detect", "arm", "grasp"}
  BY DEF AdapterPlaces
<1>3. MissionsTypeOK'
  BY <1>1, <1>2 DEF MissionsInv, MissionsTypeOK
<1>4. LogInv'
  BY <1>1, <1>2 DEF LogInv
<1>5. ReturnedInv'
  BY <1>1 DEF MissionsInv, ReturnedInv
<1> QED BY <1>3, <1>4, <1>5 DEF MissionsInv

(* The frames of the missions stay as they are.                            *)
LEMMA FrameInvKept ==
    ASSUME MissionsInv, UNCHANGED <<frame, frames, returned>>,
           pc' \in {"detect", "arm", "grasp"} => frame # 0
    PROVE  FrameInv'
BY DEF MissionsInv, FrameInv

LEMMA UnderWay ==
    ASSUME MissionsInv, pc \in AdapterPlaces
    PROVE  /\ Len(returned) < MaxMissions /\ executor \in {"adapter", "hybrid"}
           /\ OpenAt(events) /\ ~Includes(events, "object.not_found")
           /\ {found, gripperOpen} \subseteq BOOLEAN /\ {frame, frames} \subseteq 0..MaxFrames
<1>1. pc # "idle"
  BY DEF AdapterPlaces
<1> QED BY <1>1 DEF MissionsInv, LogInv, ReturnedInv, MissionsTypeOK

LEMMA BeginAdapterMissionKeepsInv ==
    ASSUME MissionsInv, BeginAdapterMission
    PROVE  MissionsInv'
<1> DEFINE log == Emitted(<<>>, SearchEvents)
<1>1. OpenAt(log)
  BY EmptyIsOpen, SearchTypes, EmittedOpen, Zenon
<1>2. ~Includes(<<>>, "object.not_found")
  BY DEF Includes
<1>3. ~Includes(log, "object.not_found")
  BY <1>2, EmptyIsOpen, SearchTypes, EmittedIncludes
<1> HIDE DEF log
<1>4. /\ Continue(log, "camera") /\ executor' = "adapter" /\ Len(returned) < MaxMissions
      /\ UNCHANGED <<frame, found, frames, gripperOpen>>
  BY DEF BeginAdapterMission, MayBegin, adapters, log
<1>5. /\ {found', gripperOpen'} \subseteq BOOLEAN
      /\ {frame', frames'} \subseteq 0..MaxFrames
  BY <1>4, Zenon DEF MissionsInv, MissionsTypeOK
<1>6. pc' = "camera" /\ returned' = returned
  BY <1>1, <1>4, OpenOutcome DEF Continue
<1>7. FrameInv'
  BY <1>4, <1>6, FrameInvKept
<1>8. "camera" \in AdapterPlaces /\ "camera" \notin {"arm", "grasp"}
  BY DEF AdapterPlaces
<1> QED BY <1>1, <1>3, <1>4, <1>5, <1>7, <1>8, ContinueKeepsInv

LEMMA ProbeCameraKeepsInv ==
    ASSUME MissionsInv, ProbeCamera
    PROVE  MissionsInv'
<1> DEFINE log == Emitted(events, <<"camera.probe.completed">>)
<1> USE DEF AdapterPlaces
<1>1. /\ Len(returned) < MaxMissions /\ executor \in {"adapter", "hybrid"}
      /\ OpenAt(events) /\ ~Includes(events, "object.not_found")
      /\ {found, gripperOpen} \subseteq BOOLEAN /\ {frame, frames} \subseteq 0..MaxFrames
  BY UnderWay DEF ProbeCamera
<1>2. "camera.probe.completed" \notin TerminalEventTypes
  BY DEF TerminalEventTypes
<1>3. OpenAt(log) /\ ~Includes(log, "object.not_found")
  BY <1>1, <1>2, OneType, EmittedOpen, EmittedIncludes
<1> HIDE DEF log
<1>4. /\ Continue(log, "capture")
      /\ UNCHANGED <<executor, frame, found, frames, gripperOpen>>
  BY DEF ProbeCamera, adapters, log
<1>5. pc' = "capture" /\ returned' = returned
  BY <1>3, <1>4, OpenOutcome DEF Continue
<1>6. FrameInv'
  BY <1>4, <1>5, FrameInvKept
<1> QED BY <1>1, <1>3, <1>4, <1>6, ContinueKeepsInv

LEMMA CaptureFrameKeepsInv ==
    ASSUME MissionsInv, CaptureFrame
    PROVE  MissionsInv'
<1> DEFINE log == Emitted(events, <<"camera.frame.captured">>)
<1> USE DEF AdapterPlaces
<1>1. /\ Len(returned) < MaxMissions /\ executor \in {"adapter", "hybrid"}
      /\ OpenAt(events) /\ ~Includes(events, "object.not_found")
      /\ {found, gripperOpen} \subseteq BOOLEAN /\ {frame, frames} \subseteq 0..MaxFrames
  BY UnderWay DEF CaptureFrame
<1>2. "camera.frame.captured" \notin TerminalEventTypes
  BY DEF TerminalEventTypes
<1>3. OpenAt(log) /\ ~Includes(log, "object.not_found")
  BY <1>1, <1>2, OneType, EmittedOpen, EmittedIncludes
<1> HIDE DEF log
<1>4. /\ Continue(log, "detect") /\ frames < MaxFrames
      /\ frames' = frames + 1 /\ frame' = frames + 1
      /\ UNCHANGED <<executor, found, gripperOpen>>
  BY DEF CaptureFrame, log
<1>5. pc' = "detect" /\ returned' = returned
  BY <1>3, <1>4, OpenOutcome DEF Continue
<1>6. /\ frames \in Nat /\ MaxFrames \in Nat /\ Len(returned) \in Nat
      /\ frames + 1 \in 0..MaxFrames
  BY <1>4, MissionsFacts
<1>7. FrameInv'
  <2>1. \A i \in 1..Len(returned) :
          returned[i].frame \in 0..(frames + 1) /\ returned[i].frame # frames + 1
    BY <1>6 DEF MissionsInv, FrameInv
  <2>2. \A i, j \in 1..Len(returned) :
          i # j /\ returned[i].frame # 0 => returned[i].frame # returned[j].frame
    BY DEF MissionsInv, FrameInv
  <2> QED BY <1>4, <1>5, <1>6, <2>1, <2>2 DEF FrameInv
<1>8. {found', gripperOpen'} \subseteq BOOLEAN /\ {frame', frames'} \subseteq 0..MaxFrames
  BY <1>1, <1>4, <1>6
<1> QED BY <1>1, <1>3, <1>4, <1>7, <1>8, ContinueKeepsInv

LEMMA DetectKeepsInv ==
    ASSUME MissionsInv, Detect
    PROVE  MissionsInv'
<1> DEFINE types == <<"vision.object.detected", "object.found">>
           log == Emitted(events, types)
<1> USE DEF AdapterPlaces
<1>1. /\ Len(returned) < MaxMissions /\ executor \in {"adapter", "hybrid"}
      /\ OpenAt(events) /\ ~Includes(events, "object.not_found")
      /\ {found, gripperOpen} \subseteq BOOLEAN /\ {frame, frames} \subseteq 0..MaxFrames
  BY UnderWay DEF Detect
<1>2. /\ "vision.object.detected" \notin TerminalEventTypes
      /\ "object.found" \notin TerminalEventTypes
  BY DEF TerminalEventTypes
<1>3. /\ Harmless(types) /\ Len(types) = 2
      /\ types[1] = "vision.object.detected" /\ types[2] = "object.found"
  BY <1>2, TwoTypes
<1> HIDE DEF types
<1>4. OpenAt(log) /\ ~Includes(log, "object.not_found") /\ Includes(log, "object.found")
  BY <1>1, <1>3, EmittedOpen, EmittedIncludes
<1> HIDE DEF log
<1>5. /\ Continue(log, "arm") /\ found' = TRUE /\ pc = "detect"
      /\ UNCHANGED <<executor, frame, frames, gripperOpen>>
  BY DEF Detect, adapters, log, types
<1>6. pc' = "arm" /\ returned' = returned
  BY <1>4, <1>5, OpenOutcome DEF Continue
<1>7. FrameInv'
  BY <1>5, <1>6, FrameInvKept DEF MissionsInv, FrameInv
<1>8. {found', gripperOpen'} \subseteq BOOLEAN /\ {frame', frames'} \subseteq 0..MaxFrames
  BY <1>1, <1>5, Zenon
<1> QED BY <1>1, <1>4, <1>5, <1>7, <1>8, ContinueKeepsInv

LEMMA ProbeArmKeepsInv ==
    ASSUME MissionsInv, ProbeArm
    PROVE  MissionsInv'
<1> DEFINE types == <<"hardware.probe.completed", "grasp.started">>
           log == Emitted(events, types)
<1> USE DEF AdapterPlaces
<1>1. /\ Len(returned) < MaxMissions /\ executor \in {"adapter", "hybrid"}
      /\ OpenAt(events) /\ ~Includes(events, "object.not_found")
      /\ {found, gripperOpen} \subseteq BOOLEAN /\ {frame, frames} \subseteq 0..MaxFrames
  BY UnderWay DEF ProbeArm
<1>2. /\ "hardware.probe.completed" \notin TerminalEventTypes
      /\ "grasp.started" \notin TerminalEventTypes
  BY DEF TerminalEventTypes
<1>3. /\ Harmless(types) /\ Len(types) = 2
      /\ types[1] = "hardware.probe.completed" /\ types[2] = "grasp.started"
  BY <1>2, TwoTypes
<1> HIDE DEF types
<1>4. found /\ Includes(events, "object.found")
  BY DEF ProbeArm, MissionsInv, LogInv
<1>5. OpenAt(log) /\ ~Includes(log, "object.not_found") /\ Includes(log, "object.found")
  BY <1>1, <1>3, <1>4, EmittedOpen, EmittedIncludes
<1> HIDE DEF log
<1>6. /\ Continue(log, "grasp") /\ pc = "arm"
      /\ UNCHANGED <<executor, frame, found, frames, gripperOpen>>
  BY DEF ProbeArm, adapters, log, types
<1>7. pc' = "grasp" /\ returned' = returned
  BY <1>5, <1>6, OpenOutcome DEF Continue
<1>8. FrameInv'
  BY <1>6, <1>7, FrameInvKept DEF MissionsInv, FrameInv
<1> QED BY <1>1, <1>4, <1>5, <1>6, <1>8, ContinueKeepsInv

LEMMA CaptureNothingKeepsInv ==
    ASSUME MissionsInv, CaptureNothing
    PROVE  MissionsInv'
<1> DEFINE log == Emitted(events, <<"camera.frame.captured">>)
<1> USE DEF AdapterPlaces
<1>1. Len(returned) < MaxMissions /\ OpenAt(events)
  BY UnderWay DEF CaptureNothing
<1>2. "camera.frame.captured" \notin TerminalEventTypes
  BY DEF TerminalEventTypes
<1>3. OpenAt(log)
  BY <1>1, <1>2, OneType, EmittedOpen
<1>4. Closed(FailedWith(log, "object_not_found"))
  BY <1>3, FailedCloses
<1>5. UNCHANGED frames /\ gripperOpen' \in BOOLEAN
  BY Zenon DEF CaptureNothing, adapters, MissionsInv, MissionsTypeOK
<1>6. Finish(executor, FailedWith(log, "object_not_found"), FALSE, FALSE)
  BY DEF CaptureNothing
<1> HIDE DEF log
<1> QED BY <1>1, <1>4, <1>5, <1>6, FinishKeepsInv

LEMMA DetectNothingKeepsInv ==
    ASSUME MissionsInv, DetectNothing
    PROVE  MissionsInv'
<1> DEFINE log == Emitted(events, <<"object.not_found">>)
<1> USE DEF AdapterPlaces
<1>1. Len(returned) < MaxMissions /\ OpenAt(events)
  BY UnderWay DEF DetectNothing
<1>2. "object.not_found" \notin TerminalEventTypes
  BY DEF TerminalEventTypes
<1>3. OpenAt(log)
  BY <1>1, <1>2, OneType, EmittedOpen
<1>4. Closed(FailedWith(log, "object_not_found"))
  BY <1>3, FailedCloses
<1>5. UNCHANGED frames /\ gripperOpen' \in BOOLEAN
  BY Zenon DEF DetectNothing, adapters, MissionsInv, MissionsTypeOK
<1>6. Finish(executor, FailedWith(log, "object_not_found"), FALSE, FALSE)
  BY DEF DetectNothing
<1> HIDE DEF log
<1> QED BY <1>1, <1>4, <1>5, <1>6, FinishKeepsInv

LEMMA SimulateGraspKeepsInv ==
    ASSUME MissionsInv, NEW grasped \in BOOLEAN, SimulateGrasp(grasped)
    PROVE  MissionsInv'
<1> DEFINE log == Emitted(events, <<"object.grasped">> \o DeliveryEvents)
<1> USE DEF AdapterPlaces
<1>1. Len(returned) < MaxMissions /\ OpenAt(events)
  BY UnderWay DEF SimulateGrasp
<1>2. Closing(<<"object.grasped">> \o DeliveryEvents)
  BY DeliveryTypes, JoinedTypes, Zenon
<1>3. Closed(log)
  BY <1>1, <1>2, EmittedClosed, Zenon
<1>4. UNCHANGED frames /\ gripperOpen' \in BOOLEAN
  BY Zenon DEF SimulateGrasp
<1>5. Finish(executor, log, found, grasped)
  BY DEF SimulateGrasp
<1> HIDE DEF log
<1> QED BY <1>1, <1>3, <1>4, <1>5, FinishKeepsInv

LEMMA SimulatedMissionKeepsInv ==
    ASSUME MissionsInv, SimulatedMission
    PROVE  MissionsInv'
<1>1. UNCHANGED frames /\ gripperOpen' \in BOOLEAN
  BY Zenon DEF SimulatedMission, adapters, MissionsInv, MissionsTypeOK
<1>2. /\ Len(returned) < MaxMissions
      /\ Finish("simulated", SimulatedLog, FALSE, FALSE)
  BY DEF SimulatedMission, MayBegin
<1> QED BY <1>1, <1>2, SimulatedIsClosed, FinishKeepsInv

LEMMA BeginHybridMissionKeepsInv ==
    ASSUME MissionsInv, BeginHybridMission
    PROVE  MissionsInv'
<1>1. /\ pc = "idle" /\ Len(returned) < MaxMissions
      /\ executor' = "hybrid" /\ Continue(SimulatedLog, "fixture")
      /\ UNCHANGED <<frame, found, frames, gripperOpen>>
  BY DEF BeginHybridMission, MayBegin, adapters
<1>2. SimulatedLog # Refused
  BY SimulatedIsClosed, ClosedIsSealed
<1>3. events' = SimulatedLog /\ pc' = "fixture" /\ returned' = returned
  BY <1>1, <1>2 DEF Continue
<1>4. MissionsTypeOK'
  BY <1>1, <1>3 DEF MissionsInv, MissionsTypeOK
<1>5. LogInv'
  BY <1>3, SimulatedIsClosed DEF LogInv, AdapterPlaces
<1>6. FrameInv'
  BY <1>1, <1>3, FrameInvKept
<1>7. ReturnedInv'
  BY <1>1, <1>3 DEF MissionsInv, ReturnedInv
<1> QED BY <1>4, <1>5, <1>6, <1>7 DEF MissionsInv

LEMMA DetectInFixtureKeepsInv ==
    ASSUME MissionsInv, NEW seen \in BOOLEAN, DetectInFixture(seen)
    PROVE  MissionsInv'
<1> DEFINE log == IF seen THEN Hybrid(events, "object.found", NoCode)
                  ELSE Hybrid(events, "object.not_found", "object_not_found")
<1>1. Len(returned) < MaxMissions /\ Closed(events)
  BY DEF DetectInFixture, MissionsInv, LogInv, ReturnedInv
<1>2. "object.found" \notin TerminalEventTypes /\ "object.not_found" \notin TerminalEventTypes
  BY DEF TerminalEventTypes
<1>3. Closed(log)
  BY <1>1, <1>2, HybridIsClosed
<1>4. UNCHANGED frames /\ gripperOpen' \in BOOLEAN
  BY Zenon DEF DetectInFixture, adapters, MissionsInv, MissionsTypeOK
<1>5. Finish(executor, log, seen, FALSE)
  BY DEF DetectInFixture
<1> HIDE DEF log
<1> QED BY <1>1, <1>3, <1>4, <1>5, FinishKeepsInv

LEMMA CallRaisesKeepsInv ==
    ASSUME MissionsInv, CallRaises
    PROVE  MissionsInv'
<1>1. Idle /\ UNCHANGED <<frames, gripperOpen, returned>>
  BY DEF CallRaises, adapters
<1>2. frames \in Nat /\ frames \in 0..MaxFrames /\ MaxFrames \in Nat
  BY MissionsFacts
<1>3. MissionsTypeOK'
  <2>1. {found', gripperOpen'} \subseteq BOOLEAN
    BY <1>1, Zenon DEF Idle, MissionsInv, MissionsTypeOK
  <2> QED BY <1>1, <1>2, <2>1 DEF Idle, MissionsInv, MissionsTypeOK
<1>4. LogInv'
  BY <1>1 DEF LogInv, Idle, AdapterPlaces
<1>5. FrameInv'
  BY <1>1, <1>2 DEF MissionsInv, FrameInv, Idle
<1>6. ReturnedInv'
  BY <1>1 DEF MissionsInv, ReturnedInv, Idle
<1> QED BY <1>3, <1>4, <1>5, <1>6 DEF MissionsInv

LEMMA MissionsInvHolds == MissionsSpec => []MissionsInv
<1>1. MissionsInit => MissionsInv
  BY MissionsInitInv
<1>2. MissionsInv /\ [MissionsNext]_vars => MissionsInv'
  <2> SUFFICES ASSUME MissionsInv, [MissionsNext]_vars PROVE MissionsInv'
    OBVIOUS
  <2>1. CASE BeginAdapterMission BY <2>1, BeginAdapterMissionKeepsInv
  <2>2. CASE ProbeCamera BY <2>2, ProbeCameraKeepsInv
  <2>3. CASE CaptureFrame BY <2>3, CaptureFrameKeepsInv
  <2>4. CASE CaptureNothing BY <2>4, CaptureNothingKeepsInv
  <2>5. CASE Detect BY <2>5, DetectKeepsInv
  <2>6. CASE DetectNothing BY <2>6, DetectNothingKeepsInv
  <2>7. CASE ProbeArm BY <2>7, ProbeArmKeepsInv
  <2>8. ASSUME NEW grasped \in BOOLEAN, SimulateGrasp(grasped) PROVE MissionsInv'
    BY <2>8, SimulateGraspKeepsInv
  <2>9. CASE SimulatedMission BY <2>9, SimulatedMissionKeepsInv
  <2>10. CASE BeginHybridMission BY <2>10, BeginHybridMissionKeepsInv
  <2>11. ASSUME NEW seen \in BOOLEAN, DetectInFixture(seen) PROVE MissionsInv'
    BY <2>11, DetectInFixtureKeepsInv
  <2>12. CASE CallRaises BY <2>12, CallRaisesKeepsInv
  <2>13. CASE UNCHANGED vars
    BY <2>13 DEF vars, MissionsInv, MissionsTypeOK, LogInv, FrameInv, ReturnedInv
  <2> QED
    BY <2>1, <2>2, <2>3, <2>4, <2>5, <2>6, <2>7, <2>8, <2>9, <2>10, <2>11, <2>12, <2>13
       DEF MissionsNext
<1> QED BY <1>1, <1>2, PTL DEF MissionsSpec

--------------------------------------------------------------------------------
(* Type correctness, for any number of missions and frames.                *)
THEOREM MissionsTypeCorrect == MissionsSpec => []MissionsTypeOK
<1>1. MissionsInv => MissionsTypeOK
  BY DEF MissionsInv
<1> QED BY <1>1, MissionsInvHolds, PTL

(* The logs that the programs build fit the rules of the log: no append    *)
(* and no validate of theirs ever raises.                                  *)
THEOREM MissionLogsNeverRefuse == MissionsSpec => []LogsNeverRefuse
<1>1. MissionsInv => LogsNeverRefuse
  BY DEF MissionsInv, LogInv, LogsNeverRefuse
<1> QED BY <1>1, MissionsInvHolds, PTL

(* Every log that reaches a caller is valid and ends with its terminal     *)
(* event.                                                                  *)
THEOREM ReturnedLogsSealed == MissionsSpec => []ReturnedLogsAreSealed
<1>1. MissionsInv => ReturnedLogsAreSealed
  BY MissionsFacts, ClosedIsSealed DEF MissionsInv, ReturnedInv, ReturnedLogsAreSealed
<1> QED BY <1>1, MissionsInvHolds, PTL

(* No two missions place their object in the same frame.                   *)
THEOREM FramesNotShared == MissionsSpec => []FramesAreNotShared
<1>1. MissionsInv => FramesAreNotShared
  BY MissionsFacts DEF MissionsInv, FrameInv, FramesAreNotShared
<1> QED BY <1>1, MissionsInvHolds, PTL

(* The gripper is closed only by a mission that was given a detection.     *)
THEOREM GripperClosesOnlyOnObject == MissionsSpec => GripperClosesOnObject
<1>1. MissionsInv /\ [MissionsNext]_vars =>
        [gripperOpen /\ ~gripperOpen' =>
           /\ found /\ frame # 0
           /\ Includes(events, "object.found") /\ ~Includes(events, "object.not_found")]_vars
  <2> SUFFICES ASSUME MissionsInv, MissionsNext, gripperOpen, ~gripperOpen'
               PROVE  /\ found /\ frame # 0
                      /\ Includes(events, "object.found")
                      /\ ~Includes(events, "object.not_found")
    OBVIOUS
  <2>1. \E grasped \in BOOLEAN : SimulateGrasp(grasped)
    BY Zenon DEF MissionsNext, BeginAdapterMission, ProbeCamera, CaptureFrame, CaptureNothing,
           Detect, DetectNothing, ProbeArm, SimulatedMission, BeginHybridMission,
           DetectInFixture, CallRaises, adapters
  <2>2. pc = "grasp"
    BY <2>1 DEF SimulateGrasp
  <2> QED BY <2>2 DEF MissionsInv, LogInv, FrameInv, AdapterPlaces
<1> QED BY <1>1, MissionsInvHolds, PTL DEF MissionsSpec, GripperClosesOnObject
================================================================================
