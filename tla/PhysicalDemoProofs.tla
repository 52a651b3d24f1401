--------------------------- MODULE PhysicalDemoProofs ---------------------------
(***************************************************************************)
(* Proofs about PhysicalDemo, for any markers and any number of runs.  The *)
(* log of a run follows the script of success event by event, as far as    *)
(* the operator has confirmed, and what a file tells of a run stays true   *)
(* because a run never goes on once its log is written: DemoInv.           *)
(***************************************************************************)
EXTENDS PhysicalDemo, EventLogProofs, FiniteSetTheorems

Script == PhysicalDemoSuccessEventSequence

(* The script event by event.                                              *)
LEMMA SearchTypes ==
    /\ Harmless(SearchEvents) /\ Len(SearchEvents) = 6
    /\ \A i \in 1..6 : SearchEvents[i] \notin {"object.found", "object.not_found"}
BY DEF Harmless, SearchEvents, IsSequence, TerminalEventTypes

LEMMA OperatorTypes ==
    /\ IsSequence(OperatorEvents) /\ Len(OperatorEvents) = 5
    /\ \A i \in 1..5 : OperatorEvents[i] \notin TerminalEventTypes
BY DEF OperatorEvents, IsSequence, TerminalEventTypes

LEMMA OneElement ==
    ASSUME NEW t
    PROVE  IsSequence(<<t>>) /\ Len(<<t>>) = 1 /\ <<t>>[1] = t
BY DEF IsSequence

LEMMA TwoElements ==
    ASSUME NEW t, NEW u
    PROVE  IsSequence(<<t, u>>) /\ Len(<<t, u>>) = 2 /\ <<t, u>>[1] = t /\ <<t, u>>[2] = u
BY DEF IsSequence

LEMMA ScriptTypes ==
    /\ IsSequence(Script) /\ Len(Script) = 13
    /\ \A i \in 1..6 : Script[i] = SearchEvents[i]
    /\ Script[7] = "object.found"
    /\ \A i \in 1..5 : Script[7 + i] = OperatorEvents[i]
    /\ Script[13] = "task.completed"
<1> DEFINE a == SearchEvents
           b == <<"object.found">>
           d == <<"task.completed">>
<1>1. IsSequence(a) /\ Len(a) = 6
  BY SearchTypes DEF Harmless
<1>2. /\ IsSequence(b) /\ Len(b) = 1 /\ b[1] = "object.found"
      /\ IsSequence(d) /\ Len(d) = 1 /\ d[1] = "task.completed"
  BY OneElement
<1>3. Script = ((a \o b) \o OperatorEvents) \o d
  BY DEF Script, PhysicalDemoSuccessEventSequence
<1> HIDE DEF a, b, d
<1> DEFINE ab == a \o b
           abc == ab \o OperatorEvents
           abcd == abc \o d
<1>4. Joins(ab, a, b)
  BY <1>1, <1>2, JoinedAs
<1> HIDE DEF ab
<1>5. Joins(abc, ab, OperatorEvents)
  <2>1. IsSequence(ab)
    BY <1>4 DEF Joins
  <2> QED BY <2>1, OperatorTypes, JoinedAs
<1> HIDE DEF abc
<1>6. Joins(abcd, abc, d)
  <2>1. IsSequence(abc)
    BY <1>5 DEF Joins
  <2> QED BY <1>2, <2>1, JoinedAs
<1>7. Script = abcd
  BY <1>3 DEF abc, ab
<1> HIDE DEF abcd
<1>8. /\ Len(ab) = 7 /\ ab[7] = "object.found"
      /\ \A i \in 1..6 : ab[i] = a[i]
  <2>1. /\ Len(ab) = Len(a) + Len(b)
        /\ \A i \in 1..Len(a) : ab[i] = a[i]
        /\ \A i \in 1..Len(b) : ab[Len(a) + i] = b[i]
    BY <1>4 DEF Joins
  <2>2. ab[6 + 1] = b[1]
    BY <1>1, <1>2, <2>1
  <2> QED BY <1>1, <1>2, <2>1, <2>2
<1>9. /\ Len(abc) = 12
      /\ \A i \in 1..7 : abc[i] = ab[i]
      /\ \A i \in 1..5 : abc[7 + i] = OperatorEvents[i]
  BY <1>5, <1>8, OperatorTypes DEF Joins
<1>10. /\ IsSequence(abcd) /\ Len(abcd) = 13 /\ abcd[13] = "task.completed"
       /\ \A i \in 1..12 : abcd[i] = abc[i]
  <2>1. /\ IsSequence(abcd) /\ Len(abcd) = Len(abc) + Len(d)
        /\ \A i \in 1..Len(abc) : abcd[i] = abc[i]
        /\ \A i \in 1..Len(d) : abcd[Len(abc) + i] = d[i]
    BY <1>6 DEF Joins
  <2>2. abcd[12 + 1] = d[1]
    BY <1>2, <1>9, <2>1
  <2> QED BY <1>2, <1>9, <2>1, <2>2
<1> QED BY <1>7, <1>8, <1>9, <1>10 DEF a

FollowsScript(log) == \A i \in 1..Len(log) : log[i].type = Script[i]

(* What a finished log tells of a run whose operator said yes c times.     *)
Story(log, c) ==
    /\ Closed(log)
    /\ IF c = 5 THEN Len(log) = 13 /\ FollowsScript(log)
                ELSE log[Len(log)].type = "task.failed"

LEMMA StoryOutcome ==
    ASSUME NEW log, NEW c, Story(log, c)
    PROVE  /\ log # Refused /\ Valid(log) /\ log[Len(log)].type \in TerminalEventTypes
           /\ TerminalEventType(log) = log[Len(log)].type
           /\ log[Len(log)].type = IF c = 5 THEN "task.completed" ELSE "task.failed"
<1>1. /\ log # Refused /\ Valid(log) /\ log[Len(log)].type \in TerminalEventTypes
      /\ TerminalEventType(log) = log[Len(log)].type
  BY ClosedIsSealed DEF Story
<1>2. c = 5 => log[Len(log)].type = "task.completed"
  <2> SUFFICES ASSUME c = 5 PROVE log[13].type = "task.completed"
    BY DEF Story
  <2>1. Len(log) = 13 /\ \A i \in 1..Len(log) : log[i].type = Script[i]
    BY DEF Story, FollowsScript
  <2> QED BY <2>1, ScriptTypes
<1> QED BY <1>1, <1>2 DEF Story

(* A run that was confirmed to the end has followed the whole script.      *)
LEMMA StoryIsScript ==
    ASSUME NEW log, Story(log, 5)
    PROVE  /\ Types(log) = Script /\ \A i \in DOMAIN log : log[i].sequence = i
           /\ Includes(log, "object.found") /\ Includes(log, "task.completed")
<1>1. /\ DOMAIN log = 1..13 /\ \A i \in 1..13 : log[i].type = Script[i]
      /\ \A i \in 1..13 : log[i].sequence = i
  BY NumberedFields DEF Story, FollowsScript, Closed
<1>2. Script = [i \in 1..13 |-> Script[i]]
  <2> DEFINE S == {Script[i] : i \in DOMAIN Script}
  <2>1. Script \in Seq(S) /\ Len(Script) = 13
    BY ScriptTypes DEF IsSequence
  <2> HIDE DEF S
  <2> QED BY <2>1
<1>3. Types(log) = Script
  BY <1>1, <1>2 DEF Types
<1>4. log[7].type = "object.found" /\ log[13].type = "task.completed"
  BY <1>1, ScriptTypes
<1> QED BY <1>1, <1>3, <1>4 DEF Includes

(* A log of the same types as the script has been completed.               *)
LEMMA ScriptIsStory ==
    ASSUME NEW log, NEW c, Story(log, c), Types(log) = Script
    PROVE  c = 5
<1>1. DOMAIN log = 1..Len(log) /\ Len(log) \in Nat \ {0}
  BY NumberedFields DEF Story, Closed
<1>2. DOMAIN Script = 1..13
  BY ScriptTypes, SequenceFields
<1>3. DOMAIN Types(log) = DOMAIN log /\ \A i \in DOMAIN log : Types(log)[i] = log[i].type
  BY DEF Types
<1>4. 1..Len(log) = 1..13
  BY <1>1, <1>2, <1>3
<1>5. Len(log) = 13
  <2>1. 13 \in 1..Len(log) /\ Len(log) \in 1..13
    BY <1>1, <1>4
  <2> QED BY <1>1, <2>1
<1>6. log[13].type = "task.completed"
  BY <1>1, <1>3, <1>5, ScriptTypes
<1> QED BY <1>5, <1>6 DEF Story

--------------------------------------------------------------------------------
Running == {"camera", "raw", "detect", "operator"}
Writing == {"replay", "replayOpen", "dashboard", "dashboardOpen"}

(* The log has come as far in the script as the operator has confirmed.    *)
LogInv ==
    /\ pc # "refused"
    /\ pc # "idle" => run # 0
    /\ pc \in {"camera", "raw", "detect"} =>
         OpenAt(events) /\ Len(events) = 6 /\ FollowsScript(events) /\ confirmed[run] = 0
    /\ pc = "operator" =>
         /\ OpenAt(events) /\ FollowsScript(events)
         /\ Len(events) = 7 + confirmed[run] /\ confirmed[run] # 5
    /\ pc \in Writing => Story(events, confirmed[run])
    /\ \A r \in 1..MaxRuns : r > run => confirmed[r] = 0

(* The pictures that a log refers to are those of the latest run.          *)
Pictured(log) ==
    /\ Includes(log, "object.found") => raw = run /\ annotated = run
    /\ Includes(log, "object.not_found") => raw = run

PictureInv ==
    /\ pc = "raw" => frame = run
    /\ pc = "detect" => frame = run /\ raw = run
    /\ pc = "operator" => raw = run /\ annotated = run
    /\ pc \in Writing => Pictured(events)

(* What a file tells is true of its run, which is never one under way.     *)
Tells(f) == f.run # 0 => f.run \in 1..run /\ Story(f.log, confirmed[f.run])

FileInv ==
    /\ Tells(replay) /\ Tells(dashboard)
    /\ pc \in Running => replay.run # run /\ dashboard.run # run
    /\ pc \in {"dashboard", "dashboardOpen"} => replay = Written(run, events)

EndedInv ==
    ended \in {"completed", "failed"} =>
        /\ pc = "idle" /\ run # 0
        /\ replay.run = run /\ dashboard = replay /\ Pictured(replay.log)
        /\ (ended = "completed" <=> confirmed[run] = 5)

DemoInv == PhysicalTypeOK /\ LogInv /\ PictureInv /\ FileInv /\ EndedInv

LEMMA DemoFacts ==
    ASSUME DemoInv
    PROVE  /\ MaxRuns \in Nat /\ run \in Nat /\ run <= MaxRuns
           /\ frame \in 0..run /\ raw \in 0..run /\ annotated \in 0..run
           /\ seen \in [1..MaxRuns -> Marker \cup {"none"}]
           /\ confirmed \in [1..MaxRuns -> 0..5]
           /\ pc # "idle" =>
                /\ run \in 1..MaxRuns /\ confirmed[run] \in 0..5
                /\ ended \notin {"completed", "failed"}
BY PhysicalAssumption, OperatorTypes DEF DemoInv, PhysicalTypeOK, LogInv, EndedInv

(* Only the log of a run under way may still grow.                         *)
LEMMA FileInvKept ==
    ASSUME DemoInv, UNCHANGED <<run, replay, dashboard>>,
           \A r \in 1..run : r # run \/ pc \notin Running => confirmed'[r] = confirmed[r],
           pc' \in Running => pc \in Running,
           pc' \in {"dashboard", "dashboardOpen"} => pc = "dashboardOpen" /\ UNCHANGED events
    PROVE  FileInv'
<1>1. ASSUME NEW f, Tells(f), f.run # run \/ pc \notin Running
      PROVE  f.run # 0 => f.run \in 1..run /\ Story(f.log, confirmed'[f.run])
  BY <1>1 DEF Tells
<1>2. /\ Tells(replay) /\ Tells(dashboard)
      /\ (replay.run # run /\ dashboard.run # run) \/ pc \notin Running
  BY DEF DemoInv, FileInv
<1>3. Tells(replay)' /\ Tells(dashboard)'
  <2>1. replay.run # 0 =>
          replay.run \in 1..run /\ Story(replay.log, confirmed'[replay.run])
    BY <1>1, <1>2
  <2>2. dashboard.run # 0 =>
          dashboard.run \in 1..run /\ Story(dashboard.log, confirmed'[dashboard.run])
    BY <1>1, <1>2
  <2> QED BY <2>1, <2>2 DEF Tells
<1> QED BY <1>3 DEF DemoInv, FileInv

(* The sets of places and outcomes, files and pictures of a state.         *)
LEMMA TypeKept ==
    ASSUME DemoInv,
           pc' \in {"idle", "camera", "raw", "detect", "operator"} \cup Writing,
           run' = run, ended' \in {"none", "completed", "failed", "brokenOff"},
           frame' \in 0..run, raw' \in 0..run, annotated' \in 0..run,
           UNCHANGED replay \/ TextFile(replay'), UNCHANGED dashboard \/ TextFile(dashboard'),
           seen' \in [1..MaxRuns -> Marker \cup {"none"}],
           confirmed' \in [1..MaxRuns -> 0..5]
    PROVE  PhysicalTypeOK'
<1>1. TextFile(replay) /\ TextFile(dashboard) /\ run \in 0..MaxRuns
  BY DEF DemoInv, PhysicalTypeOK
<1>2. TextFile(replay)' /\ TextFile(dashboard)'
  BY <1>1 DEF TextFile
<1>3. pc' \in {"idle", "camera", "raw", "detect", "operator", "replay", "replayOpen",
               "dashboard", "dashboardOpen", "refused"}
  BY DEF Writing
<1>4. {frame', raw', annotated'} \subseteq 0..run'
  OBVIOUS
<1> QED BY <1>1, <1>2, <1>3, <1>4, OperatorTypes DEF PhysicalTypeOK

LEMMA DemoInitInv ==
    ASSUME PhysicalInit
    PROVE  DemoInv
<1> USE PhysicalAssumption
<1>1. Absent.run = 0 /\ Absent.log = <<>> /\ Absent.extent = "none"
  BY DEF Absent
<1>2. /\ pc = "idle" /\ run = 0 /\ ended = "none"
      /\ replay = Absent /\ dashboard = Absent
      /\ \A r \in 1..MaxRuns : confirmed[r] = 0
  BY DEF PhysicalInit
<1>3. TextFile(replay) /\ TextFile(dashboard)
  BY <1>1, <1>2 DEF TextFile
<1>4. PhysicalTypeOK
  BY <1>3, OperatorTypes DEF PhysicalInit, PhysicalTypeOK
<1>5. LogInv
  BY <1>2 DEF LogInv, Writing
<1>6. PictureInv
  BY <1>2 DEF PictureInv, Writing
<1>7. FileInv
  BY <1>1, <1>2 DEF FileInv, Tells, Running
<1>8. EndedInv
  BY <1>2 DEF EndedInv
<1> QED BY <1>4, <1>5, <1>6, <1>7, <1>8 DEF DemoInv

(* Events of these types have been added to the log.                       *)
Grown(g, log, types) ==
    /\ Len(g) = Len(log) + Len(types)
    /\ \A i \in 1..Len(log) : g[i] = log[i]
    /\ \A i \in 1..Len(types) : g[Len(log) + i].type = types[i]

LEMMA EmittedGrown ==
    ASSUME NEW log, OpenAt(log), NEW types, Harmless(types) \/ Closing(types)
    PROVE  Grown(Emitted(log, types), log, types)
<1>1. Len(types) \in Nat
  BY SequenceFields DEF Harmless, Closing
<1>2. IsSequence(types) /\ \A i \in 1..(Len(types) - 1) : types[i] \notin TerminalEventTypes
  BY <1>1 DEF Harmless, Closing
<1> QED BY <1>2, EmittedEvents DEF Grown

(* A log of the script that grows by the next of its events.               *)
LEMMA ScriptGrown ==
    ASSUME NEW log, OpenAt(log), FollowsScript(log), NEW types, Harmless(types) \/ Closing(types),
           \A i \in 1..Len(types) : types[i] = Script[Len(log) + i]
    PROVE  /\ FollowsScript(Emitted(log, types))
           /\ Len(Emitted(log, types)) = Len(log) + Len(types)
<1> DEFINE g == Emitted(log, types)
           n == Len(log)
           m == Len(types)
<1>1. /\ Len(g) = n + m
      /\ \A i \in 1..n : g[i] = log[i]
      /\ \A i \in 1..m : g[n + i].type = types[i]
  BY EmittedGrown DEF Grown
<1>2. n \in Nat /\ m \in Nat
  BY NumberedFields, SequenceFields DEF OpenAt, Harmless, Closing
<1> HIDE DEF g
<1>3. \A i \in 1..(n + m) : i \in 1..n \/ (i - n \in 1..m /\ n + (i - n) = i)
  BY <1>2
<1>4. ASSUME NEW i \in 1..(n + m) PROVE g[i].type = Script[i]
  <2>1. CASE i \in 1..n
    BY <1>1, <2>1 DEF FollowsScript
  <2>2. CASE i - n \in 1..m /\ n + (i - n) = i
    <3>1. g[n + (i - n)].type = types[i - n] /\ types[i - n] = Script[n + (i - n)]
      BY <1>1, <2>2
    <3> QED BY <2>2, <3>1
  <2> QED BY <1>3, <2>1, <2>2
<1> QED BY <1>1, <1>4 DEF FollowsScript, g

LEMMA OneMoreOfScript ==
    ASSUME NEW log, OpenAt(log), FollowsScript(log), NEW t, t \notin TerminalEventTypes,
           NEW k \in Nat, Len(log) = k, Script[k + 1] = t
    PROVE  /\ OpenAt(Emitted(log, <<t>>)) /\ FollowsScript(Emitted(log, <<t>>))
           /\ Len(Emitted(log, <<t>>)) = k + 1
<1> DEFINE types == <<t>>
<1>1. Len(types) = 1 /\ types[1] = t /\ Harmless(types)
  BY OneElement DEF Harmless
<1> HIDE DEF types
<1>2. \A i \in 1..Len(types) : types[i] = Script[Len(log) + i]
  BY <1>1
<1>3. /\ FollowsScript(Emitted(log, types))
      /\ Len(Emitted(log, types)) = Len(log) + Len(types)
  BY <1>1, <1>2, ScriptGrown
<1>4. OpenAt(Emitted(log, types))
  BY <1>1, EmittedOpen
<1> QED BY <1>1, <1>3, <1>4 DEF types

(* The last confirmation.                                                  *)
LEMMA ScriptCompleted ==
    ASSUME NEW log, OpenAt(log), FollowsScript(log), Len(log) = 11
    PROVE  Story(Emitted(log, <<OperatorEvents[5], "task.completed">>), 5)
<1> DEFINE types == <<OperatorEvents[5], "task.completed">>
<1>1. /\ IsSequence(types) /\ Len(types) = 2
      /\ types[1] = OperatorEvents[5] /\ types[2] = "task.completed"
  BY TwoElements
<1> HIDE DEF types
<1>2. Closing(types)
  BY <1>1, OperatorTypes DEF Closing, TerminalEventTypes
<1>3. \A i \in 1..Len(types) : types[i] = Script[Len(log) + i]
  BY <1>1, ScriptTypes
<1>4. /\ FollowsScript(Emitted(log, types))
      /\ Len(Emitted(log, types)) = Len(log) + Len(types)
  BY <1>2, <1>3, ScriptGrown
<1>5. Closed(Emitted(log, types))
  BY <1>2, EmittedClosed
<1> QED BY <1>1, <1>4, <1>5 DEF Story, types

(* A run given up before its operator has confirmed everything.            *)
LEMMA FailedStory ==
    ASSUME NEW log, OpenAt(log), NEW code, NEW c, c # 5
    PROVE  Story(FailedWith(log, code), c)
<1> DEFINE g == FailedWith(log, code)
<1>1. Closed(g) /\ Len(g) = Len(log) + 1 /\ g[Len(log) + 1].type = "task.failed"
  BY FailedCloses
<1> HIDE DEF g
<1> QED BY <1>1 DEF Story, g

(* Before the detection a log refers to no picture.                        *)
LEMMA SearchIncludes ==
    ASSUME NEW log, OpenAt(log), FollowsScript(log), Len(log) = 6
    PROVE  ~Includes(log, "object.found") /\ ~Includes(log, "object.not_found")
<1>1. DOMAIN log = 1..6
  BY NumberedFields DEF OpenAt
<1> QED BY <1>1, SearchTypes, ScriptTypes DEF Includes, FollowsScript

(* run_physical_demo returns a finished log.                               *)
LEMMA ReturnKeepsInv ==
    ASSUME DemoInv, pc \in Running, NEW log, Return(log),
           Story(log, confirmed'[run]), Pictured(log),
           UNCHANGED <<run, ended, files>>, seen' \in [1..MaxRuns -> Marker \cup {"none"}],
           confirmed' \in [1..MaxRuns -> 0..5],
           \A r \in 1..MaxRuns : r # run => confirmed'[r] = confirmed[r]
    PROVE  DemoInv'
<1>1. events' = log /\ pc' = "replay"
  BY StoryOutcome DEF Return, Continue
<1>2. /\ UNCHANGED <<run, ended, frame, raw, annotated, replay, dashboard>>
      /\ pc # "idle" /\ run \in 1..MaxRuns /\ MaxRuns \in Nat
      /\ frame \in 0..run /\ raw \in 0..run /\ annotated \in 0..run
      /\ ended \notin {"completed", "failed"}
  BY DemoFacts DEF files, Running
<1>3. PhysicalTypeOK'
  <2>1. ended' \in {"none", "completed", "failed", "brokenOff"}
    BY <1>2 DEF DemoInv, PhysicalTypeOK
  <2> QED BY <1>1, <1>2, <2>1, TypeKept DEF Writing
<1>4. LogInv'
  BY <1>1, <1>2 DEF DemoInv, LogInv, Writing
<1>5. PictureInv'
  BY <1>1, <1>2 DEF PictureInv, Pictured, Writing
<1>6. FileInv'
  BY <1>1, <1>2, FileInvKept DEF Running
<1>7. EndedInv'
  BY <1>2 DEF EndedInv
<1> QED BY <1>3, <1>4, <1>5, <1>6, <1>7 DEF DemoInv

(* The log of a run when the camera is opened.                             *)
LEMMA SearchEmitted ==
    ASSUME NEW e, OpenAt(e), Len(e) = 0, NEW t, Harmless(t), Len(t) = 6
    PROVE  /\ OpenAt(Emitted(e, t)) /\ Len(Emitted(e, t)) = 6
           /\ \A i \in 1..6 : Emitted(e, t)[i].type = t[i]
<1> DEFINE g == Emitted(e, t)
<1>1. OpenAt(g) /\ Grown(g, e, t)
  BY EmittedGrown, EmittedOpen
<1> HIDE DEF g
<1>2. Len(g) = 6 /\ \A i \in 1..6 : g[i].type = t[i]
  BY <1>1 DEF Grown
<1> QED BY <1>1, <1>2 DEF g

LEMMA BeginKeepsInv ==
    ASSUME DemoInv, Begin
    PROVE  DemoInv'
<1> DEFINE log == Emitted(<<>>, SearchEvents)
<1>1. /\ OpenAt(log) /\ Len(log) = 6
      /\ \A i \in 1..6 : log[i].type = SearchEvents[i]
  <2>1. OpenAt(<<>>) /\ Len(<<>>) = 0
    BY EmptyIsOpen
  <2>2. Harmless(SearchEvents) /\ Len(SearchEvents) = 6
    BY SearchTypes
  <2> QED BY <2>1, <2>2, SearchEmitted
<1>2. FollowsScript(log)
  BY <1>1, ScriptTypes DEF FollowsScript
<1> HIDE DEF log
<1>3. /\ pc = "idle" /\ run < MaxRuns /\ run' = run + 1 /\ ended' = "none"
      /\ Continue(log, "camera")
      /\ UNCHANGED <<frame, raw, annotated, replay, dashboard, seen, confirmed>>
  BY DEF Begin, files, world, log
<1>4. events' = log /\ pc' = "camera"
  BY <1>1, <1>3, OpenOutcome DEF Continue
<1>5. /\ run \in Nat /\ MaxRuns \in Nat /\ run + 1 \in 1..MaxRuns
      /\ frame \in 0..run /\ raw \in 0..run /\ annotated \in 0..run
  BY <1>3, DemoFacts
<1>6. PhysicalTypeOK'
  <2>1. {frame', raw', annotated'} \subseteq 0..run'
    BY <1>3, <1>5
  <2>2. TextFile(replay)' /\ TextFile(dashboard)'
    BY <1>3 DEF DemoInv, PhysicalTypeOK, TextFile
  <2>3. run' \in 0..MaxRuns
    BY <1>3, <1>5
  <2> QED BY <1>3, <1>4, <2>1, <2>2, <2>3 DEF DemoInv, PhysicalTypeOK
<1>7. LogInv'
  <2>1. /\ \A r \in 1..MaxRuns : r > run => confirmed[r] = 0
        /\ \A r \in 1..MaxRuns : r > run + 1 => r > run
        /\ run + 1 > run /\ run + 1 # 0
    BY <1>5 DEF DemoInv, LogInv
  <2> QED BY <1>1, <1>2, <1>3, <1>4, <1>5, <2>1 DEF LogInv, Writing
<1>8. PictureInv'
  BY <1>4 DEF PictureInv, Writing
<1>9. FileInv'
  <2>1. Tells(replay) /\ Tells(dashboard)
    BY DEF DemoInv, FileInv
  <2>2. \A r \in 1..run : r \in 1..(run + 1) /\ r # run + 1
    BY <1>5
  <2>3. replay.run # run + 1 /\ dashboard.run # run + 1
    BY <1>5, <2>1, <2>2 DEF Tells
  <2>4. Tells(replay)' /\ Tells(dashboard)'
    BY <1>3, <2>1, <2>2 DEF Tells
  <2> QED BY <1>3, <1>4, <2>3, <2>4 DEF FileInv
<1>10. EndedInv'
  BY <1>3 DEF EndedInv
<1> QED BY <1>6, <1>7, <1>8, <1>9, <1>10 DEF DemoInv

LEMMA CaptureFrameKeepsInv ==
    ASSUME DemoInv, CaptureFrame
    PROVE  DemoInv'
<1>1. /\ pc = "camera" /\ pc' = "raw" /\ frame' = run
      /\ UNCHANGED <<run, events, ended, raw, annotated, replay, dashboard, confirmed>>
  BY DEF CaptureFrame
<1>2. /\ MaxRuns \in Nat /\ run \in Nat /\ run \in 1..MaxRuns /\ run \in 0..run
      /\ raw \in 0..run /\ annotated \in 0..run
      /\ seen \in [1..MaxRuns -> Marker \cup {"none"}]
      /\ confirmed \in [1..MaxRuns -> 0..5]
      /\ ended \notin {"completed", "failed"}
  BY <1>1, DemoFacts
<1>3. seen' \in [1..MaxRuns -> Marker \cup {"none"}]
  BY <1>2 DEF CaptureFrame
<1>4. PhysicalTypeOK'
  <2>1. ended' \in {"none", "completed", "failed", "brokenOff"}
    BY <1>1 DEF DemoInv, PhysicalTypeOK
  <2> QED BY <1>1, <1>2, <1>3, <2>1, TypeKept
<1>5. LogInv'
  BY <1>1 DEF DemoInv, LogInv, Writing
<1>6. PictureInv'
  BY <1>1 DEF PictureInv, Writing
<1>7. FileInv'
  BY <1>1, FileInvKept DEF Running
<1>8. EndedInv'
  BY <1>1, <1>2 DEF EndedInv
<1> QED BY <1>4, <1>5, <1>6, <1>7, <1>8 DEF DemoInv

LEMMA WriteRawKeepsInv ==
    ASSUME DemoInv, WriteRaw
    PROVE  DemoInv'
<1>1. /\ pc = "raw" /\ pc' = "detect" /\ raw' = frame
      /\ UNCHANGED <<run, events, ended, frame, annotated, replay, dashboard, seen, confirmed>>
  BY DEF WriteRaw, world
<1>2. /\ frame \in 0..run /\ annotated \in 0..run
      /\ seen \in [1..MaxRuns -> Marker \cup {"none"}]
      /\ confirmed \in [1..MaxRuns -> 0..5]
      /\ ended \notin {"completed", "failed"}
  BY <1>1, DemoFacts
<1>3. PhysicalTypeOK'
  <2>1. ended' \in {"none", "completed", "failed", "brokenOff"}
    BY <1>1 DEF DemoInv, PhysicalTypeOK
  <2> QED BY <1>1, <1>2, <2>1, TypeKept
<1>4. LogInv'
  BY <1>1 DEF DemoInv, LogInv, Writing
<1>5. PictureInv'
  BY <1>1 DEF DemoInv, PictureInv, Writing
<1>6. FileInv'
  BY <1>1, FileInvKept DEF Running
<1>7. EndedInv'
  BY <1>1, <1>2 DEF EndedInv
<1> QED BY <1>3, <1>4, <1>5, <1>6, <1>7 DEF DemoInv

LEMMA DetectNothingKeepsInv ==
    ASSUME DemoInv, DetectNothing
    PROVE  DemoInv'
<1> DEFINE found == Emitted(events, <<"object.not_found">>)
           log == FailedWith(found, "object_not_found")
<1>1. /\ pc = "detect" /\ UNCHANGED <<run, ended, files, seen, confirmed>>
      /\ Return(log)
  BY DEF DetectNothing, world
<1>2. /\ OpenAt(events) /\ FollowsScript(events) /\ Len(events) = 6
      /\ confirmed[run] = 0 /\ raw = run
  BY <1>1 DEF DemoInv, LogInv, PictureInv
<1>3. Harmless(<<"object.not_found">>) /\ Len(<<"object.not_found">>) = 1
      /\ <<"object.not_found">>[1] = "object.not_found"
  BY OneElement DEF Harmless, TerminalEventTypes
<1>4. OpenAt(found) /\ ~Includes(found, "object.found")
  BY <1>2, <1>3, EmittedOpen, EmittedIncludes, SearchIncludes
<1> HIDE DEF found
<1>5. Story(log, confirmed'[run])
  BY <1>1, <1>2, <1>4, FailedStory
<1>6. ~Includes(log, "object.found")
  BY <1>4, FailedIncludes
<1> HIDE DEF log
<1>7. Pictured(log)
  BY <1>2, <1>6 DEF Pictured
<1> QED BY <1>1, <1>5, <1>7, DemoFacts, ReturnKeepsInv DEF Running

LEMMA DetectMarkerKeepsInv ==
    ASSUME DemoInv, DetectMarker
    PROVE  DemoInv'
<1> DEFINE log == Emitted(events, <<"object.found">>)
<1>1. /\ pc = "detect" /\ annotated' = frame /\ Continue(log, "operator")
      /\ UNCHANGED <<run, ended, frame, raw, replay, dashboard, seen, confirmed>>
  BY DEF DetectMarker, world
<1>2. /\ OpenAt(events) /\ FollowsScript(events) /\ Len(events) = 6
      /\ confirmed[run] = 0 /\ raw = run /\ frame = run
  BY <1>1 DEF DemoInv, LogInv, PictureInv
<1>3. "object.found" \notin TerminalEventTypes /\ 6 \in Nat /\ Script[6 + 1] = "object.found"
  BY ScriptTypes DEF TerminalEventTypes
<1>4. OpenAt(log) /\ FollowsScript(log) /\ Len(log) = 6 + 1
  BY <1>2, <1>3, OneMoreOfScript
<1> HIDE DEF log
<1>5. events' = log /\ pc' = "operator"
  BY <1>1, <1>4, OpenOutcome DEF Continue
<1>6. /\ frame \in 0..run /\ raw \in 0..run
      /\ seen \in [1..MaxRuns -> Marker \cup {"none"}]
      /\ confirmed \in [1..MaxRuns -> 0..5]
      /\ ended \notin {"completed", "failed"}
  BY <1>1, DemoFacts
<1>7. PhysicalTypeOK'
  <2>1. ended' \in {"none", "completed", "failed", "brokenOff"}
    BY <1>1 DEF DemoInv, PhysicalTypeOK
  <2> QED BY <1>1, <1>5, <1>6, <2>1, TypeKept
<1>8. LogInv'
  BY <1>1, <1>2, <1>4, <1>5 DEF DemoInv, LogInv, Writing
<1>9. PictureInv'
  BY <1>1, <1>2, <1>5 DEF PictureInv, Writing
<1>10. FileInv'
  BY <1>1, <1>5, FileInvKept DEF Running
<1>11. EndedInv'
  BY <1>1, <1>6 DEF EndedInv
<1> QED BY <1>7, <1>8, <1>9, <1>10, <1>11 DEF DemoInv

LEMMA ProbeOtherwiseKeepsInv ==
    ASSUME DemoInv, ProbeOtherwise
    PROVE  DemoInv'
<1> DEFINE probed == Emitted(events, <<"camera.probe.completed">>)
           log == FailedWith(probed, "invalid_task")
<1>1. /\ pc = "camera" /\ UNCHANGED <<run, ended, files, seen, confirmed>>
      /\ Return(log)
  BY DEF ProbeOtherwise, world
<1>2. /\ OpenAt(events) /\ FollowsScript(events) /\ Len(events) = 6
      /\ confirmed[run] = 0
  BY <1>1 DEF DemoInv, LogInv
<1>3. Harmless(<<"camera.probe.completed">>) /\ Len(<<"camera.probe.completed">>) = 1
      /\ <<"camera.probe.completed">>[1] = "camera.probe.completed"
  BY OneElement DEF Harmless, TerminalEventTypes
<1>4. /\ OpenAt(probed)
      /\ ~Includes(probed, "object.found") /\ ~Includes(probed, "object.not_found")
  BY <1>2, <1>3, EmittedOpen, EmittedIncludes, SearchIncludes
<1> HIDE DEF probed
<1>5. Story(log, confirmed'[run])
  BY <1>1, <1>2, <1>4, FailedStory
<1>6. ~Includes(log, "object.found") /\ ~Includes(log, "object.not_found")
  BY <1>4, FailedIncludes
<1> HIDE DEF log
<1>7. Pictured(log)
  BY <1>6 DEF Pictured
<1> QED BY <1>1, <1>5, <1>7, DemoFacts, ReturnKeepsInv DEF Running

LEMMA DeclineKeepsInv ==
    ASSUME DemoInv, Decline
    PROVE  DemoInv'
<1> DEFINE log == FailedWith(events, "manual_cancelled")
<1>1. /\ pc = "operator" /\ UNCHANGED <<run, ended, files, seen, confirmed>>
      /\ Return(log)
  BY DEF Decline, world
<1>2. OpenAt(events) /\ confirmed[run] # 5 /\ raw = run /\ annotated = run
  BY <1>1 DEF DemoInv, LogInv, PictureInv
<1>3. Story(log, confirmed'[run])
  BY <1>1, <1>2, FailedStory
<1> HIDE DEF log
<1>4. Pictured(log)
  BY <1>2 DEF Pictured
<1> QED BY <1>1, <1>3, <1>4, DemoFacts, ReturnKeepsInv DEF Running

LEMMA ConfirmKeepsInv ==
    ASSUME DemoInv, Confirm
    PROVE  DemoInv'
<1> DEFINE c == confirmed[run]
           log == Emitted(events, <<OperatorEvents[Step]>>)
<1>1. /\ pc = "operator" /\ confirmed' = [confirmed EXCEPT ![run] = c + 1]
      /\ UNCHANGED <<run, ended, files, seen>>
      /\ UNCHANGED <<frame, raw, annotated, replay, dashboard>>
  BY DEF Confirm, files
<1>2. /\ OpenAt(events) /\ FollowsScript(events) /\ Len(events) = 7 + c /\ c # 5
      /\ raw = run /\ annotated = run
  BY <1>1 DEF DemoInv, LogInv, PictureInv
<1>3. /\ MaxRuns \in Nat /\ run \in 1..MaxRuns /\ c \in 0..4
      /\ frame \in 0..run /\ raw \in 0..run /\ annotated \in 0..run
      /\ seen \in [1..MaxRuns -> Marker \cup {"none"}]
      /\ confirmed \in [1..MaxRuns -> 0..5]
      /\ ended \notin {"completed", "failed"}
  BY <1>1, <1>2, DemoFacts
<1>4. /\ confirmed' \in [1..MaxRuns -> 0..5] /\ confirmed'[run] = c + 1
      /\ \A r \in 1..MaxRuns : r # run => confirmed'[r] = confirmed[r]
  BY <1>1, <1>3
<1>5. Step = c + 1
  BY <1>2, <1>3, SearchTypes DEF Step
<1>6. CASE c < 4
  <2>1. Continue(log, "operator")
    BY <1>3, <1>5, <1>6, OperatorTypes DEF Confirm
  <2>2. /\ OperatorEvents[c + 1] \notin TerminalEventTypes
        /\ Script[(7 + c) + 1] = OperatorEvents[c + 1] /\ 7 + c \in Nat
    <3>1. c + 1 \in 1..5 /\ 7 + (c + 1) = (7 + c) + 1
      BY <1>3
    <3> QED BY <1>3, <3>1, OperatorTypes, ScriptTypes
  <2>3. ASSUME NEW t, t = OperatorEvents[c + 1]
        PROVE  /\ OpenAt(Emitted(events, <<t>>)) /\ FollowsScript(Emitted(events, <<t>>))
               /\ Len(Emitted(events, <<t>>)) = (7 + c) + 1
    BY <1>2, <2>2, <2>3, OneMoreOfScript
  <2>4. OpenAt(log) /\ FollowsScript(log) /\ Len(log) = (7 + c) + 1
    BY <1>5, <2>3
  <2> HIDE DEF log
  <2>5. events' = log /\ pc' = "operator"
    BY <2>1, <2>4, OpenOutcome DEF Continue
  <2>6. PhysicalTypeOK'
    <3>1. ended' \in {"none", "completed", "failed", "brokenOff"}
      BY <1>1 DEF DemoInv, PhysicalTypeOK
    <3> QED BY <1>1, <1>3, <1>4, <2>5, <3>1, TypeKept
  <2>7. LogInv'
    <3>1. /\ c + 1 # 5 /\ Len(log) = 7 + (c + 1)
          /\ \A r \in 1..MaxRuns : r > run => r # run
      BY <1>3, <1>6, <2>4
    <3>2. \A r \in 1..MaxRuns : r > run => confirmed'[r] = 0
      BY <1>4, <3>1 DEF DemoInv, LogInv
    <3>3. run # 0
      BY <1>3
    <3> HIDE DEF c
    <3> QED BY <1>1, <1>4, <2>4, <2>5, <3>1, <3>2, <3>3 DEF LogInv, Writing
  <2>8. PictureInv'
    BY <1>1, <1>2, <2>5 DEF PictureInv, Writing
  <2>9. FileInv'
    BY <1>1, <1>3, <1>4, <2>5, FileInvKept DEF Running
  <2>10. EndedInv'
    BY <1>1, <1>3 DEF EndedInv
  <2> QED BY <2>6, <2>7, <2>8, <2>9, <2>10 DEF DemoInv
<1>7. CASE c = 4
  <2> DEFINE full == Emitted(events, <<OperatorEvents[5], "task.completed">>)
  <2>1. Return(full)
    BY <1>5, <1>7, OperatorTypes DEF Confirm
  <2>2. Story(full, 5)
    BY <1>2, <1>7, ScriptCompleted
  <2> HIDE DEF full
  <2>3. Story(full, confirmed'[run])
    BY <1>4, <1>7, <2>2
  <2>4. Pictured(full)
    BY <1>2 DEF Pictured
  <2> QED BY <1>1, <1>3, <1>4, <2>1, <2>3, <2>4, ReturnKeepsInv DEF Running
<1> QED BY <1>3, <1>6, <1>7

--------------------------------------------------------------------------------
(* The steps of main after the log has been returned change files only.    *)
LEMMA WritingKeepsInv ==
    ASSUME DemoInv, pc \in Writing, pc' \in Writing,
           UNCHANGED <<run, events, ended, pictures, world>>,
           UNCHANGED replay \/ TextFile(replay'), UNCHANGED dashboard \/ TextFile(dashboard'),
           FileInv'
    PROVE  DemoInv'
<1>1. /\ UNCHANGED <<run, events, ended, frame, raw, annotated, seen, confirmed>>
      /\ pc # "idle"
  BY DEF pictures, world, Writing
<1>2. /\ frame \in 0..run /\ raw \in 0..run /\ annotated \in 0..run
      /\ seen \in [1..MaxRuns -> Marker \cup {"none"}]
      /\ confirmed \in [1..MaxRuns -> 0..5]
      /\ ended \notin {"completed", "failed"}
  BY <1>1, DemoFacts
<1>3. PhysicalTypeOK'
  <2>1. ended' \in {"none", "completed", "failed", "brokenOff"}
    BY <1>1 DEF DemoInv, PhysicalTypeOK
  <2> QED BY <1>1, <1>2, <2>1, TypeKept
<1>4. LogInv'
  BY <1>1 DEF DemoInv, LogInv, Writing
<1>5. PictureInv'
  BY <1>1 DEF DemoInv, PictureInv, Pictured, Writing
<1>6. EndedInv'
  BY <1>1, <1>2 DEF EndedInv
<1> QED BY <1>3, <1>4, <1>5, <1>6 DEF DemoInv

LEMMA TornFile ==
    /\ Torn.run = 0 /\ TextFile(Torn)
BY PhysicalAssumption DEF Torn, TextFile

LEMMA WrittenFile ==
    ASSUME NEW r \in 1..MaxRuns, NEW log, NEW f,
           f \in {Written(r, log), [Written(r, log) EXCEPT !.extent = "part"]}
    PROVE  f.run = r /\ f.log = log /\ TextFile(f)
<1>1. [Written(r, log) EXCEPT !.extent = "part"] = [run |-> r, log |-> log, extent |-> "part"]
  BY DEF Written
<1>2. f.run = r /\ f.log = log /\ f.extent \in {"part", "whole"}
  BY <1>1 DEF Written
<1>3. r \in 0..MaxRuns /\ r # 0
  BY PhysicalAssumption
<1> QED BY <1>2, <1>3 DEF TextFile

(* The file then tells of the latest run.                                  *)
LEMMA WrittenTells ==
    ASSUME DemoInv, pc \in Writing, NEW f,
           f \in {Written(run, events), [Written(run, events) EXCEPT !.extent = "part"]}
    PROVE  Tells(f) /\ TextFile(f)
<1>1. run \in 1..MaxRuns /\ run \in 1..run /\ Story(events, confirmed[run])
  BY DemoFacts DEF DemoInv, LogInv, Writing
<1> QED BY <1>1, WrittenFile DEF Tells

LEMMA OpenReplayKeepsInv ==
    ASSUME DemoInv, OpenReplay
    PROVE  DemoInv'
<1>1. /\ pc = "replay" /\ pc' = "replayOpen" /\ replay' = Torn
      /\ UNCHANGED <<run, events, ended, pictures, dashboard, world>>
  BY DEF OpenReplay
<1>2. FileInv'
  BY <1>1, TornFile DEF DemoInv, FileInv, Tells, Running, world
<1> QED BY <1>1, <1>2, TornFile, WritingKeepsInv DEF Writing

LEMMA WriteReplayKeepsInv ==
    ASSUME DemoInv, WriteReplay
    PROVE  DemoInv'
<1>1. /\ pc = "replayOpen" /\ pc' = "dashboard" /\ replay' = Written(run, events)
      /\ UNCHANGED <<run, events, ended, pictures, dashboard, world>>
  BY DEF WriteReplay
<1>2. Tells(Written(run, events)) /\ TextFile(Written(run, events))
  BY <1>1, WrittenTells DEF Writing
<1>3. FileInv'
  BY <1>1, <1>2 DEF DemoInv, FileInv, Tells, Running, world
<1> QED BY <1>1, <1>2, <1>3, WritingKeepsInv DEF Writing

LEMMA OpenDashboardKeepsInv ==
    ASSUME DemoInv, OpenDashboard
    PROVE  DemoInv'
<1>1. /\ pc = "dashboard" /\ pc' = "dashboardOpen" /\ dashboard' = Torn
      /\ UNCHANGED <<run, events, ended, pictures, replay, world>>
  BY DEF OpenDashboard
<1>2. FileInv'
  BY <1>1, TornFile DEF DemoInv, FileInv, Tells, Running, world
<1> QED BY <1>1, <1>2, TornFile, WritingKeepsInv DEF Writing

LEMMA FlushDashboardKeepsInv ==
    ASSUME DemoInv, FlushDashboard
    PROVE  DemoInv'
<1>1. /\ pc = "dashboardOpen" /\ pc' = pc /\ dashboard' = [replay EXCEPT !.extent = "part"]
      /\ UNCHANGED <<run, events, ended, pictures, replay, world>>
  BY DEF FlushDashboard
<1>2. replay = Written(run, events)
  BY <1>1 DEF DemoInv, FileInv
<1>3. Tells(dashboard') /\ TextFile(dashboard')
  BY <1>1, <1>2, WrittenTells DEF Writing
<1>4. FileInv'
  BY <1>1, <1>3 DEF DemoInv, FileInv, Tells, Running, world
<1> QED BY <1>1, <1>3, <1>4, WritingKeepsInv DEF Writing

LEMMA WriteDashboardKeepsInv ==
    ASSUME DemoInv, WriteDashboard
    PROVE  DemoInv'
<1>1. /\ pc = "dashboardOpen" /\ pc' = "idle" /\ dashboard' = replay
      /\ ended' = IF TerminalEventType(events) = "task.completed" THEN "completed" ELSE "failed"
      /\ UNCHANGED <<run, events, frame, raw, annotated, replay, seen, confirmed>>
  BY DEF WriteDashboard, pictures, world
<1>2. /\ run \in 1..MaxRuns /\ MaxRuns \in Nat
      /\ frame \in 0..run /\ raw \in 0..run /\ annotated \in 0..run
      /\ seen \in [1..MaxRuns -> Marker \cup {"none"}]
      /\ confirmed \in [1..MaxRuns -> 0..5]
  BY <1>1, DemoFacts
<1>3. /\ replay = Written(run, events) /\ Pictured(events)
      /\ Story(events, confirmed[run]) /\ Tells(replay)
  BY <1>1 DEF DemoInv, FileInv, LogInv, PictureInv, Writing
<1>4. replay.run = run /\ replay.log = events /\ TextFile(replay)
  BY <1>2, <1>3, WrittenFile
<1>5. PhysicalTypeOK'
  BY <1>1, <1>2, <1>4, TypeKept
<1>6. LogInv'
  BY <1>1 DEF DemoInv, LogInv, Writing
<1>7. PictureInv'
  BY <1>1 DEF PictureInv, Writing
<1>8. FileInv'
  BY <1>1, <1>3 DEF FileInv, Tells, Running
<1>9. EndedInv'
  <2>1. ended' = "completed" <=> confirmed[run] = 5
    BY <1>1, <1>3, StoryOutcome
  <2> QED BY <1>1, <1>2, <1>3, <1>4, <2>1 DEF EndedInv, Pictured
<1> QED BY <1>5, <1>6, <1>7, <1>8, <1>9 DEF DemoInv

LEMMA BreakOffKeepsInv ==
    ASSUME DemoInv, BreakOff
    PROVE  DemoInv'
<1>1. /\ pc' = "idle" /\ ended' = "brokenOff" /\ pc # "idle"
      /\ UNCHANGED <<run, events, frame, raw, annotated, replay, dashboard, seen, confirmed>>
  BY DEF BreakOff, files, world
<1>2. /\ frame \in 0..run /\ raw \in 0..run /\ annotated \in 0..run
      /\ seen \in [1..MaxRuns -> Marker \cup {"none"}]
      /\ confirmed \in [1..MaxRuns -> 0..5]
  BY DemoFacts
<1>3. PhysicalTypeOK'
  BY <1>1, <1>2, TypeKept
<1>4. LogInv'
  BY <1>1 DEF DemoInv, LogInv, Writing
<1>5. PictureInv'
  BY <1>1 DEF PictureInv, Writing
<1>6. FileInv'
  BY <1>1, FileInvKept DEF Running
<1>7. EndedInv'
  BY <1>1 DEF EndedInv
<1> QED BY <1>3, <1>4, <1>5, <1>6, <1>7 DEF DemoInv

LEMMA DemoInvHolds == PhysicalSpec => []DemoInv
<1>1. PhysicalInit => DemoInv
  BY DemoInitInv
<1>2. DemoInv /\ [PhysicalNext]_vars => DemoInv'
  <2> SUFFICES ASSUME DemoInv, [PhysicalNext]_vars PROVE DemoInv'
    OBVIOUS
  <2>1. CASE Begin BY <2>1, BeginKeepsInv
  <2>2. CASE CaptureFrame BY <2>2, CaptureFrameKeepsInv
  <2>3. CASE WriteRaw BY <2>3, WriteRawKeepsInv
  <2>4. CASE DetectNothing BY <2>4, DetectNothingKeepsInv
  <2>5. CASE DetectMarker BY <2>5, DetectMarkerKeepsInv
  <2>6. CASE ProbeOtherwise BY <2>6, ProbeOtherwiseKeepsInv
  <2>7. CASE Confirm BY <2>7, ConfirmKeepsInv
  <2>8. CASE Decline BY <2>8, DeclineKeepsInv
  <2>9. CASE OpenReplay BY <2>9, OpenReplayKeepsInv
  <2>10. CASE WriteReplay BY <2>10, WriteReplayKeepsInv
  <2>11. CASE OpenDashboard BY <2>11, OpenDashboardKeepsInv
  <2>12. CASE FlushDashboard BY <2>12, FlushDashboardKeepsInv
  <2>13. CASE WriteDashboard BY <2>13, WriteDashboardKeepsInv
  <2>14. CASE BreakOff BY <2>14, BreakOffKeepsInv
  <2>15. CASE UNCHANGED vars
    BY <2>15 DEF vars, DemoInv, PhysicalTypeOK, TextFile, LogInv, PictureInv, Pictured,
           FileInv, Tells, EndedInv
  <2> QED
    BY <2>1, <2>2, <2>3, <2>4, <2>5, <2>6, <2>7, <2>8, <2>9, <2>10, <2>11, <2>12, <2>13,
       <2>14, <2>15 DEF PhysicalNext, BeginDisabled
<1> QED BY <1>1, <1>2, PTL DEF PhysicalSpec

--------------------------------------------------------------------------------
(* Type correctness, for any markers and any number of runs.               *)
THEOREM PhysicalTypeCorrect == PhysicalSpec => []PhysicalTypeOK
<1>1. DemoInv => PhysicalTypeOK
  BY DEF DemoInv
<1> QED BY <1>1, DemoInvHolds, PTL

(* No append and no validate of a run ever raises.                         *)
THEOREM DemoLogsNeverRefuse == PhysicalSpec => []LogsNeverRefuse
<1>1. DemoInv => LogsNeverRefuse
  BY DEF DemoInv, LogInv, LogsNeverRefuse
<1> QED BY <1>1, DemoInvHolds, PTL

(* A replay that can be read is the whole story of a run.                  *)
THEOREM ReplaysAreSealed == PhysicalSpec => []ReplayIsSealed
<1>1. DemoInv => ReplayIsSealed
  BY StoryOutcome DEF DemoInv, FileInv, Tells, ReplayIsSealed
<1> QED BY <1>1, DemoInvHolds, PTL

(* The check passes only on the replay of a run that its operator has      *)
(* confirmed to the end.                                                   *)
THEOREM PassIsConfirmed == PhysicalSpec => []PassMeansConfirmedRun
<1>1. DemoInv => PassMeansConfirmedRun
  BY ScriptIsStory, OperatorTypes DEF DemoInv, FileInv, Tells, PassMeansConfirmedRun,
     OutputPasses, ReplayPasses, Script
<1> QED BY <1>1, DemoInvHolds, PTL

(* A run that came to its end leaves its own files.                        *)
THEOREM FilesOfFinishedRun == PhysicalSpec => []FinishedRunLeavesItsFiles
<1>1. DemoInv => FinishedRunLeavesItsFiles
  BY DEF DemoInv, EndedInv, Pictured, FinishedRunLeavesItsFiles
<1> QED BY <1>1, DemoInvHolds, PTL

(* After such a run the check tells whether it succeeded.                  *)
THEOREM CheckIsJust == PhysicalSpec => []CheckJudgesFinishedRun
<1>1. DemoInv => CheckJudgesFinishedRun
  <2> SUFFICES ASSUME DemoInv, ended \in {"completed", "failed"}
               PROVE  IF ended = "completed" THEN OutputPasses <=> seen[run] = ExpectedMarker
                                             ELSE ~OutputPasses
    BY DEF CheckJudgesFinishedRun
  <2>1. /\ run # 0 /\ replay.run = run /\ dashboard = replay /\ Pictured(replay.log)
        /\ (ended = "completed" <=> confirmed[run] = 5)
    BY DEF DemoInv, EndedInv
  <2>2. Story(replay.log, confirmed[run])
    BY <2>1 DEF DemoInv, FileInv, Tells
  <2>3. CASE ended = "completed"
    <3>1. /\ Types(replay.log) = Script /\ \A i \in DOMAIN replay.log : replay.log[i].sequence = i
          /\ Includes(replay.log, "object.found") /\ Includes(replay.log, "task.completed")
      BY <2>1, <2>2, <2>3, StoryIsScript
    <3>2. raw = run /\ annotated = run
      BY <2>1, <3>1 DEF Pictured
    <3> QED BY <2>1, <2>3, <3>1, <3>2
            DEF OutputPasses, ReplayPasses, EvidencePasses, DashboardPasses, Script
  <2>4. CASE ended # "completed"
    BY <2>1, <2>2, <2>4, ScriptIsStory DEF OutputPasses, ReplayPasses, Script
  <2> QED BY <2>3, <2>4
<1> QED BY <1>1, DemoInvHolds, PTL

(* The final status on a dashboard is the truth about the operator.        *)
THEOREM DashboardIsTruthful == PhysicalSpec => []DashboardTellsOutcome
<1>1. DemoInv => DashboardTellsOutcome
  <2> SUFFICES ASSUME DemoInv, dashboard.run # 0
               PROVE  FinalStatus(dashboard.log) =
                        IF confirmed[dashboard.run] = 5 THEN "completed" ELSE "failed"
    BY OperatorTypes DEF DashboardTellsOutcome
  <2> DEFINE log == dashboard.log
             c == confirmed[dashboard.run]
             e == log[Len(log)]
  <2>1. Story(log, c)
    BY DEF DemoInv, FileInv, Tells
  <2>2. e.type = IF c = 5 THEN "task.completed" ELSE "task.failed"
    BY <2>1, StoryOutcome
  <2>3. log # <<>>
    <3>1. Len(log) \in Nat \ {0}
      BY <2>1 DEF Story, Closed
    <3> QED BY <3>1
  <2>4. FinalStatus(log) = IF e.type = "task.completed" \/ PayloadCompleted(e) THEN "completed"
                           ELSE IF e.type = "task.failed" \/ e.code # NoCode THEN "failed"
                           ELSE "unknown"
    BY <2>3 DEF FinalStatus
  <2>5. PayloadCompleted(e) <=> c = 5
    BY <2>2 DEF PayloadCompleted
  <2> HIDE DEF e, log, c
  <2>6. c = 5 => FinalStatus(log) = "completed"
    BY <2>2, <2>4
  <2>7. c # 5 => FinalStatus(log) = "failed"
    BY <2>2, <2>4, <2>5
  <2> QED BY <2>6, <2>7 DEF log, c
<1> QED BY <1>1, DemoInvHolds, PTL

--------------------------------------------------------------------------------
(* Sequences, element by element.                                          *)

LEMMA FourElements ==
    ASSUME NEW a, NEW b, NEW c, NEW d
    PROVE  /\ IsSequence(<<a, b, c, d>>) /\ Len(<<a, b, c, d>>) = 4
           /\ <<a, b, c, d>>[1] = a /\ <<a, b, c, d>>[2] = b
           /\ <<a, b, c, d>>[3] = c /\ <<a, b, c, d>>[4] = d
BY DEF IsSequence

LEMMA SamePath ==
    ASSUME NEW s, IsSequence(s), NEW t, IsSequence(t), Len(s) = Len(t),
           \A i \in 1..Len(s) : s[i] = t[i]
    PROVE  s = t
<1>1. DOMAIN s = 1..Len(s) /\ DOMAIN t = 1..Len(t)
  BY SequenceFields
<1>2. s = [i \in 1..Len(s) |-> s[i]] /\ t = [i \in 1..Len(t) |-> t[i]]
  <2> DEFINE A == {s[i] : i \in DOMAIN s}
             B == {t[i] : i \in DOMAIN t}
  <2>1. s \in Seq(A) /\ t \in Seq(B)
    BY DEF IsSequence
  <2> HIDE DEF A, B
  <2> QED BY <2>1
<1> QED BY <1>2

LEMMA PartOf ==
    ASSUME NEW s, IsSequence(s), NEW m \in Nat \ {0}, NEW n \in Nat, m <= n + 1, n <= Len(s)
    PROVE  /\ IsSequence(SubSeq(s, m, n)) /\ Len(SubSeq(s, m, n)) = n - m + 1
           /\ \A i \in 1..(n - m + 1) : SubSeq(s, m, n)[i] = s[m + i - 1]
<1> DEFINE A == {s[i] : i \in DOMAIN s}
<1>1. s \in Seq(A)
  BY DEF IsSequence
<1> HIDE DEF A
<1>2. /\ SubSeq(s, m, n) \in Seq(A) /\ Len(SubSeq(s, m, n)) = n - m + 1
      /\ \A i \in 1..(n - m + 1) : SubSeq(s, m, n)[i] = s[m + i - 1]
  BY <1>1
<1> QED BY <1>2, SequenceOf

(* The same from the first element.                                        *)
LEMMA PrefixOf ==
    ASSUME NEW s, IsSequence(s), NEW n \in Nat, n <= Len(s)
    PROVE  /\ IsSequence(SubSeq(s, 1, n)) /\ Len(SubSeq(s, 1, n)) = n
           /\ \A i \in 1..n : SubSeq(s, 1, n)[i] = s[i]
<1> DEFINE part == SubSeq(s, 1, n)
<1>1. 1 \in Nat \ {0} /\ 1 <= n + 1
  OBVIOUS
<1>2. /\ IsSequence(part) /\ Len(part) = n - 1 + 1
      /\ \A i \in 1..(n - 1 + 1) : part[i] = s[1 + i - 1]
  BY <1>1, PartOf
<1> HIDE DEF part
<1>3. n - 1 + 1 = n /\ \A i \in 1..n : 1 + i - 1 = i
  OBVIOUS
<1>4. IsSequence(part) /\ Len(part) = n /\ \A i \in 1..n : part[i] = s[i]
  BY <1>2, <1>3
<1> QED BY <1>4 DEF part

--------------------------------------------------------------------------------
(* The links of a dashboard                                                *)

Root == Len(ProjectRoot)

LEMMA RootPath == IsSequence(ProjectRoot) /\ Root \in Nat
BY PhysicalAssumption, SequenceOf DEF Root

(* The directory of the dashboard is three parts below the repository's.   *)
LEMMA PageFields ==
    /\ IsSequence(Front(DashboardPath)) /\ Len(Front(DashboardPath)) = Root + 3
    /\ \A i \in 1..Root : Front(DashboardPath)[i] = ProjectRoot[i]
    /\ Front(DashboardPath)[Root + 1] = "data"
    /\ Front(DashboardPath)[Root + 2] = "runs"
    /\ Front(DashboardPath)[Root + 3] = LogTask
<1> DEFINE tail == <<"data", "runs", LogTask, "dashboard.html">>
           page == ProjectRoot \o tail
           parts == SubSeq(page, 1, Root + 3)
<1>1. /\ IsSequence(tail) /\ Len(tail) = 4
      /\ tail[1] = "data" /\ tail[2] = "runs" /\ tail[3] = LogTask
  BY FourElements
<1> HIDE DEF tail
<1>2. /\ IsSequence(page) /\ Len(page) = Root + 4 /\ Root \in Nat
      /\ \A i \in 1..Root : page[i] = ProjectRoot[i]
      /\ \A i \in 1..4 : page[Root + i] = tail[i]
  <2>1. Joins(page, ProjectRoot, tail)
    BY <1>1, RootPath, JoinedAs
  <2> HIDE DEF page
  <2> QED BY <1>1, <2>1, RootPath DEF Joins, Root
<1>3. DashboardPath = page
  BY DEF DashboardPath, tail
<1> HIDE DEF page
<1>4. /\ IsSequence(parts) /\ Len(parts) = Root + 3
      /\ \A i \in 1..(Root + 3) : parts[i] = page[i]
  <2>1. 1 \in Nat \ {0} /\ Root + 3 \in Nat /\ 1 <= Root + 3 + 1 /\ Root + 3 <= Len(page)
    BY <1>2
  <2>2. /\ IsSequence(parts) /\ Len(parts) = Root + 3 - 1 + 1
        /\ \A i \in 1..(Root + 3 - 1 + 1) : parts[i] = page[1 + i - 1]
    BY <1>2, <2>1, PartOf
  <2> HIDE DEF parts
  <2>3. Root + 3 - 1 + 1 = Root + 3 /\ \A i \in 1..(Root + 3) : 1 + i - 1 = i
    BY <1>2
  <2> QED BY <2>2, <2>3
<1>5. Front(DashboardPath) = parts
  BY <1>2, <1>3 DEF Front
<1> HIDE DEF parts
<1>6. page[Root + 1] = "data" /\ page[Root + 2] = "runs" /\ page[Root + 3] = LogTask
  BY <1>1, <1>2
<1>7. /\ Root + 1 \in 1..(Root + 3) /\ Root + 2 \in 1..(Root + 3) /\ Root + 3 \in 1..(Root + 3)
      /\ \A i \in 1..Root : i \in 1..(Root + 3)
  BY <1>2
<1> QED BY <1>2, <1>4, <1>5, <1>6, <1>7

(* A picture lies four parts below it.                                     *)
LEMMA EvidenceFields ==
    ASSUME NEW v
    PROVE  /\ IsSequence(EvidencePath(LogTask, v)) /\ Len(EvidencePath(LogTask, v)) = 4
           /\ EvidencePath(LogTask, v)[1] = "data" /\ EvidencePath(LogTask, v)[2] = "evidence"
           /\ EvidencePath(LogTask, v)[3] = LogTask /\ EvidencePath(LogTask, v)[4] = v
<1> DEFINE a == <<"data", "evidence">>
           b == <<LogTask, v>>
<1>1. IsSequence(a) /\ Len(a) = 2 /\ a[1] = "data" /\ a[2] = "evidence"
  BY TwoElements
<1>2. IsSequence(b) /\ Len(b) = 2 /\ b[1] = LogTask /\ b[2] = v
  BY TwoElements
<1>3. EvidencePath(LogTask, v) = a \o b
  BY DEF EvidencePath, EvidenceRoot
<1> HIDE DEF a, b
<1> DEFINE ab == a \o b
<1>4. Joins(ab, a, b)
  BY <1>1, <1>2, JoinedAs
<1> HIDE DEF ab
<1>5. /\ IsSequence(ab) /\ Len(ab) = 4
      /\ ab[1] = a[1] /\ ab[2] = a[2] /\ ab[2 + 1] = b[1] /\ ab[2 + 2] = b[2]
  BY <1>1, <1>2, <1>4 DEF Joins
<1> QED BY <1>1, <1>2, <1>3, <1>5 DEF ab

LEMMA PictureFields ==
    ASSUME NEW v
    PROVE  LET path == ProjectRoot \o EvidencePath(LogTask, v)
           IN  /\ IsSequence(path) /\ Len(path) = Root + 4
               /\ \A i \in 1..Root : path[i] = ProjectRoot[i]
               /\ path[Root + 1] = "data" /\ path[Root + 2] = "evidence"
               /\ path[Root + 3] = LogTask /\ path[Root + 4] = v
<1> DEFINE rel == EvidencePath(LogTask, v)
           path == ProjectRoot \o rel
<1>1. /\ IsSequence(rel) /\ Len(rel) = 4
      /\ rel[1] = "data" /\ rel[2] = "evidence" /\ rel[3] = LogTask /\ rel[4] = v
  BY EvidenceFields
<1> HIDE DEF rel
<1>2. /\ IsSequence(path) /\ Len(path) = Root + 4 /\ Root \in Nat
      /\ \A i \in 1..Root : path[i] = ProjectRoot[i]
      /\ \A i \in 1..4 : path[Root + i] = rel[i]
  <2>1. Joins(path, ProjectRoot, rel)
    BY <1>1, RootPath, JoinedAs
  <2> HIDE DEF path
  <2> QED BY <1>1, <2>1, RootPath DEF Joins, Root
<1> HIDE DEF path
<1> QED BY <1>1, <1>2 DEF rel, path

(* The innermost data directory is that of the repository.                 *)
LEMMA RootOfPage == DashboardRoot(DashboardPath) = ProjectRoot
<1> DEFINE parts == Front(DashboardPath)
           data == {i \in DOMAIN parts : parts[i] = "data"}
           root == SubSeq(parts, 1, Root)
<1>1. /\ Root \in Nat /\ IsSequence(parts) /\ Len(parts) = Root + 3 /\ DOMAIN parts = 1..(Root + 3)
      /\ \A i \in 1..Root : parts[i] = ProjectRoot[i]
      /\ parts[Root + 1] = "data" /\ parts[Root + 2] = "runs" /\ parts[Root + 3] # "data"
  BY PageFields, RootPath, SequenceFields, PhysicalAssumption
<1>2. DashboardRoot(DashboardPath)
        = IF data = {} THEN parts ELSE SubSeq(parts, 1, Max(data) - 1)
  BY DEF DashboardRoot
<1> HIDE DEF parts
<1>3. Root + 1 \in data /\ \A i \in data : i \in Int /\ i <= Root + 1
  <2>1. ASSUME NEW i \in data PROVE i \in Int /\ i <= Root + 1
    <3>1. i \in 1..(Root + 3) /\ i # Root + 2 /\ i # Root + 3
      BY <1>1
    <3> QED BY <1>1, <3>1
  <2>2. Root + 1 \in 1..(Root + 3)
    BY <1>1
  <2> QED BY <1>1, <2>1, <2>2
<1> HIDE DEF data
<1>4. Max(data) = Root + 1
  BY <1>1, <1>3 DEF Max
<1>5. root = ProjectRoot
  <2>1. /\ IsSequence(root) /\ Len(root) = Root - 1 + 1
        /\ \A i \in 1..(Root - 1 + 1) : root[i] = parts[1 + i - 1]
    BY <1>1, PartOf
  <2> HIDE DEF root
  <2>2. Len(root) = Root /\ \A i \in 1..Root : root[i] = ProjectRoot[i]
    BY <1>1, <2>1
  <2> QED BY <2>1, <2>2, RootPath, SamePath DEF Root
<1>6. SubSeq(parts, 1, Max(data) - 1) = root
  BY <1>1, <1>4
<1> QED BY <1>2, <1>3, <1>5, <1>6

(* What a link leads to: two parts up from the page, and down again.       *)
LEMMA LinkReaches ==
    ASSUME NEW v, v # ".."
    PROVE  /\ SafeEvidencePath(EvidencePath(LogTask, v))
           /\ Followed(RelativeHref(EvidencePath(LogTask, v), DashboardPath), DashboardPath)
                = ProjectRoot \o EvidencePath(LogTask, v)
<1> DEFINE rel == EvidencePath(LogTask, v)
           path == ProjectRoot \o rel
           base == Front(DashboardPath)
           shared == {n \in 0..Min({Len(path), Len(base)}) : SubSeq(path, 1, n) = SubSeq(base, 1, n)}
           ups == [i \in 1..(Len(base) - Max(shared)) |-> ".."]
           down == SubSeq(path, Max(shared) + 1, Len(path))
           href == ups \o down
<1>1. /\ Root \in Nat /\ IsSequence(path) /\ Len(path) = Root + 4
      /\ \A i \in 1..Root : path[i] = ProjectRoot[i]
      /\ path[Root + 1] = "data" /\ path[Root + 2] = "evidence"
      /\ path[Root + 3] = LogTask /\ path[Root + 4] = v
  BY PictureFields, RootPath
<1>2. /\ IsSequence(base) /\ Len(base) = Root + 3
      /\ \A i \in 1..Root : base[i] = ProjectRoot[i]
      /\ base[Root + 1] = "data" /\ base[Root + 2] = "runs"
  BY PageFields
<1>3. SafeEvidencePath(rel)
  <2> DEFINE root == <<"data", "evidence">>
  <2>1. /\ IsSequence(rel) /\ Len(rel) = 4 /\ DOMAIN rel = 1..4
        /\ rel[1] = "data" /\ rel[2] = "evidence" /\ rel[3] = LogTask /\ rel[4] = v
    BY EvidenceFields, SequenceFields
  <2>2. IsSequence(root) /\ Len(root) = 2 /\ root[1] = "data" /\ root[2] = "evidence"
    BY TwoElements
  <2> HIDE DEF rel, root
  <2>3. \A i \in DOMAIN rel : rel[i] # ".."
    <3>1. \A i \in 1..4 : i = 1 \/ i = 2 \/ i = 3 \/ i = 4
      OBVIOUS
    <3> QED BY <2>1, <3>1, PhysicalAssumption
  <2>4. SubSeq(root, 1, 2) = SubSeq(rel, 1, 2)
    <3>1. ASSUME NEW s, IsSequence(s), Len(s) \in {2, 4}
          PROVE  /\ IsSequence(SubSeq(s, 1, 2)) /\ Len(SubSeq(s, 1, 2)) = 2
                 /\ \A i \in 1..2 : SubSeq(s, 1, 2)[i] = s[i]
      <4>1. 2 \in Nat /\ 2 <= Len(s)
        BY <3>1
      <4> QED BY <3>1, <4>1, PrefixOf
    <3>2. \A i \in 1..2 : root[i] = rel[i]
      <4>1. \A i \in 1..2 : i = 1 \/ i = 2
        OBVIOUS
      <4> QED BY <2>1, <2>2, <4>1
    <3> QED BY <2>1, <2>2, <3>1, <3>2, SamePath
  <2>5. EvidenceRoot = root
    BY DEF EvidenceRoot, root
  <2>6. IsPrefix(root, rel)
    BY <2>1, <2>2, <2>4 DEF IsPrefix
  <2> QED BY <2>3, <2>5, <2>6 DEF SafeEvidencePath
<1>4. RelativeHref(rel, DashboardPath) = href
  <2>1. RelativeHref(rel, DashboardPath) = RelativePath(path, base)
    BY RootOfPage DEF RelativeHref
  <2> HIDE DEF path, base
  <2> QED BY <2>1 DEF RelativePath
<1> HIDE DEF rel, path, base
<1>5. Max(shared) = Root + 1
  <2>1. Min({Len(path), Len(base)}) = Root + 3
    BY <1>1, <1>2 DEF Min
  <2>2. Root + 1 \in shared
    <3>1. /\ IsSequence(SubSeq(path, 1, Root + 1)) /\ Len(SubSeq(path, 1, Root + 1)) = Root + 1 - 1 + 1
          /\ \A i \in 1..(Root + 1 - 1 + 1) : SubSeq(path, 1, Root + 1)[i] = path[1 + i - 1]
      BY <1>1, PartOf
    <3>2. /\ IsSequence(SubSeq(base, 1, Root + 1)) /\ Len(SubSeq(base, 1, Root + 1)) = Root + 1 - 1 + 1
          /\ \A i \in 1..(Root + 1 - 1 + 1) : SubSeq(base, 1, Root + 1)[i] = base[1 + i - 1]
      BY <1>1, <1>2, PartOf
    <3>3. \A i \in 1..(Root + 1 - 1 + 1) : path[1 + i - 1] = base[1 + i - 1]
      <4>1. \A i \in 1..(Root + 1 - 1 + 1) : 1 + i - 1 = i /\ (i \in 1..Root \/ i = Root + 1)
        BY <1>1
      <4> QED BY <1>1, <1>2, <4>1
    <3>4. SubSeq(path, 1, Root + 1) = SubSeq(base, 1, Root + 1)
      BY <3>1, <3>2, <3>3, SamePath
    <3> QED BY <1>1, <2>1, <3>4
  <2>3. ASSUME NEW n \in shared PROVE n <= Root + 1
    <3>1. n \in 0..(Root + 3) /\ SubSeq(path, 1, n) = SubSeq(base, 1, n)
      BY <2>1
    <3>2. ASSUME n >= Root + 2 PROVE FALSE
      <4>1. SubSeq(path, 1, n)[Root + 2] = path[1 + (Root + 2) - 1]
        BY <1>1, <3>1, <3>2, PartOf
      <4>2. SubSeq(base, 1, n)[Root + 2] = base[1 + (Root + 2) - 1]
        BY <1>1, <1>2, <3>1, <3>2, PartOf
      <4>3. 1 + (Root + 2) - 1 = Root + 2
        BY <1>1
      <4> QED BY <1>1, <1>2, <3>1, <4>1, <4>2, <4>3
    <3> QED BY <1>1, <3>1, <3>2
  <2>4. \A n \in shared : n \in Int
    OBVIOUS
  <2> HIDE DEF shared
  <2> QED BY <1>1, <2>2, <2>3, <2>4 DEF Max
<1> HIDE DEF shared
<1>6. /\ IsSequence(ups) /\ Len(ups) = 2 /\ ups[1] = ".." /\ ups[2] = ".."
  <2>1. Len(base) - Max(shared) = 2
    BY <1>1, <1>2, <1>5
  <2>2. ups = [i \in 1..2 |-> ".."]
    BY <2>1
  <2> HIDE DEF ups
  <2>3. ups \in Seq({".."}) /\ Len(ups) = 2 /\ ups[1] = ".." /\ ups[2] = ".."
    BY <2>2
  <2> QED BY <2>3, SequenceOf
<1>7. /\ IsSequence(down) /\ Len(down) = 3
      /\ down[1] = "evidence" /\ down[2] = LogTask /\ down[3] = v
  <2>1. down = SubSeq(path, Root + 2, Root + 4)
    BY <1>1, <1>5
  <2> HIDE DEF down
  <2>2. /\ IsSequence(down) /\ Len(down) = Root + 4 - (Root + 2) + 1
        /\ \A i \in 1..(Root + 4 - (Root + 2) + 1) : down[i] = path[Root + 2 + i - 1]
    BY <1>1, <2>1, PartOf
  <2>3. Len(down) = 3 /\ \A i \in 1..3 : down[i] = path[Root + 2 + i - 1]
    BY <1>1, <2>2
  <2>4. down[1] = path[Root + 2] /\ down[2] = path[Root + 3] /\ down[3] = path[Root + 4]
    <3>1. Root + 2 + 1 - 1 = Root + 2 /\ Root + 2 + 2 - 1 = Root + 3 /\ Root + 2 + 3 - 1 = Root + 4
      BY <1>1
    <3> QED BY <2>3, <3>1
  <2> QED BY <1>1, <2>2, <2>3, <2>4
<1> HIDE DEF ups, down
<1>8. /\ IsSequence(href) /\ Len(href) = 5 /\ href[1] = ".." /\ href[2] = ".."
      /\ href[3] = "evidence" /\ href[4] = LogTask /\ href[5] = v
  <2>1. Joins(href, ups, down)
    BY <1>6, <1>7, JoinedAs
  <2> HIDE DEF href
  <2>2. /\ IsSequence(href) /\ Len(href) = 5
        /\ href[1] = ups[1] /\ href[2] = ups[2]
        /\ href[2 + 1] = down[1] /\ href[2 + 2] = down[2] /\ href[2 + 3] = down[3]
    BY <1>6, <1>7, <2>1 DEF Joins
  <2> QED BY <1>6, <1>7, <2>2
<1> HIDE DEF href
<1>9. Cardinality({i \in DOMAIN href : href[i] = ".."}) = 2
  <2>1. DOMAIN href = 1..5
    BY <1>8, SequenceFields
  <2>2. {i \in DOMAIN href : href[i] = ".."} = 1..2
    <3>1. \A i \in 1..5 : i \in 1..2 \/ i = 3 \/ i = 4 \/ i = 5
      OBVIOUS
    <3>2. \A i \in 1..2 : (i = 1 \/ i = 2) /\ i \in 1..5
      OBVIOUS
    <3>3. LogTask # ".." /\ "evidence" # ".."
      BY PhysicalAssumption
    <3>4. 3 \notin 1..2 /\ 4 \notin 1..2 /\ 5 \notin 1..2
      OBVIOUS
    <3>5. \A i \in 1..2 : href[i] = ".."
      BY <1>8, <3>2
    <3>6. \A i \in 1..5 : href[i] = ".." => i \in 1..2
      BY <1>8, <3>1, <3>3
    <3> DEFINE D == {i \in DOMAIN href : href[i] = ".."}
    <3>7. \A i : i \in D <=> i \in 1..2
      BY <2>1, <3>2, <3>5, <3>6
    <3> HIDE DEF D
    <3>8. D = 1..2
      BY <3>7
    <3> QED BY <3>8 DEF D
  <2>3. Cardinality(1..2) = IF 1 > 2 THEN 0 ELSE 2 - 1 + 1
    <3>1. 1 \in Int /\ 2 \in Int
      OBVIOUS
    <3> QED BY <3>1, FS_Interval, Zenon
  <2>4. Cardinality(1..2) = 2
    BY <2>3
  <2> QED BY <2>2, <2>4
<1> DEFINE up == SubSeq(base, 1, Len(base) - 2)
           rest == SubSeq(href, 3, Len(href))
           place == up \o rest
<1>10. Followed(href, DashboardPath) = place
  <2> DEFINE n == Cardinality({i \in DOMAIN href : href[i] = ".."})
  <2>1. Followed(href, DashboardPath) = SubSeq(base, 1, Len(base) - n) \o SubSeq(href, n + 1, Len(href))
    BY DEF Followed, base
  <2> HIDE DEF n
  <2>2. n = 2 /\ n + 1 = 3
    BY <1>9 DEF n
  <2> QED BY <2>1, <2>2
<1>11. /\ IsSequence(up) /\ Len(up) = Root + 1
       /\ \A i \in 1..Root : up[i] = ProjectRoot[i]
       /\ up[Root + 1] = "data"
  <2>1. up = SubSeq(base, 1, Root + 1)
    BY <1>1, <1>2
  <2> HIDE DEF up
  <2>2. /\ IsSequence(up) /\ Len(up) = Root + 1 - 1 + 1
        /\ \A i \in 1..(Root + 1 - 1 + 1) : up[i] = base[1 + i - 1]
    BY <1>1, <1>2, <2>1, PartOf
  <2>3. Root + 1 - 1 + 1 = Root + 1 /\ \A i \in 1..(Root + 1) : 1 + i - 1 = i
    BY <1>1
  <2> QED BY <1>1, <1>2, <2>2, <2>3
<1>12. /\ IsSequence(rest) /\ Len(rest) = 3
       /\ rest[1] = "evidence" /\ rest[2] = LogTask /\ rest[3] = v
  <2>1. rest = SubSeq(href, 3, 5)
    BY <1>8
  <2> HIDE DEF rest
  <2>2. ASSUME NEW m \in Nat \ {0}, NEW n \in Nat, m = 3, n = 5
        PROVE  /\ IsSequence(SubSeq(href, m, n)) /\ Len(SubSeq(href, m, n)) = n - m + 1
               /\ \A i \in 1..(n - m + 1) : SubSeq(href, m, n)[i] = href[m + i - 1]
    <3>1. m <= n + 1 /\ n <= Len(href) /\ IsSequence(href)
      BY <1>8, <2>2
    <3> QED BY <3>1, PartOf
  <2>3. /\ IsSequence(rest) /\ Len(rest) = 5 - 3 + 1
        /\ \A i \in 1..(5 - 3 + 1) : rest[i] = href[3 + i - 1]
    BY <2>1, <2>2
  <2>4. Len(rest) = 3 /\ rest[1] = href[3] /\ rest[2] = href[4] /\ rest[3] = href[5]
    BY <2>3
  <2> QED BY <1>8, <2>3, <2>4
<1> HIDE DEF up, rest
<1>13. place = path
  <2>1. Joins(place, up, rest)
    BY <1>11, <1>12, JoinedAs
  <2> HIDE DEF place
  <2>2. IsSequence(place) /\ Len(place) = Root + 4
    BY <1>1, <1>11, <1>12, <2>1 DEF Joins
  <2>3. \A i \in 1..Root : place[i] = path[i]
    BY <1>1, <1>11, <2>1 DEF Joins
  <2>4. place[Root + 1] = "data"
    BY <1>1, <1>11, <2>1 DEF Joins
  <2>5. /\ place[Root + 2] = "evidence" /\ place[Root + 3] = LogTask /\ place[Root + 4] = v
    <3>1. \A i \in 1..3 : place[Root + 1 + i] = rest[i]
      BY <1>11, <1>12, <2>1 DEF Joins
    <3>2. Root + 1 + 1 = Root + 2 /\ Root + 1 + 2 = Root + 3 /\ Root + 1 + 3 = Root + 4
      BY <1>1
    <3> QED BY <1>12, <3>1, <3>2
  <2>6. \A i \in 1..(Root + 4) :
          i \in 1..Root \/ i = Root + 1 \/ i = Root + 2 \/ i = Root + 3 \/ i = Root + 4
    BY <1>1
  <2>7. \A i \in 1..(Root + 4) : place[i] = path[i]
    BY <1>1, <2>3, <2>4, <2>5, <2>6
  <2> QED BY <1>1, <2>2, <2>7, SamePath
<1> QED BY <1>3, <1>4, <1>10, <1>13 DEF rel, path

(* The pictures of a file's run, or of a later one.                        *)
Shown(f) ==
    f.run # 0 =>
        /\ Includes(f.log, "object.found") => f.run <= raw /\ f.run <= annotated
        /\ Includes(f.log, "object.not_found") => f.run <= raw

LEMMA ShownKept ==
    ASSUME DemoInv, Shown(replay), Shown(dashboard), [PhysicalNext]_vars
    PROVE  Shown(replay)' /\ Shown(dashboard)'
<1>1. /\ run \in Nat /\ raw \in Nat /\ annotated \in Nat /\ raw <= run /\ annotated <= run
      /\ replay.run # 0 => replay.run \in Nat /\ replay.run <= run
      /\ dashboard.run # 0 => dashboard.run \in Nat /\ dashboard.run <= run
  BY DemoFacts DEF DemoInv, FileInv, Tells
<1>2. Torn.run = 0
  BY TornFile
<1>3. CASE UNCHANGED <<raw, annotated, replay, dashboard>>
  BY <1>3 DEF Shown
<1>4. CASE WriteRaw
  <2>1. raw' = run /\ UNCHANGED <<annotated, replay, dashboard>>
    BY <1>4 DEF WriteRaw, DemoInv, PictureInv
  <2> QED BY <1>1, <2>1 DEF Shown
<1>5. CASE DetectMarker
  <2>1. annotated' = run /\ UNCHANGED <<raw, replay, dashboard>>
    BY <1>5 DEF DetectMarker, DemoInv, PictureInv
  <2> QED BY <1>1, <2>1 DEF Shown
<1>6. CASE OpenReplay
  <2>1. replay' = Torn /\ UNCHANGED <<raw, annotated, dashboard>>
    BY <1>6 DEF OpenReplay, pictures
  <2> QED BY <1>2, <2>1 DEF Shown
<1>7. CASE WriteReplay
  <2>1. /\ replay' = Written(run, events) /\ UNCHANGED <<raw, annotated, dashboard>>
        /\ Pictured(events)
    BY <1>7 DEF WriteReplay, pictures, DemoInv, PictureInv, Writing
  <2>2. replay'.run = run /\ replay'.log = events
    BY <2>1 DEF Written
  <2> QED BY <1>1, <2>1, <2>2 DEF Shown, Pictured
<1>8. CASE OpenDashboard
  <2>1. dashboard' = Torn /\ UNCHANGED <<raw, annotated, replay>>
    BY <1>8 DEF OpenDashboard, pictures
  <2> QED BY <1>2, <2>1 DEF Shown
<1>9. CASE FlushDashboard
  <2>1. /\ dashboard' = [replay EXCEPT !.extent = "part"] /\ replay = Written(run, events)
        /\ UNCHANGED <<raw, annotated, replay>>
    BY <1>9 DEF FlushDashboard, pictures, DemoInv, FileInv
  <2>2. dashboard'.run = replay.run /\ dashboard'.log = replay.log
    BY <2>1 DEF Written
  <2> QED BY <2>1, <2>2 DEF Shown
<1>10. CASE WriteDashboard
  BY <1>10 DEF WriteDashboard, pictures, Shown
<1> QED BY <1>3, <1>4, <1>5, <1>6, <1>7, <1>8, <1>9, <1>10
    DEF PhysicalNext, BeginDisabled, Begin, CaptureFrame, DetectNothing, ProbeOtherwise,
        Confirm, Decline, BreakOff, files, vars

(* For any place of the repository and any number of runs, whole or broken *)
(* off, the links of the dashboard lead to the pictures of the events that *)
(* it shows, and those are not older than the run that it shows.           *)
THEOREM LinksLeadToEvidence == PhysicalSpec => []LinksReachEvidence
<1>1. PhysicalInit => Shown(replay) /\ Shown(dashboard)
  BY DEF PhysicalInit, Absent, Shown
<1>2. DemoInv /\ (Shown(replay) /\ Shown(dashboard)) /\ [PhysicalNext]_vars
        => (Shown(replay) /\ Shown(dashboard))'
  BY ShownKept
<1>3. DemoInv /\ (Shown(replay) /\ Shown(dashboard)) => LinksReachEvidence
  <2> DEFINE e(i) == dashboard.log[i]
             Picture(v) == EvidencePath(LogTask, v)
  <2> SUFFICES ASSUME DemoInv, Shown(dashboard), NEW i \in DOMAIN dashboard.log
               PROVE  /\ {Followed(href, DashboardPath) : href \in EvidenceLinks(e(i), DashboardPath)}
                           = {ProjectRoot \o path : path \in EvidenceRefs(e(i))}
                      /\ Picture("raw") \in EvidenceRefs(e(i)) => dashboard.run <= raw
                      /\ Picture("annotated") \in EvidenceRefs(e(i)) => dashboard.run <= annotated
    BY DEF LinksReachEvidence
  <2>1. dashboard.run # 0
    <3>1. dashboard.run = 0 => dashboard.log = <<>>
      BY DEF DemoInv, PhysicalTypeOK, TextFile
    <3> QED BY <3>1
  <2>2. e(i).task = LogTask
    <3>1. Valid(dashboard.log)
      BY <2>1, StoryOutcome DEF DemoInv, FileInv, Tells
    <3> QED BY <3>1 DEF Valid
  <2>3. /\ e(i).type = "object.found" => dashboard.run <= raw /\ dashboard.run <= annotated
        /\ e(i).type = "object.not_found" => dashboard.run <= raw
    BY <2>1 DEF Shown, Includes
  <2> HIDE DEF e, Picture
  <2>4. /\ e(i).type = "object.found" => EvidenceRefs(e(i)) = {Picture("raw"), Picture("annotated")}
        /\ e(i).type = "object.not_found" => EvidenceRefs(e(i)) = {Picture("raw")}
        /\ e(i).type \notin {"object.found", "object.not_found"} => EvidenceRefs(e(i)) = {}
    BY <2>2 DEF EvidenceRefs, Picture
  <2>5. Picture("raw")[4] = "raw" /\ Picture("annotated")[4] = "annotated"
    BY EvidenceFields DEF Picture
  <2>6. \A p \in EvidenceRefs(e(i)) :
          /\ SafeEvidencePath(p)
          /\ Followed(RelativeHref(p, DashboardPath), DashboardPath) = ProjectRoot \o p
    <3>1. \A v \in {"raw", "annotated"} :
            /\ SafeEvidencePath(Picture(v))
            /\ Followed(RelativeHref(Picture(v), DashboardPath), DashboardPath)
                 = ProjectRoot \o Picture(v)
      BY LinkReaches DEF Picture
    <3> QED BY <2>4, <3>1
  <2>7. {Followed(href, DashboardPath) : href \in EvidenceLinks(e(i), DashboardPath)}
          = {ProjectRoot \o path : path \in EvidenceRefs(e(i))}
    <3>1. EvidenceLinks(e(i), DashboardPath)
            = {RelativeHref(path, DashboardPath) : path \in EvidenceRefs(e(i))}
      BY <2>6 DEF EvidenceLinks
    <3> QED BY <2>6, <3>1
  <2> QED BY <2>3, <2>4, <2>5, <2>7
<1> QED BY <1>1, <1>2, <1>3, DemoInvHolds, PTL DEF PhysicalSpec
================================================================================
