-------------------------- MODULE TaskEventLogProofs --------------------------
(***************************************************************************)
(* Proofs about TaskEventLog, for any tasks, event types and numbers.      *)
(* append compares with the last event only; that this numbers an event    *)
(* above all the others is what the strengthening Ordered carries.         *)
(***************************************************************************)
EXTENDS TaskEventLog, EventLogProofs

Ordered ==
    /\ \A i \in DOMAIN events : events[i].sequence >= i
    /\ \A i, j \in DOMAIN events : i < j => events[i].sequence < events[j].sequence

LogInv == events \in Seq(Event) /\ Valid(events) /\ Ordered

--------------------------------------------------------------------------------
(* The numbers and types that events carry.                                *)
LEMMA EventFields ==
    ASSUME NEW e \in Event
    PROVE  /\ e.sequence \in 1..MaxSequence
           /\ e.sequence \in Nat /\ e.sequence >= 1
           /\ e.type \in EventType
  BY LogAssumption DEF Event

--------------------------------------------------------------------------------
(* What append has checked of the event, as facts about the grown log.     *)
LEMMA AppendKeepsInv ==
    ASSUME LogInv, NEW e \in Event, AppendEvent(e)
    PROVE  LogInv'
<1> USE LogAssumption
<1> DEFINE n == Len(events)
<1>1. events \in Seq(Event) /\ n \in Nat /\ DOMAIN events = 1..n
  BY DEF LogInv
<1>2. /\ e.task = LogTask /\ e.sequence \in Nat /\ e.sequence >= 1
      /\ e.sequence > LastSequence(events)
      /\ \A i \in 1..n : events[i].type \notin TerminalEventTypes
  <2>1. /\ e.task = LogTask /\ TerminalEventType(events) = "none"
        /\ e.sequence > LastSequence(events)
    BY DEF AppendEvent, Accepts
  <2>2. \A i \in 1..n : events[i].type \notin TerminalEventTypes
    BY <1>1, <2>1, NoTerminalYet DEF LogInv
  <2> QED
    BY <2>1, <2>2, EventFields
<1>3. /\ events' \in Seq(Event) /\ DOMAIN events' = 1..(n + 1)
      /\ \A i \in 1..n : events'[i] = events[i]
      /\ events'[n + 1] = e
  BY <1>1 DEF AppendEvent
<1>4. \A i \in 1..n : events[i].sequence \in Nat
  <2>1. \A i \in 1..n : events[i] \in Event
    BY <1>1
  <2> QED
    BY <2>1, EventFields
<1>5. n # 0 => e.sequence > events[n].sequence
  BY <1>1, <1>2 DEF LastSequence
<1>6. \A i \in 1..n : events[i].sequence < e.sequence
  BY <1>1, <1>2, <1>4, <1>5 DEF LogInv, Ordered
<1>7. Valid(events)'
  <2>1. ASSUME NEW i \in 1..(n + 1)
        PROVE  /\ events'[i].task = LogTask
               /\ events'[i].sequence > (IF i = 1 THEN 0 ELSE events'[i - 1].sequence)
               /\ \A j \in 1..(i - 1) : events'[j].type \notin TerminalEventTypes
    <3>1. CASE i \in 1..n
      <4>1. i # 1 => i - 1 \in 1..n
        BY <1>1, <3>1
      <4>2. \A j \in 1..(i - 1) : j \in 1..n
        BY <1>1, <3>1
      <4> QED
        BY <1>1, <1>3, <3>1, <4>1, <4>2 DEF LogInv, Valid
    <3>2. CASE i = n + 1
      <4>1. n # 0 => i # 1 /\ i - 1 = n /\ n \in 1..n
        BY <1>1, <3>2
      <4>2. events'[i].sequence > (IF i = 1 THEN 0 ELSE events'[i - 1].sequence)
        BY <1>1, <1>2, <1>3, <1>5, <3>2, <4>1
      <4> QED
        BY <1>1, <1>2, <1>3, <3>2, <4>2
    <3> QED
      BY <1>1, <3>1, <3>2
  <2> QED
    BY <1>3, <2>1 DEF Valid
<1>8. Ordered'
  <2>1. \A i \in 1..(n + 1) : events'[i].sequence >= i
    <3>1. n # 0 => e.sequence >= n + 1
      BY <1>1, <1>2, <1>4, <1>5 DEF LogInv, Ordered
    <3>2. e.sequence >= n + 1
      BY <1>1, <1>2, <3>1
    <3> QED
      BY <1>1, <1>3, <3>2 DEF LogInv, Ordered
  <2>2. \A i, j \in 1..(n + 1) : i < j => events'[i].sequence < events'[j].sequence
    BY <1>1, <1>3, <1>6 DEF LogInv, Ordered
  <2> QED
    BY <1>3, <2>1, <2>2 DEF Ordered
<1> QED
  BY <1>3, <1>7, <1>8 DEF LogInv

LEMMA LogInvHolds == LogSpec => []LogInv
<1>1. LogInit => LogInv
  BY DEF LogInit, LogInv, Valid, Ordered
<1>2. LogInv /\ [LogNext]_events => LogInv'
  <2> SUFFICES ASSUME LogInv, [LogNext]_events PROVE LogInv'
    OBVIOUS
  <2>1. ASSUME NEW e \in Event, AppendEvent(e) PROVE LogInv'
    BY <2>1, AppendKeepsInv
  <2>2. CASE UNCHANGED events
    BY <2>2 DEF LogInv, Valid, Ordered
  <2> QED
    BY <2>1, <2>2 DEF LogNext, AppendRaises
<1> QED
  BY <1>1, <1>2, PTL DEF LogSpec

--------------------------------------------------------------------------------
(* Type correctness; no log grows longer than its numbers allow.           *)
THEOREM LogTypeCorrect == LogSpec => []LogTypeOK
<1>1. LogInv => LogTypeOK
  <2> SUFFICES ASSUME LogInv PROVE LogTypeOK
    OBVIOUS
  <2>1. events \in Seq(Event) /\ Len(events) \in Nat /\ DOMAIN events = 1..Len(events)
    BY DEF LogInv
  <2>2. CASE Len(events) = 0
    BY <2>1, <2>2, LogAssumption DEF LogTypeOK
  <2>3. CASE Len(events) # 0
    <3>1. Len(events) \in DOMAIN events
      BY <2>1, <2>3
    <3>2. events[Len(events)].sequence \in 1..MaxSequence
      <4>1. events[Len(events)] \in Event
        BY <2>1, <3>1
      <4> QED
        BY <4>1, EventFields
    <3>3. events[Len(events)].sequence >= Len(events)
      BY <3>1 DEF LogInv, Ordered
    <3> QED
      BY <2>1, <3>2, <3>3, LogAssumption DEF LogTypeOK
  <2> QED
    BY <2>2, <2>3
<1> QED
  BY <1>1, LogInvHolds, PTL

(* validate accepts every log that append has built.                       *)
THEOREM AppendedLogsValidate == LogSpec => []AlwaysValidates
<1>1. LogInv => AlwaysValidates
  BY DEF LogInv, AlwaysValidates
<1> QED
  BY <1>1, LogInvHolds, PTL

--------------------------------------------------------------------------------
(* An append records one fact, above all others, and maybe the outcome.    *)
LEMMA AppendRecords ==
    ASSUME LogInv, NEW e \in Event, AppendEvent(e)
    PROVE  Promise!Record(e.sequence, e.type)
<1> USE LogAssumption
<1> DEFINE n == Len(events)
<1> DEFINE facts == {<<events[i].sequence, events[i].type>> : i \in DOMAIN events}
<1>1. events \in Seq(Event) /\ n \in Nat /\ DOMAIN events = 1..n
  BY DEF LogInv
<1>2. TerminalEventType(events) = "none" /\ e.sequence > LastSequence(events)
  BY DEF AppendEvent, Accepts
<1>3. \A i \in 1..n : events[i].type \notin TerminalEventTypes
  BY <1>1, <1>2, NoTerminalYet DEF LogInv
<1>4. /\ events' \in Seq(Event) /\ DOMAIN events' = 1..(n + 1)
      /\ \A i \in 1..n : events'[i] = events[i]
      /\ events'[n + 1] = e
  BY <1>1 DEF AppendEvent
<1>5. LogInv'
  BY AppendKeepsInv
<1>6. \A fact \in facts : e.sequence > fact[1]
  <2>1. \A i \in 1..n : events'[i].sequence < events'[n + 1].sequence
    BY <1>1, <1>4, <1>5 DEF LogInv, Ordered
  <2>2. \A i \in 1..n : events[i].sequence < e.sequence
    BY <1>4, <2>1
  <2>3. \A i \in 1..n : events[i] \in Event
    BY <1>1
  <2>4. \A i \in 1..n : e.sequence > events[i].sequence
    BY <2>2, <2>3, EventFields
  <2> QED
    BY <1>1, <2>4
<1>7. facts' = facts \cup {<<e.sequence, e.type>>}
  <2>1. DOMAIN events' = DOMAIN events \cup {n + 1}
    BY <1>1, <1>4
  <2>2. n + 1 \notin DOMAIN events
    BY <1>1
  <2> QED
    BY <1>1, <1>4, <2>1, <2>2
<1>8. TerminalEventType(events') = IF e.type \in TerminalEventTypes THEN e.type ELSE "none"
  <2>1. Valid(events')
    BY <1>5 DEF LogInv, Valid
  <2>2. CASE e.type \in TerminalEventTypes
    BY <1>1, <1>4, <2>1, <2>2, ClosedLog
  <2>3. CASE e.type \notin TerminalEventTypes
    <3>1. \A i \in DOMAIN events' : events'[i].type \notin TerminalEventTypes
      BY <1>1, <1>3, <1>4, <2>3
    <3> QED
      BY <2>3, <3>1, OpenLog
  <2> QED
    BY <2>2, <2>3
<1> QED
  BY <1>2, <1>6, <1>7, <1>8 DEF Promise!Record

(* The log keeps its promise to readers: it implements SealedLog.          *)
THEOREM LogIsSealed == LogSpec => ReadersContract
<1>1. LogInit => Promise!Init
  <2> SUFFICES ASSUME LogInit PROVE Promise!Init
    OBVIOUS
  <2>1. events = <<>> /\ DOMAIN events = {}
    BY DEF LogInit
  <2>2. TerminalEventType(events) = "none"
    BY <2>1, OpenLog
  <2> QED
    BY <2>1, <2>2 DEF Promise!Init
<1>2. LogInv /\ [LogNext]_events => [Promise!Next]_(Promise!vars)
  <2> SUFFICES ASSUME LogInv, [LogNext]_events PROVE [Promise!Next]_(Promise!vars)
    OBVIOUS
  <2>1. ASSUME NEW e \in Event, AppendEvent(e) PROVE Promise!Next
    BY <2>1, AppendRecords, EventFields DEF Promise!Next
  <2>2. CASE UNCHANGED events
    BY <2>2 DEF Promise!vars, TerminalEventType
  <2> QED
    BY <2>1, <2>2 DEF LogNext, AppendRaises
<1> QED
  BY <1>1, <1>2, LogInvHolds, PTL DEF LogSpec, ReadersContract, Promise!Spec
================================================================================
