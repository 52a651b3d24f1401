---------------------------- MODULE TaskEventLog ----------------------------
(***************************************************************************)
(* One TaskEventLog given events by any number of authors, in any order    *)
(* and with any sequence numbers: stale, repeated, of another task, after  *)
(* the end.  An append that raises leaves the log as it was.               *)
(***************************************************************************)
EXTENDS EventLog

CONSTANTS
    Task,           \* the tasks that events may belong to
    EventType,
    MaxSequence     \* bound: the largest sequence number used

ASSUME LogAssumption ==
    /\ LogTask \in Task
    /\ TerminalEventTypes \subseteq EventType /\ "none" \notin EventType
    /\ MaxSequence \in Nat

(* EventEnvelope refuses a sequence below 1.                               *)
Event == [task : Task, sequence : 1..MaxSequence, type : EventType, code : {NoCode}]

VARIABLE events

LogInit == events = <<>>

(* Faulty variant of AppendEvent: the author's numbering is trusted.       *)
AppendUnordered(e) ==
    /\ e.task = LogTask /\ TerminalEventType(events) = "none"
    /\ events' = Append(events, e)

(* Faulty variant of AppendEvent: only the latest event is looked at.      *)
AppendAfterFailure(e) ==
    /\ e.task = LogTask /\ e.sequence > LastSequence(events)
    /\ TerminalEventType(events) # "task.completed"
    /\ events' = Append(events, e)

(* Faulty variant of AppendEvent: any task may write into the log.         *)
AppendForeign(e) ==
    /\ TerminalEventType(events) = "none" /\ e.sequence > LastSequence(events)
    /\ events' = Append(events, e)

AppendEvent(e) ==
    /\ Accepts(events, e)
    /\ events' = Append(events, e)

AppendRaises(e) ==
    /\ ~Accepts(events, e)
    /\ UNCHANGED events

LogNext == \E e \in Event : AppendEvent(e) \/ AppendRaises(e)

LogSpec == LogInit /\ [][LogNext]_events

--------------------------------------------------------------------------------
LogTypeOK == events \in Seq(Event) /\ Len(events) <= MaxSequence

(* A log built by append alone always passes validate, although the one    *)
(* looks for a terminal event in the whole log and at the last sequence    *)
(* only, and the other makes a single pass.                                *)
AlwaysValidates == Valid(events)

(* The log is what its readers take it for: numbered facts, only ever      *)
(* added, closed for good by the first terminal event.                     *)
Promise == INSTANCE SealedLog WITH
    Number <- 1..MaxSequence, Type <- EventType, Outcome <- TerminalEventTypes,
    recorded <- {<<events[i].sequence, events[i].type>> : i \in DOMAIN events},
    outcome <- TerminalEventType(events)

ReadersContract == Promise!Spec
================================================================================
