------------------------------ MODULE EventLog ------------------------------
(***************************************************************************)
(* The event log of one task (robot/state_machine.py) as operators on a    *)
(* sequence of envelopes (robot/events.py).  Identifiers, time stamps,     *)
(* sources and payloads are left out of an envelope; the failure code of   *)
(* its error is kept.  What cannot be appended raises ValidationError,     *)
(* which no author of events catches: Refused stands for that.             *)
(***************************************************************************)
EXTENDS Integers, SequencesExt

CONSTANT LogTask    \* the task_id of the log

TerminalEventTypes == {"task.completed", "task.failed"}

NoCode == "none"

(* The outcome of an append that raises: no log, for no event is numbered 0. *)
Refused == <<[task |-> LogTask, sequence |-> 0, type |-> "none", code |-> NoCode]>>

TerminalEventType(log) ==
    LET terminals == {i \in DOMAIN log : log[i].type \in TerminalEventTypes}
        first == CHOOSE i \in terminals : \A j \in terminals : i <= j
    IN  IF terminals = {} THEN "none" ELSE log[first].type

LastSequence(log) == IF log = <<>> THEN 0 ELSE log[Len(log)].sequence

(* The checks of append, all of which must pass.                           *)
Accepts(log, e) ==
    /\ e.task = LogTask
    /\ TerminalEventType(log) = "none"
    /\ e.sequence > LastSequence(log)

Appended(log, e) ==
    IF log # Refused /\ Accepts(log, e) THEN Append(log, e) ELSE Refused

(* validate raises nothing.                                                *)
Valid(log) ==
    \A i \in DOMAIN log :
        /\ log[i].task = LogTask
        /\ log[i].sequence > (IF i = 1 THEN 0 ELSE log[i - 1].sequence)
        /\ \A j \in 1..(i - 1) : log[j].type \notin TerminalEventTypes

--------------------------------------------------------------------------------
(* Authors number their events from the last sequence of the log.          *)

(* Faulty variant of NewEvent: the last sequence is given out again.       *)
NewEventRepeated(log, type, code) ==
    [task |-> LogTask, sequence |-> LastSequence(log), type |-> type, code |-> code]

NewEvent(log, type, code) ==
    [task |-> LogTask, sequence |-> LastSequence(log) + 1, type |-> type, code |-> code]

(* Events of these types are appended one after the other.  All but the    *)
(* last must leave the log open for the next.                              *)
Emitted(log, types) ==
    IF types = <<>> THEN log
    ELSE IF /\ log # Refused
            /\ TerminalEventType(log) = "none"
            /\ \A i \in 1..(Len(types) - 1) : types[i] \notin TerminalEventTypes
    THEN log \o [i \in 1..Len(types) |->
                    [NewEvent(log, types[i], NoCode) EXCEPT !.sequence = @ + i - 1]]
    ELSE Refused

(* The mission is given up: task.failed, with its code.                    *)
FailedWith(log, code) == Appended(log, NewEvent(log, "task.failed", code))

Types(log) == [i \in DOMAIN log |-> log[i].type]

Includes(log, type) == \E i \in DOMAIN log : log[i].type = type
================================================================================
