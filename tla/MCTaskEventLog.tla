--------------------------- MODULE MCTaskEventLog ---------------------------
(* A log of one task among two, and enough numbers for a stale event, a    *)
(* gap, and something after the end.                                       *)
EXTENDS TaskEventLog

MCEventType == {"task.created", "object.found", "object.not_found"} \cup TerminalEventTypes

Logs == UNION {[1..n -> Event] : n \in 0..1} \cup {Refused}

(* Emitting is appending one by one.                                       *)
ASSUME EmittedIsRepeatedAppend ==
    \A log \in Logs, types \in UNION {[1..n -> MCEventType] : n \in 0..3} :
        Emitted(log, types) =
            FoldLeft(LAMBDA l, t : Appended(l, NewEvent(l, t, NoCode)), log, types)
================================================================================
