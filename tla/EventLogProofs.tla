---------------------------- MODULE EventLogProofs ----------------------------
(***************************************************************************)
(* What the operators on event logs return.  The programs number their     *)
(* events 1, 2, 3, ...: such a log is open until it ends with a terminal   *)
(* event, and then it is closed.  Events emitted on an open log keep it so *)
(* or close it, and never meet a refusal.                                  *)
(***************************************************************************)
EXTENDS EventLog, TLAPS

(* terminal_event_type is none of a log without terminal event.            *)
LEMMA OpenLog ==
    ASSUME NEW log
    PROVE  (\A i \in DOMAIN log : log[i].type \notin TerminalEventTypes)
               => TerminalEventType(log) = "none"
  BY Zenon DEF TerminalEventType

(* The type of the terminal event of a valid log, which has only one.      *)
LEMMA ClosedLog ==
    ASSUME NEW S, NEW log \in Seq(S), Valid(log),
           NEW k \in DOMAIN log, log[k].type \in TerminalEventTypes
    PROVE  TerminalEventType(log) = log[k].type
<1> DEFINE terminals == {i \in DOMAIN log : log[i].type \in TerminalEventTypes}
<1> DEFINE first == CHOOSE i \in terminals : \A j \in terminals : i <= j
<1>1. DOMAIN log = 1..Len(log) /\ Len(log) \in Nat
  OBVIOUS
<1>2. \A i, j \in DOMAIN log : j < i => log[j].type \notin TerminalEventTypes
  BY <1>1 DEF Valid
<1>3. terminals = {k}
  BY <1>1, <1>2
<1>4. first = k
  <2>1. \E i \in terminals : \A j \in terminals : i <= j
    BY <1>1, <1>3
  <2>2. first \in terminals
    BY <2>1
  <2> QED
    BY <1>3, <2>2
<1> HIDE DEF first
<1>5. TerminalEventType(log) = log[first].type
  BY <1>3 DEF TerminalEventType, first
<1> QED
  BY <1>4, <1>5

(* A valid log that is open has no terminal event.                         *)
LEMMA NoTerminalYet ==
    ASSUME NEW S, NEW log \in Seq(S), Valid(log), TerminalEventType(log) = "none"
    PROVE  \A i \in DOMAIN log : log[i].type \notin TerminalEventTypes
  BY ClosedLog DEF TerminalEventTypes

--------------------------------------------------------------------------------
(* Logs numbered by the position of their events.                          *)

IsSequence(s) == s \in Seq({s[i] : i \in DOMAIN s})

Envelope(e, n) == e = [task |-> LogTask, sequence |-> n, type |-> e.type, code |-> e.code]

Numbered(log) == IsSequence(log) /\ \A i \in 1..Len(log) : Envelope(log[i], i)

OpenAt(log) == Numbered(log) /\ \A i \in 1..Len(log) : log[i].type \notin TerminalEventTypes

Closed(log) ==
    /\ Numbered(log)
    /\ Len(log) \in Nat \ {0} /\ log[Len(log)].type \in TerminalEventTypes
    /\ \A i \in 1..(Len(log) - 1) : log[i].type \notin TerminalEventTypes

(* Types of events that leave a log open, and that close it.               *)
Harmless(types) ==
    /\ IsSequence(types)
    /\ \A i \in 1..Len(types) : types[i] \notin TerminalEventTypes

Closing(types) ==
    /\ IsSequence(types) /\ Len(types) \in Nat \ {0}
    /\ types[Len(types)] \in TerminalEventTypes
    /\ \A i \in 1..(Len(types) - 1) : types[i] \notin TerminalEventTypes

(* Sequences, whatever set their elements are drawn from.                  *)
LEMMA SequenceOf ==
    ASSUME NEW S, NEW s \in Seq(S)
    PROVE  IsSequence(s) /\ Len(s) \in Nat /\ DOMAIN s = 1..Len(s)
<1>1. Len(s) \in Nat /\ DOMAIN s = 1..Len(s)
  OBVIOUS
<1>2. s = [i \in 1..Len(s) |-> s[i]]
  OBVIOUS
<1> DEFINE T == {s[i] : i \in DOMAIN s}
<1>3. \A i \in 1..Len(s) : s[i] \in T
  BY <1>1
<1> HIDE DEF T
<1>4. s \in [1..Len(s) -> T]
  BY <1>2, <1>3
<1>5. s \in Seq(T)
  BY <1>1, <1>4
<1> QED BY <1>1, <1>5 DEF IsSequence, T

LEMMA SequenceFields ==
    ASSUME NEW s, IsSequence(s)
    PROVE  Len(s) \in Nat /\ DOMAIN s = 1..Len(s)
<1> DEFINE T == {s[i] : i \in DOMAIN s}
<1>1. s \in Seq(T)
  BY DEF IsSequence
<1> HIDE DEF T
<1> QED BY <1>1

LEMMA Widened ==
    ASSUME NEW S, NEW T, S \subseteq T, NEW s \in Seq(S)
    PROVE  s \in Seq(T)
<1>1. Len(s) \in Nat /\ s = [i \in 1..Len(s) |-> s[i]] /\ \A i \in 1..Len(s) : s[i] \in S
  OBVIOUS
<1>2. s \in [1..Len(s) -> T]
  BY <1>1
<1> QED BY <1>1, <1>2

LEMMA Joined ==
    ASSUME NEW s, IsSequence(s), NEW t, IsSequence(t)
    PROVE  /\ IsSequence(s \o t) /\ Len(s \o t) = Len(s) + Len(t)
           /\ \A i \in 1..Len(s) : (s \o t)[i] = s[i]
           /\ \A i \in 1..Len(t) : (s \o t)[Len(s) + i] = t[i]
<1> DEFINE A == {s[i] : i \in DOMAIN s}
           B == {t[i] : i \in DOMAIN t}
           C == A \cup B
<1>1. s \in Seq(A) /\ t \in Seq(B) /\ A \subseteq C /\ B \subseteq C
  BY DEF IsSequence
<1> HIDE DEF A, B, C
<1>2. s \in Seq(C) /\ t \in Seq(C)
  BY <1>1, Widened
<1>3. /\ s \o t \in Seq(C) /\ Len(s \o t) = Len(s) + Len(t)
      /\ \A i \in 1..Len(s) : (s \o t)[i] = s[i]
      /\ \A i \in 1..Len(t) : (s \o t)[Len(s) + i] = t[i]
  BY <1>2
<1>4. IsSequence(s \o t)
  BY <1>3, SequenceOf
<1> QED BY <1>3, <1>4

(* The same for use on sequences that are themselves put together.         *)
Joins(u, s, t) ==
    /\ IsSequence(u) /\ Len(u) = Len(s) + Len(t)
    /\ \A i \in 1..Len(s) : u[i] = s[i]
    /\ \A i \in 1..Len(t) : u[Len(s) + i] = t[i]

LEMMA JoinedAs ==
    ASSUME NEW s, IsSequence(s), NEW t, IsSequence(t)
    PROVE  Joins(s \o t, s, t)
BY Joined DEF Joins

LEMMA Appending ==
    ASSUME NEW s, IsSequence(s), NEW e
    PROVE  /\ IsSequence(Append(s, e)) /\ Len(Append(s, e)) = Len(s) + 1
           /\ \A i \in 1..Len(s) : Append(s, e)[i] = s[i]
           /\ Append(s, e)[Len(s) + 1] = e
<1> DEFINE A == {s[i] : i \in DOMAIN s}
           C == A \cup {e}
<1>1. s \in Seq(A) /\ A \subseteq C /\ e \in C
  BY DEF IsSequence
<1> HIDE DEF A, C
<1>2. s \in Seq(C)
  BY <1>1, Widened
<1>3. /\ Append(s, e) \in Seq(C) /\ Len(Append(s, e)) = Len(s) + 1
      /\ \A i \in 1..Len(s) : Append(s, e)[i] = s[i]
      /\ Append(s, e)[Len(s) + 1] = e
  BY <1>1, <1>2
<1>4. IsSequence(Append(s, e))
  BY <1>3, SequenceOf
<1> QED BY <1>3, <1>4

LEMMA NumberedFields ==
    ASSUME NEW log, Numbered(log)
    PROVE  /\ IsSequence(log) /\ Len(log) \in Nat /\ DOMAIN log = 1..Len(log)
           /\ \A i \in 1..Len(log) :
                Envelope(log[i], i) /\ log[i].task = LogTask /\ log[i].sequence = i
<1>1. ASSUME NEW e, NEW n, Envelope(e, n)
      PROVE  e.task = LogTask /\ e.sequence = n
  BY <1>1 DEF Envelope
<1> QED BY <1>1, SequenceFields DEF Numbered

(* Refused is no such log, for its event is numbered 0.                    *)
LEMMA NumberedNotRefused ==
    ASSUME NEW log, Numbered(log)
    PROVE  log # Refused
<1> SUFFICES ASSUME log = Refused PROVE FALSE
  OBVIOUS
<1>1. Len(log) = 1 /\ log[1].sequence = 0
  BY DEF Refused
<1> QED BY <1>1, NumberedFields

LEMMA EmptyIsOpen == OpenAt(<<>>)
<1>1. IsSequence(<<>>)
  BY DEF IsSequence
<1> QED BY <1>1 DEF OpenAt, Numbered

LEMMA LastNumber ==
    ASSUME NEW log, Numbered(log)
    PROVE  LastSequence(log) = Len(log)
<1>1. CASE log = <<>>
  BY <1>1 DEF LastSequence
<1>2. CASE log # <<>>
  <2> DEFINE S == {log[i] : i \in DOMAIN log}
  <2>1. log \in Seq(S)
    BY DEF Numbered, IsSequence
  <2> HIDE DEF S
  <2>2. Len(log) \in 1..Len(log)
    BY <1>2, <2>1
  <2> QED BY <1>2, <2>2, NumberedFields DEF LastSequence
<1> QED BY <1>1, <1>2

LEMMA OpenOutcome ==
    ASSUME NEW log, OpenAt(log)
    PROVE  TerminalEventType(log) = "none" /\ log # Refused
<1>1. Numbered(log) /\ DOMAIN log = 1..Len(log)
  BY NumberedFields DEF OpenAt
<1>2. \A i \in DOMAIN log : log[i].type \notin TerminalEventTypes
  BY <1>1 DEF OpenAt
<1> QED BY <1>1, <1>2, OpenLog, NumberedNotRefused

(* A closed log is one that validate accepts, and its last event is its    *)
(* outcome.                                                                *)
LEMMA ClosedIsSealed ==
    ASSUME NEW log, Closed(log)
    PROVE  /\ log # Refused /\ Valid(log)
           /\ log[Len(log)].type \in TerminalEventTypes
           /\ TerminalEventType(log) = log[Len(log)].type
<1>1. Numbered(log)
  BY DEF Closed
<1>2. /\ Len(log) \in Nat /\ DOMAIN log = 1..Len(log)
      /\ \A i \in 1..Len(log) : log[i].task = LogTask /\ log[i].sequence = i
  BY <1>1, NumberedFields
<1>3. Valid(log)
  <2> SUFFICES ASSUME NEW i \in 1..Len(log)
               PROVE  /\ log[i].task = LogTask
                      /\ log[i].sequence > (IF i = 1 THEN 0 ELSE log[i - 1].sequence)
                      /\ \A j \in 1..(i - 1) : log[j].type \notin TerminalEventTypes
    BY <1>2 DEF Valid
  <2>1. i # 1 => i - 1 \in 1..Len(log)
    BY <1>2
  <2>2. \A j \in 1..(i - 1) : j \in 1..(Len(log) - 1)
    BY <1>2
  <2> QED BY <1>2, <2>1, <2>2 DEF Closed
<1>4. log # Refused
  BY <1>1, NumberedNotRefused
<1>5. Len(log) \in DOMAIN log
  BY <1>2 DEF Closed
<1>6. log \in Seq({log[i] : i \in DOMAIN log})
  BY <1>1 DEF Numbered, IsSequence
<1> HIDE DEF Valid
<1> QED BY <1>3, <1>4, <1>5, <1>6, ClosedLog DEF Closed

--------------------------------------------------------------------------------
(* Events emitted one after the other.                                     *)

LEMMA EmittedEvents ==
    ASSUME NEW log, OpenAt(log), NEW types, IsSequence(types),
           \A i \in 1..(Len(types) - 1) : types[i] \notin TerminalEventTypes
    PROVE  LET g == Emitted(log, types)
           IN  /\ Numbered(g) /\ Len(g) = Len(log) + Len(types)
               /\ \A i \in 1..Len(log) : g[i] = log[i]
               /\ \A i \in 1..Len(types) : g[Len(log) + i].type = types[i]
<1> DEFINE n == Len(log)
           m == Len(types)
           tail == [i \in 1..m |-> [NewEvent(log, types[i], NoCode) EXCEPT !.sequence = @ + i - 1]]
           g == Emitted(log, types)
<1>1. /\ Numbered(log) /\ IsSequence(log) /\ n \in Nat /\ m \in Nat
      /\ \A i \in 1..n : Envelope(log[i], i)
  BY NumberedFields, SequenceFields DEF OpenAt
<1>2. CASE types = <<>>
  <2>1. g = log /\ m = 0
    BY <1>2 DEF Emitted
  <2> QED BY <1>1, <2>1
<1>3. CASE types # <<>>
  <2>1. g = log \o tail
    BY <1>3, OpenOutcome DEF Emitted
  <2>2. ASSUME NEW i \in 1..m
        PROVE  Envelope(tail[i], n + i) /\ tail[i].type = types[i]
    <3>1. LastSequence(log) = n
      BY <1>1, LastNumber
    <3>2. tail[i] = [task |-> LogTask, sequence |-> n + 1 + i - 1, type |-> types[i], code |-> NoCode]
      BY <3>1 DEF NewEvent
    <3>3. n + 1 + i - 1 = n + i
      BY <1>1
    <3>4. tail[i] = [task |-> LogTask, sequence |-> n + i, type |-> types[i], code |-> NoCode]
      BY <3>2, <3>3
    <3> HIDE DEF tail, n
    <3> QED BY <3>4 DEF Envelope
  <2>3. IsSequence(tail) /\ Len(tail) = m
    <3> DEFINE S == {tail[i] : i \in 1..m}
    <3>1. DOMAIN tail = 1..m /\ \A i \in 1..m : tail[i] \in S
      OBVIOUS
    <3>2. tail = [i \in 1..m |-> tail[i]]
      OBVIOUS
    <3> HIDE DEF tail, S, m
    <3>3. tail \in [1..m -> S]
      BY <3>1, <3>2
    <3>4. tail \in Seq(S) /\ Len(tail) = m
      BY <1>1, <3>3
    <3> QED BY <3>4, SequenceOf
  <2> HIDE DEF tail
  <2>4. /\ IsSequence(g) /\ Len(g) = n + m
        /\ \A i \in 1..n : g[i] = log[i]
        /\ \A i \in 1..m : g[n + i] = tail[i]
    <3>1. ASSUME NEW t, IsSequence(t)
          PROVE  /\ IsSequence(log \o t) /\ Len(log \o t) = Len(log) + Len(t)
                 /\ \A i \in 1..Len(log) : (log \o t)[i] = log[i]
                 /\ \A i \in 1..Len(t) : (log \o t)[Len(log) + i] = t[i]
      BY <1>1, <3>1, Joined
    <3> HIDE DEF g
    <3> QED BY ONLY <2>1, <2>3, <3>1
  <2> HIDE DEF g
  <2>5. \A i \in 1..(n + m) : i \in 1..n \/ (i - n \in 1..m /\ n + (i - n) = i)
    BY <1>1
  <2>6. \A i \in 1..(n + m) : Envelope(g[i], i)
    <3> SUFFICES ASSUME NEW i \in 1..(n + m) PROVE Envelope(g[i], i)
      OBVIOUS
    <3>1. CASE i \in 1..n
      BY <1>1, <2>4, <3>1
    <3>2. CASE i - n \in 1..m /\ n + (i - n) = i
      <4>1. Envelope(tail[i - n], n + (i - n)) /\ g[n + (i - n)] = tail[i - n]
        BY <2>2, <2>4, <3>2
      <4> QED BY <3>2, <4>1
    <3> QED BY <2>5, <3>1, <3>2
  <2>7. \A i \in 1..m : g[n + i].type = types[i]
    BY <2>2, <2>4
  <2> QED BY <2>4, <2>6, <2>7 DEF Numbered, g
<1> QED BY <1>2, <1>3

LEMMA EmittedOpen ==
    ASSUME NEW log, OpenAt(log), NEW types, Harmless(types)
    PROVE  OpenAt(Emitted(log, types))
<1> DEFINE g == Emitted(log, types)
<1>1. /\ IsSequence(types) /\ Len(log) \in Nat /\ Len(types) \in Nat
      /\ \A i \in 1..(Len(types) - 1) : types[i] \notin TerminalEventTypes
  BY NumberedFields, SequenceFields DEF OpenAt, Harmless
<1>2. /\ Numbered(g) /\ Len(g) = Len(log) + Len(types)
      /\ \A i \in 1..Len(log) : g[i] = log[i]
      /\ \A i \in 1..Len(types) : g[Len(log) + i].type = types[i]
  BY <1>1, EmittedEvents
<1>3. \A i \in 1..(Len(log) + Len(types)) :
        i \in 1..Len(log) \/ (i - Len(log) \in 1..Len(types) /\ Len(log) + (i - Len(log)) = i)
  BY <1>1
<1> HIDE DEF g
<1>4. \A i \in 1..Len(g) : g[i].type \notin TerminalEventTypes
  BY <1>2, <1>3 DEF OpenAt, Harmless
<1> QED BY <1>2, <1>4 DEF OpenAt, g

LEMMA EmittedClosed ==
    ASSUME NEW log, OpenAt(log), NEW types, Closing(types)
    PROVE  Closed(Emitted(log, types))
<1> DEFINE g == Emitted(log, types)
           n == Len(log)
           m == Len(types)
<1>1. /\ IsSequence(types) /\ n \in Nat /\ m \in Nat \ {0}
      /\ \A i \in 1..(m - 1) : types[i] \notin TerminalEventTypes
  BY NumberedFields, SequenceFields DEF OpenAt, Closing
<1>2. /\ Numbered(g) /\ Len(g) = n + m
      /\ \A i \in 1..n : g[i] = log[i]
      /\ \A i \in 1..m : g[n + i].type = types[i]
  BY <1>1, EmittedEvents
<1>3. \A i \in 1..(n + m - 1) :
        i \in 1..n \/ (i - n \in 1..(m - 1) /\ i - n \in 1..m /\ n + (i - n) = i)
  BY <1>1
<1> HIDE DEF g
<1>4. \A i \in 1..(Len(g) - 1) : g[i].type \notin TerminalEventTypes
  <2> SUFFICES ASSUME NEW i \in 1..(n + m - 1) PROVE g[i].type \notin TerminalEventTypes
    BY <1>2
  <2>1. CASE i \in 1..n
    BY <1>2, <2>1 DEF OpenAt
  <2>2. CASE i - n \in 1..(m - 1) /\ i - n \in 1..m /\ n + (i - n) = i
    <3>1. g[n + (i - n)].type = types[i - n] /\ types[i - n] \notin TerminalEventTypes
      BY <1>1, <1>2, <2>2
    <3> QED BY <2>2, <3>1
  <2> QED BY <1>3, <2>1, <2>2
<1>5. g[Len(g)].type \in TerminalEventTypes
  BY <1>1, <1>2 DEF Closing
<1>6. Len(g) \in Nat \ {0}
  BY <1>1, <1>2
<1> QED BY <1>2, <1>4, <1>5, <1>6 DEF Closed, g

(* What an emitted log includes.                                           *)
LEMMA EmittedIncludes ==
    ASSUME NEW log, OpenAt(log), NEW types, Harmless(types) \/ Closing(types), NEW type
    PROVE  Includes(Emitted(log, types), type)
             <=> Includes(log, type) \/ \E i \in 1..Len(types) : types[i] = type
<1> DEFINE g == Emitted(log, types)
           n == Len(log)
           m == Len(types)
<1>1. /\ IsSequence(types) /\ n \in Nat /\ m \in Nat /\ DOMAIN log = 1..n
      /\ \A i \in 1..(m - 1) : types[i] \notin TerminalEventTypes
  BY NumberedFields, SequenceFields DEF OpenAt, Harmless, Closing
<1>2. /\ Numbered(g) /\ Len(g) = n + m
      /\ \A i \in 1..n : g[i] = log[i]
      /\ \A i \in 1..m : g[n + i].type = types[i]
  BY <1>1, EmittedEvents
<1>3. DOMAIN g = 1..(n + m)
  BY <1>2, NumberedFields
<1>4. /\ \A i \in 1..(n + m) : i \in 1..n \/ (i - n \in 1..m /\ n + (i - n) = i)
      /\ \A i \in 1..n : i \in 1..(n + m)
      /\ \A i \in 1..m : n + i \in 1..(n + m)
  BY <1>1
<1> HIDE DEF g
<1>5. ASSUME NEW i \in 1..(n + m), g[i].type = type
      PROVE  Includes(log, type) \/ \E j \in 1..m : types[j] = type
  <2>1. CASE i \in 1..n
    BY <1>1, <1>2, <1>5, <2>1 DEF Includes
  <2>2. CASE i - n \in 1..m /\ n + (i - n) = i
    <3>1. g[n + (i - n)].type = types[i - n]
      BY <1>2, <2>2
    <3> QED BY <1>5, <2>2, <3>1
  <2> QED BY <1>4, <2>1, <2>2
<1>6. Includes(log, type) => Includes(g, type)
  BY <1>1, <1>2, <1>3, <1>4 DEF Includes
<1>7. ASSUME NEW j \in 1..m, types[j] = type PROVE Includes(g, type)
  BY <1>2, <1>3, <1>4, <1>7 DEF Includes
<1>8. Includes(g, type) => \E i \in 1..(n + m) : g[i].type = type
  BY <1>3 DEF Includes
<1> QED BY <1>5, <1>6, <1>7, <1>8 DEF g

(* Giving up closes an open log, and says so in its last event.            *)
LEMMA FailedCloses ==
    ASSUME NEW log, OpenAt(log), NEW code
    PROVE  /\ Closed(FailedWith(log, code))
           /\ Len(FailedWith(log, code)) = Len(log) + 1
           /\ \A i \in 1..Len(log) : FailedWith(log, code)[i] = log[i]
           /\ FailedWith(log, code)[Len(log) + 1].type = "task.failed"
<1> DEFINE e == NewEvent(log, "task.failed", code)
           g == Append(log, e)
           n == Len(log)
<1>1. /\ IsSequence(log) /\ n \in Nat
      /\ \A i \in 1..n : Envelope(log[i], i) /\ log[i].sequence = i
  BY NumberedFields DEF OpenAt
<1>2. LastSequence(log) = n
  BY LastNumber DEF OpenAt
<1>3. /\ e.sequence = n + 1 /\ e.type = "task.failed" /\ e.task = LogTask
      /\ Envelope(e, n + 1)
  BY <1>2 DEF NewEvent, Envelope
<1>4. Accepts(log, e)
  BY <1>1, <1>2, <1>3, OpenOutcome DEF Accepts
<1>5. FailedWith(log, code) = g
  BY <1>4, OpenOutcome DEF FailedWith, Appended
<1> HIDE DEF e
<1>6. /\ IsSequence(g) /\ Len(g) = n + 1
      /\ \A i \in 1..n : g[i] = log[i]
      /\ g[n + 1] = e
  BY <1>1, Appending
<1> HIDE DEF g
<1>7. \A i \in 1..(n + 1) : i \in 1..n \/ i = n + 1
  BY <1>1
<1>8. Numbered(g)
  BY <1>1, <1>3, <1>6, <1>7 DEF Numbered
<1>9. \A i \in 1..(Len(g) - 1) : g[i].type \notin TerminalEventTypes
  BY <1>1, <1>6 DEF OpenAt
<1>10. Closed(g)
  BY <1>1, <1>3, <1>6, <1>8, <1>9 DEF Closed, TerminalEventTypes
<1> QED BY <1>3, <1>5, <1>6, <1>10

LEMMA FailedIncludes ==
    ASSUME NEW log, OpenAt(log), NEW code, NEW type
    PROVE  Includes(FailedWith(log, code), type) <=> Includes(log, type) \/ type = "task.failed"
<1> DEFINE g == FailedWith(log, code)
           n == Len(log)
<1>1. /\ Closed(g) /\ Len(g) = n + 1
      /\ \A i \in 1..n : g[i] = log[i]
      /\ g[n + 1].type = "task.failed"
  BY FailedCloses
<1>2. n \in Nat /\ DOMAIN log = 1..n /\ DOMAIN g = 1..(n + 1)
  BY <1>1, NumberedFields DEF OpenAt, Closed
<1> HIDE DEF g
<1>3. \A i \in 1..(n + 1) : i \in 1..n \/ i = n + 1
  BY <1>2
<1>4. n + 1 \in 1..(n + 1) /\ \A i \in 1..n : i \in 1..(n + 1)
  BY <1>2
<1> QED BY <1>1, <1>2, <1>3, <1>4 DEF Includes, g

(* Lists of types put together.                                            *)
LEMMA JoinedTypes ==
    ASSUME NEW s, Harmless(s), NEW t
    PROVE  /\ Harmless(t) => Harmless(s \o t)
           /\ Closing(t) => Closing(s \o t)
<1> SUFFICES ASSUME IsSequence(t)
             PROVE  /\ Harmless(t) => Harmless(s \o t)
                    /\ Closing(t) => Closing(s \o t)
  BY DEF Harmless, Closing
<1> DEFINE u == s \o t
           n == Len(s)
           m == Len(t)
<1>1. n \in Nat /\ m \in Nat /\ IsSequence(s)
  BY SequenceFields DEF Harmless
<1>2. /\ IsSequence(u) /\ Len(u) = n + m
      /\ \A i \in 1..n : u[i] = s[i]
      /\ \A i \in 1..m : u[n + i] = t[i]
  BY <1>1, Joined
<1> HIDE DEF u
<1>3. \A i \in 1..n : s[i] \notin TerminalEventTypes
  BY DEF Harmless
<1>4. ASSUME Harmless(t) PROVE Harmless(u)
  <2>1. \A i \in 1..(n + m) : i \in 1..n \/ (i - n \in 1..m /\ n + (i - n) = i)
    BY <1>1
  <2> QED BY <1>2, <1>3, <1>4, <2>1 DEF Harmless
<1>5. ASSUME Closing(t) PROVE Closing(u)
  <2>1. \A i \in 1..(n + m - 1) : i \in 1..n \/ (i - n \in 1..(m - 1) /\ i - n \in 1..m /\ n + (i - n) = i)
    BY <1>1
  <2>2. m \in 1..m /\ m # 0 /\ n + m \in Nat \ {0}
    BY <1>1, <1>5 DEF Closing
  <2>3. \A i \in 1..(n + m - 1) : u[i] \notin TerminalEventTypes
    BY <1>2, <1>3, <1>5, <2>1 DEF Closing
  <2> QED BY <1>2, <1>5, <2>2, <2>3 DEF Closing
<1> QED BY <1>4, <1>5 DEF u
================================================================================
