------------------------------ MODULE UnityTeleop ------------------------------
(***************************************************************************)
(* The gateway with the clients it is made for: every session is one run   *)
(* of a Unity client, which numbers its commands with a SessionSequence    *)
(* and stamps them with a steady clock.  Between the two is a channel that *)
(* loses, duplicates, delays and reorders.  The history of what was obeyed *)
(* serves to state what a client may expect.                               *)
(***************************************************************************)
EXTENDS VrGateway, FiniteSets

CONSTANTS
    MaxSequence,    \* Int64.MaxValue: the last number a SessionSequence gives
    MaxInFlight     \* bound: commands in the channel at a time

PayloadType(name) ==
    CASE name = "SESSION_START" -> "SessionStart"
      [] name = "EMERGENCY_STOP" -> "Empty"
      [] OTHER -> ExpectedPayload(name)

(* The client's encoder gives each command the payload of its kind, and    *)
(* lets no session begin in another mode than "head".                      *)
ASSUME ClientConstants ==
    /\ MaxSequence \in Nat /\ MaxInFlight \in Nat
    /\ \A c \in Command :
          /\ c.payload.type = PayloadType(c.command)
          /\ c.command = "SESSION_START" => c.payload.mode = "head"

VARIABLES
    current,        \* the counter of each session's SessionSequence
    channel,        \* commands sent and not yet lost or used up
    obeyed,         \* history: the commands obeyed, in that order, up to the latch
    openedAt,       \* history: when a session was last opened
    obeyedAt        \* history: when a command was last obeyed

history == <<obeyed, openedAt, obeyedAt>>
teleopVars == <<vars, current, channel, history>>

TeleopInit ==
    /\ Init
    /\ current = [sid \in SessionId |-> 0]
    /\ channel = {}
    /\ obeyed = <<>> /\ openedAt = 0 /\ obeyedAt = 0

(* Faulty variant of NextNumber: one counter for all sessions of a headset.*)
NextNumberShared(sid) ==
    1 + CHOOSE n \in 0..MaxSequence :
            /\ \E s \in SessionId : current[s] = n
            /\ \A s \in SessionId : current[s] <= n

NextNumber(sid) == current[sid] + 1

(* A session begins with its session.start and goes on with any command;   *)
(* once Next has given the last number it raises, and nothing more is sent.*)
Send(c) ==
    /\ current[c.sessionId] < MaxSequence
    /\ c.sequence = NextNumber(c.sessionId)
    /\ c.timestamp = now
    /\ current[c.sessionId] = 0 <=> c.command = "SESSION_START"
    /\ Cardinality(channel) < MaxInFlight
    /\ current' = [current EXCEPT ![c.sessionId] = c.sequence]
    /\ channel' = channel \cup {c}
    /\ UNCHANGED <<vars, history>>

Drop(c) ==
    /\ c \in channel
    /\ channel' = channel \ {c}
    /\ UNCHANGED <<vars, current, history>>

(* What history keeps of a command.                                        *)
Order(c) == [command |-> c.command, sessionId |-> c.sessionId, sequence |-> c.sequence]

Obeys(c) ==
    \/ IsEmergencyStop(c)
    \/ c.command # "EMERGENCY_STOP" /\ Admitted(c, c.command)

Record(c) ==
    IF Obeys(c) /\ state # "ESTOP_LATCHED"
    THEN /\ obeyed' = Append(obeyed, Order(c))
         /\ obeyedAt' = now
         /\ openedAt' = IF c.command = "SESSION_START" THEN now ELSE openedAt
    ELSE UNCHANGED history

(* The gateway handles a command, which may come again.                    *)
Deliver(c) ==
    /\ c \in channel
    /\ channel' \in {channel, channel \ {c}}
    /\ Handle(c)
    /\ Record(c)
    /\ UNCHANGED current

TeleopNext ==
    \/ \E c \in Command : Send(c)
    \/ \E c \in channel : Drop(c) \/ Deliver(c)
    \/ (Poll \/ Tick) /\ UNCHANGED <<current, channel, history>>

TeleopSpec == TeleopInit /\ [][TeleopNext]_teleopVars

--------------------------------------------------------------------------------

Opening(n) == obeyed[n].command = "SESSION_START"

(* The session a command obeyed as the n-th may belong to.                 *)
SessionAt(n) ==
    LET opening == CHOOSE k \in 1..n : Opening(k) /\ \A i \in (k + 1)..n : ~Opening(i)
    IN  obeyed[opening].sessionId

(* Whatever the channel does, the commands obeyed are each session's in    *)
(* the order of sending, none of them twice, and none once another session *)
(* has been opened.  Emergency stops are obeyed always.                    *)
ObeyedInOrder ==
    \A n \in DOMAIN obeyed : obeyed[n].command # "EMERGENCY_STOP" =>
        /\ obeyed[n].sessionId = SessionAt(n)
        /\ \A i \in 1..(n - 1) :
              obeyed[i].sessionId = obeyed[n].sessionId => obeyed[i].sequence < obeyed[n].sequence

Obeyed(name, sid) ==
    \E n \in DOMAIN obeyed : obeyed[n].command = name /\ obeyed[n].sessionId = sid

Began(sid) == Obeyed("SESSION_START", sid)

Stopped == \E sid \in SessionId : Obeyed("EMERGENCY_STOP", sid)

(* What the clients and the channel did for a command to be refused so.    *)
Explained(code, c) ==
    CASE code = "STALE_SEQUENCE" ->
            \E n \in DOMAIN obeyed :
                obeyed[n].sessionId = c.sessionId /\ obeyed[n].sequence >= c.sequence
      [] code = "INVALID_PAYLOAD" -> c.command = "SESSION_START" /\ Began(c.sessionId)
      [] code = "SESSION_MISMATCH" -> c.sessionId # SessionAt(Len(obeyed))
      [] code = "MODE_BLOCKED" ->
            \/ c.command = "HEAD_POSE" /\ ~Obeyed("HEAD_RECENTER", c.sessionId)
            \/ c.command = "MODE_SET" /\ c.payload.mode \in {"drive", "arm"}
      [] code = "UNKNOWN_MODE" -> c.command = "MODE_SET" /\ c.payload.mode # "head"
      [] code = "WATCHDOG_ACTIVE" -> now - obeyedAt >= WatchdogTimeout
      [] code = "NO_ACTIVE_SESSION" ->
            \/ \A n \in DOMAIN obeyed : ~Opening(n)
            \/ Stopped
            \/ Obeyed("SESSION_STOP", SessionAt(Len(obeyed)))
            \/ now - openedAt >= HandshakeTimeout /\ ~Obeyed("HEAD_RECENTER", SessionAt(Len(obeyed)))
      [] code = "ESTOP_LATCHED" -> Stopped
      [] OTHER -> FALSE

(* No command of such a client is refused but for what happened to its     *)
(* session on the way: a newer command overtook it or it came twice, its   *)
(* session never began, was stopped, replaced or left silent, or somebody  *)
(* stopped everything; or for a mode that was asked for.  Clock stamps and *)
(* the forms of commands never are the reason.                             *)
RefusalsAreExplained ==
    [][ \A e \in Kind("command.rejected")', c \in channel :
            Deliver(c) => Explained(e.code, c) ]_teleopVars

(* The gateway never looks back at the events it returned nor do clients   *)
(* at the neck.                                                            *)
Relevant == <<state, usedSessionIds, session, now, current, channel, history>>
================================================================================
