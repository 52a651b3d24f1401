----------------------------- MODULE VrGatewayNode -----------------------------
(***************************************************************************)
(* The ROS node around the gateway: vr_gateway_ros/node.py, its bridge     *)
(* (handlers.py), the adapter (vr_gateway/adapter.py) and the codec at the *)
(* two ends (vr_gateway/wire.py).                                          *)
(*                                                                         *)
(* Frames published on the command topic wait in the subscription, a queue *)
(* that keeps the latest Depth of them.  One thread serves the queue and   *)
(* the poll timer, a callback at a time and in any order, so a callback is *)
(* one action: decode, handle, encode and publish.  An exception that a    *)
(* callback does not catch leaves rclpy.spin and ends the process; what    *)
(* the gateway knew is lost, and a restart begins afresh.                  *)
(***************************************************************************)
EXTENDS VrGateway

CONSTANTS
    Frame,       \* what clients publish
    Depth,       \* QoS depth of the subscription
    PollPeriod,  \* poll_period_ms, in ticks
    Latency,     \* the executor serves a due timer within this time
    MaxCrashes   \* bound on crashes

(* A frame is the text of a command, or text that is none: not the JSON of *)
(* any command, or a command with a number beyond what a float holds.      *)
ASSUME NodeConstants ==
    /\ Frame \subseteq [text : {"command"}, command : Command]
                         \cup [text : {"malformed", "numberOutOfRange"}]
    /\ Depth \in Nat \ {0}
    /\ PollPeriod \in Nat \ {0}
    /\ Latency \in Nat
    /\ MaxCrashes \in Nat

VARIABLES
    queue,     \* frames waiting in the subscription
    up,        \* the process is running
    pollDue,   \* when the poll timer is next ready
    crashes

gateway == <<state, usedSessionIds, session, neck, out>>
nodeVars == <<queue, up, pollDue, crashes>>

NodeInit ==
    /\ Init
    /\ queue = <<>>
    /\ up = TRUE
    /\ pollDue = PollPeriod
    /\ crashes = 0

--------------------------------------------------------------------------------
(* The codec                                                               *)

(* decode_command: the payload has the shape of its command, and a session *)
(* is requested for the head only.                                         *)
WireAccepts(c) ==
    CASE c.command = "SESSION_START" -> c.payload = [type |-> "SessionStart", mode |-> "head"]
      [] c.command = "EMERGENCY_STOP" -> c.payload.type = "Empty"
      [] OTHER -> c.payload.type = ExpectedPayload(c.command)

(* _validate_correlation: both identifiers or neither, and both for a      *)
(* target.  encode_events raises for the whole call if one event fails.    *)
Encodable(e) ==
    /\ (e.sessionId = None) <=> (e.sequence = None)
    /\ e.event = "neck.target" => e.sessionId # None

Decode(f) ==
    CASE f.text = "command" /\ WireAccepts(f.command) -> "envelope"
      [] f.text = "numberOutOfRange" -> "raises"
      [] OTHER -> "WireError"

--------------------------------------------------------------------------------
(* The node                                                                *)

(* A client publishes; a full subscription forgets its oldest frame.       *)
Publish(f) ==
    /\ now <= Horizon
    /\ queue' = Append(IF Len(queue) = Depth THEN Tail(queue) ELSE queue, f)
    /\ UNCHANGED <<gateway, now, up, pollDue, crashes>>

(* Messages in flight are not kept for a subscriber that joins later.      *)
Lose ==
    /\ up' = FALSE
    /\ queue' = <<>>
    /\ UNCHANGED <<gateway, now, pollDue>>

(* _on_command for a frame that decodes, or that the adapter replaces by   *)
(* its sentinel because decoding raised WireError.                         *)
OnCommand ==
    /\ up /\ queue # <<>>
    /\ LET f == Head(queue)
       IN  \/ Decode(f) = "envelope" /\ Handle(f.command)
           \/ Decode(f) = "WireError" /\ HandleInvalid(None, None)
    /\ queue' = Tail(queue)
    /\ UNCHANGED <<up, pollDue, crashes>>

(* _on_command for a frame whose decoding raises something else.           *)
OnCommandRaises ==
    /\ up /\ queue # <<>>
    /\ Decode(Head(queue)) = "raises"
    /\ Lose
    /\ UNCHANGED crashes

(* Faulty variant of OnPollTimer: it waits while commands are queued.      *)
OnPollTimerWhenIdle ==
    /\ up /\ now >= pollDue
    /\ IF queue = <<>> THEN Poll ELSE UNCHANGED vars
    /\ pollDue' = pollDue + PollPeriod * (1 + (now - pollDue) \div PollPeriod)
    /\ UNCHANGED <<queue, up, crashes>>

(* The steady timer keeps to its grid: periods missed are skipped.         *)
OnPollTimer ==
    /\ up /\ now >= pollDue
    /\ Poll
    /\ pollDue' = pollDue + PollPeriod * (1 + (now - pollDue) \div PollPeriod)
    /\ UNCHANGED <<queue, up, crashes>>

Crash ==
    /\ up /\ crashes < MaxCrashes
    /\ crashes' = crashes + 1
    /\ Lose

(* VrGatewayNode.__init__: a new gateway, and a timer from now.            *)
Restart ==
    /\ ~up
    /\ up' = TRUE
    /\ pollDue' = now + PollPeriod
    /\ state' = "IDLE"
    /\ usedSessionIds' = {}
    /\ InvalidateActiveSession
    /\ neck' = NewNeck
    /\ out' = <<>>
    /\ UNCHANGED <<now, queue, crashes>>

(* Time passes, but not past a timer that the executor has left unserved   *)
(* for its latency.                                                        *)
TimePasses ==
    /\ up => now < pollDue + Latency
    /\ Tick
    /\ UNCHANGED nodeVars

NodeNext ==
    \/ \E f \in Frame : up /\ Publish(f)
    \/ OnCommand \/ OnCommandRaises
    \/ OnPollTimer
    \/ Crash \/ Restart
    \/ TimePasses

NodeSpec == NodeInit /\ [][NodeNext]_<<vars, nodeVars>>

--------------------------------------------------------------------------------

NodeTypeOK ==
    /\ TypeOK
    /\ queue \in Seq(Frame) /\ Len(queue) <= Depth
    /\ up \in BOOLEAN
    /\ pollDue \in Nat
    /\ crashes \in 0..MaxCrashes

(* With no traffic at all, or whatever traffic, motion stays permitted no  *)
(* longer after the last accepted command than the watchdog time plus one  *)
(* timer period and the executor's latency: the timer alone bounds it.     *)
StoppedInTime ==
    up /\ state = "HEAD_ACTIVE" =>
        now - lastValid < WatchdogTimeout + PollPeriod + Latency

(* Every event a callback obtains can be encoded.  encode_events runs      *)
(* after the gateway has changed state and discards all events of the call *)
(* when it raises, so a stop it could not encode would be lost for good.   *)
EventsAreEncodable == up => \A e \in Events : Encodable(e)

(* Input does not end the process: decode failures never raise, they are   *)
(* routed through the gateway (adapter.py, VrGatewayAdapter.handle_command)*)
InputNeverRaises == crashes = 0 => up
================================================================================
