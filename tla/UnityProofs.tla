------------------------------ MODULE UnityProofs -------------------------------
(***************************************************************************)
(* The Unity clients and the wire, for every value of the constants.  What *)
(* clients obtain of the gateway, however the channel treats what they     *)
(* send, rests on its inductive invariant and on the events of each call;  *)
(* what the two codecs make of each other's documents, on what the values  *)
(* of a document can be.                                                   *)
(***************************************************************************)
EXTENDS VrGatewayProofs, UnityTeleop, WireContract, FiniteSetTheorems

--------------------------------------------------------------------------------
(* The clients                                                             *)

Orders == [command : CommandName, sessionId : SessionId, sequence : Sequence]

(* The k-th of a history is the latest opening at the time of the n-th.    *)
LatestOpening(h, k, n) ==
    /\ k \in 1..n
    /\ h[k].command = "SESSION_START"
    /\ \A i \in (k + 1)..n : h[i].command # "SESSION_START"

(* The n-th of a history is of the session opened last, and the newest of  *)
(* that session so far.                                                    *)
InLine(h, n) ==
    /\ \E k \in 1..n : LatestOpening(h, k, n) /\ h[k].sessionId = h[n].sessionId
    /\ \A i \in 1..(n - 1) :
          h[i].sessionId = h[n].sessionId => h[i].sequence < h[n].sequence

(* A history of sessions in used, but for its emergency stops.             *)
InOrder(h, used) ==
    \A n \in 1..Len(h) : h[n].command # "EMERGENCY_STOP" =>
        h[n].sessionId \in used /\ InLine(h, n)

(* The history ends with orders of a session, up to the given number.      *)
OpenTo(h, sid, number) ==
    /\ \E k \in 1..Len(h) : LatestOpening(h, k, Len(h)) /\ h[k].sessionId = sid
    /\ \A i \in 1..Len(h) : h[i].sessionId = sid => h[i].sequence <= number

NoStopIn(h) == \A n \in 1..Len(h) : h[n].command # "EMERGENCY_STOP"

HistoryInv ==
    /\ obeyed \in Seq(Orders)
    /\ InOrder(obeyed, usedSessionIds)
    /\ state # "ESTOP_LATCHED" => NoStopIn(obeyed)
    /\ InSession => OpenTo(obeyed, activeSessionId, lastSequence)

TeleopInv == IInv /\ HistoryInv /\ channel \subseteq Command

(* The fields of an appended history.                                      *)
LEMMA AppendedFields ==
    ASSUME NEW h \in Seq(Orders), NEW e \in Orders
    PROVE  /\ Append(h, e) \in Seq(Orders) /\ Len(Append(h, e)) = Len(h) + 1
           /\ Len(h) \in Nat
           /\ \A i \in 1..Len(h) : Append(h, e)[i] = h[i]
           /\ Append(h, e)[Len(h) + 1] = e
OBVIOUS

LEMMA AppendedInLine ==
    ASSUME NEW h \in Seq(Orders), NEW e \in Orders, NEW n \in 1..Len(h), InLine(h, n)
    PROVE  InLine(Append(h, e), n)
<1>1. Len(h) \in Nat /\ \A i \in 1..n : Append(h, e)[i] = h[i]
  BY AppendedFields
<1>2. \A k \in 1..n : LatestOpening(h, k, n) => LatestOpening(Append(h, e), k, n)
  BY <1>1 DEF LatestOpening
<1>3. n \in 1..n /\ \A i \in 1..(n - 1) : i \in 1..n
  BY <1>1
<1> QED BY <1>1, <1>2, <1>3 DEF InLine

(* An order of the open session, newer than those before it, or one that   *)
(* opens another, goes on with the history.                                *)
LEMMA HistoryGoesOn ==
    ASSUME NEW h \in Seq(Orders), NEW e \in Orders, NEW used, NEW more,
           InOrder(h, used), used \subseteq more,
           e.command # "EMERGENCY_STOP" =>
               /\ e.sessionId \in more
               /\ \/ e.command = "SESSION_START"
                  \/ \E k \in 1..Len(h) : LatestOpening(h, k, Len(h)) /\ h[k].sessionId = e.sessionId
               /\ \A i \in 1..Len(h) : h[i].sessionId = e.sessionId => h[i].sequence < e.sequence
    PROVE  /\ InOrder(Append(h, e), more)
           /\ e.command # "EMERGENCY_STOP" => OpenTo(Append(h, e), e.sessionId, e.sequence)
<1> DEFINE g == Append(h, e)
           last == Len(h) + 1
<1>1. /\ g \in Seq(Orders) /\ Len(g) = last /\ Len(h) \in Nat /\ last \in Nat
      /\ \A i \in 1..Len(h) : g[i] = h[i]
      /\ g[last] = e
  BY AppendedFields
<1>2. \A i \in 1..last : i \in 1..Len(h) \/ i = last
  BY <1>1
<1>3. \A i \in 1..Len(h) : InLine(h, i) => InLine(g, i)
  BY AppendedInLine
<1>4. e.sequence \in Nat
  BY GatewayConstants DEF Orders
<1> HIDE DEF g
<1>5. ASSUME e.command # "EMERGENCY_STOP"
      PROVE  InLine(g, last) /\ OpenTo(g, e.sessionId, e.sequence)
  <2>1. \E k \in 1..last : LatestOpening(g, k, last) /\ g[k].sessionId = e.sessionId
    <3>1. CASE e.command = "SESSION_START"
      <4>1. LatestOpening(g, last, last) /\ last \in 1..last
        BY <1>1, <3>1 DEF LatestOpening
      <4> QED BY <1>1, <4>1
    <3>2. CASE e.command # "SESSION_START"
      <4>1. PICK k \in 1..Len(h) : LatestOpening(h, k, Len(h)) /\ h[k].sessionId = e.sessionId
        BY <1>5, <3>2
      <4>2. k \in 1..last /\ g[k] = h[k] /\ h[k].command = "SESSION_START"
        BY <1>1, <4>1 DEF LatestOpening
      <4>3. \A i \in (k + 1)..last : g[i].command # "SESSION_START"
        <5>1. \A i \in (k + 1)..last : i = last \/ (i \in (k + 1)..Len(h) /\ i \in 1..Len(h))
          BY <1>1
        <5> QED BY <1>1, <3>2, <4>1, <5>1 DEF LatestOpening
      <4> QED BY <4>1, <4>2, <4>3 DEF LatestOpening
    <3> QED BY <3>1, <3>2
  <2>2. \A i \in 1..Len(h) : g[i].sessionId = e.sessionId => g[i].sequence < e.sequence
    BY <1>1, <1>5
  <2>3. 1..(last - 1) = 1..Len(h)
    BY <1>1
  <2>4. \A i \in 1..last : g[i].sessionId = e.sessionId => g[i].sequence <= e.sequence
    <3>1. \A i \in 1..Len(h) : h[i] \in Orders
      OBVIOUS
    <3>2. \A o \in Orders : o.sequence \in Nat
      BY GatewayConstants DEF Orders
    <3>3. \A i \in 1..Len(h) : g[i].sequence \in Nat
      BY <1>1, <3>1, <3>2
    <3> QED BY <1>1, <1>2, <1>4, <2>2, <3>3
  <2>5. InLine(g, last)
    BY <1>1, <2>1, <2>2, <2>3 DEF InLine
  <2>6. OpenTo(g, e.sessionId, e.sequence)
    BY <1>1, <2>1, <2>4 DEF OpenTo
  <2> QED BY <2>5, <2>6
<1> HIDE DEF last
<1>6. InOrder(g, more)
  <2> SUFFICES ASSUME NEW n \in 1..last, g[n].command # "EMERGENCY_STOP"
               PROVE  g[n].sessionId \in more /\ InLine(g, n)
    BY <1>1 DEF InOrder
  <2>1. CASE n \in 1..Len(h)
    BY <1>1, <1>3, <2>1 DEF InOrder
  <2>2. CASE n = last
    BY <1>1, <1>5, <2>2
  <2> QED BY <1>2, <2>1, <2>2
<1> QED BY <1>5, <1>6 DEF g

(* What an obeyed command does, and one that is not.                       *)
LEMMA ObeyedCalls ==
    ASSUME NEW c \in Command, Handle(c), Obeys(c)
    PROVE  \/ SessionStart(c) \/ ModeSet(c) \/ HeadRecenter(c) \/ HeadPose(c)
           \/ SessionStop(c) \/ EmergencyStop(c)
<1>1. CASE IsEmergencyStop(c)
  BY <1>1 DEF Handle, RejectMalformedStop, RejectExpired, Reject, IsEmergencyStop
<1>2. CASE c.command # "EMERGENCY_STOP" /\ ~Expired /\ Refusal(c) = None
  BY <1>2 DEF Handle, RejectMalformedStop, RejectExpired, Reject
<1> QED BY <1>1, <1>2 DEF Obeys, Admitted

LEMMA OtherCalls ==
    ASSUME NEW c \in Command, Handle(c), ~Obeys(c)
    PROVE  /\ UNCHANGED usedSessionIds
           /\ \/ ~InSession'
              \/ UNCHANGED <<state, activeSessionId, lastSequence>>
           /\ state' # "ESTOP_LATCHED" => state # "ESTOP_LATCHED"
<1>1. \/ RejectMalformedStop(c) \/ RejectExpired(c) \/ Reject(c)
  BY DEF Handle, Obeys, Admitted, SessionStart, ModeSet, HeadRecenter, HeadPose,
         SessionStop, EmergencyStop
<1>2. CASE RejectMalformedStop(c) \/ RejectExpired(c)
  <2>1. EvaluateDeadline
    BY <1>2 DEF RejectMalformedStop, RejectExpired
  <2> QED BY <2>1, DeadlineStep
      DEF InSession, session, Expired, HandshakeExpired, WatchdogExpired
<1>3. CASE Reject(c)
  BY <1>3 DEF Reject, session
<1> QED BY <1>1, <1>2, <1>3

LEMMA OrderType ==
    ASSUME NEW c \in Command
    PROVE  /\ Order(c) \in Orders
           /\ Order(c).command = c.command
           /\ Order(c).sessionId = c.sessionId /\ Order(c).sequence = c.sequence
BY CommandType DEF Order, Orders

(* A history that stays open to the session, as the gateway does.          *)
LEMMA NothingObeyed ==
    ASSUME HistoryInv, UNCHANGED <<obeyed, usedSessionIds>>,
           \/ ~InSession'
           \/ UNCHANGED <<state, activeSessionId, lastSequence>>,
           state' # "ESTOP_LATCHED" => state # "ESTOP_LATCHED"
    PROVE  HistoryInv'
BY DEF HistoryInv, InSession

LEMMA ObeyedInvariant ==
    ASSUME TeleopInv, NEW c \in Command, Handle(c), Obeys(c), state # "ESTOP_LATCHED",
           obeyed' = Append(obeyed, Order(c))
    PROVE  HistoryInv'
<1>1. /\ IInv /\ obeyed \in Seq(Orders) /\ InOrder(obeyed, usedSessionIds)
      /\ NoStopIn(obeyed)
      /\ InSession => OpenTo(obeyed, activeSessionId, lastSequence)
  BY DEF TeleopInv, HistoryInv
<1>2. /\ Order(c) \in Orders /\ Order(c).command = c.command
      /\ Order(c).sessionId = c.sessionId /\ Order(c).sequence = c.sequence
  BY OrderType
<1>3. /\ Append(obeyed, Order(c)) \in Seq(Orders)
      /\ Len(Append(obeyed, Order(c))) = Len(obeyed) + 1
      /\ \A i \in 1..Len(obeyed) : Append(obeyed, Order(c))[i] = obeyed[i]
      /\ Append(obeyed, Order(c))[Len(obeyed) + 1] = Order(c)
      /\ Len(obeyed) \in Nat
  BY <1>1, <1>2, AppendedFields
<1>4. c.command # "EMERGENCY_STOP" => NoStopIn(obeyed')
  <2>1. \A i \in 1..(Len(obeyed) + 1) : i \in 1..Len(obeyed) \/ i = Len(obeyed) + 1
    BY <1>3
  <2> QED BY <1>1, <1>2, <1>3, <2>1 DEF NoStopIn
<1>5. \A i \in 1..Len(obeyed) : obeyed[i].sessionId \in usedSessionIds
  BY <1>1 DEF InOrder, NoStopIn
<1>6. CASE EmergencyStop(c)
  <2>1. state' = "ESTOP_LATCHED" /\ usedSessionIds' = usedSessionIds /\ c.command = "EMERGENCY_STOP"
    BY <1>6 DEF EmergencyStop, IsEmergencyStop
  <2>2. InOrder(obeyed', usedSessionIds)
    BY <1>1, <1>2, <2>1, HistoryGoesOn
  <2> QED BY <1>3, <2>1, <2>2 DEF HistoryInv, InSession
<1>7. CASE SessionStart(c)
  <2>1. /\ c.sessionId \notin usedSessionIds /\ c.command = "SESSION_START"
        /\ usedSessionIds' = usedSessionIds \cup {c.sessionId}
        /\ activeSessionId' = c.sessionId /\ lastSequence' = c.sequence
    BY <1>7, StartGates DEF SessionStart, Admitted, Accept
  <2> DEFINE more == usedSessionIds \cup {c.sessionId}
  <2>2. /\ InOrder(Append(obeyed, Order(c)), more)
        /\ OpenTo(Append(obeyed, Order(c)), c.sessionId, c.sequence)
    <3>1. usedSessionIds \subseteq more /\ Order(c).sessionId \in more
      BY <1>2
    <3>2. \A i \in 1..Len(obeyed) : obeyed[i].sessionId # Order(c).sessionId
      BY <1>2, <1>5, <2>1
    <3>3. Order(c).command = "SESSION_START"
      BY <1>2, <2>1
    <3> HIDE DEF more
    <3>4. /\ InOrder(Append(obeyed, Order(c)), more)
          /\ OpenTo(Append(obeyed, Order(c)), Order(c).sessionId, Order(c).sequence)
      BY <1>1, <1>2, <3>1, <3>2, <3>3, HistoryGoesOn
    <3> QED BY <1>2, <3>4
  <2> QED BY <1>3, <1>4, <2>1, <2>2 DEF HistoryInv
<1>8. CASE ModeSet(c) \/ HeadRecenter(c) \/ HeadPose(c) \/ SessionStop(c)
  <2>1. /\ InSession /\ c.command \notin {"SESSION_START", "EMERGENCY_STOP"}
        /\ Refusal(c) = None /\ UNCHANGED usedSessionIds
    BY <1>1, <1>8, ObeyedInSession
       DEF ModeSet, HeadRecenter, HeadPose, SessionStop, Admitted
  <2>2. c.sessionId = activeSessionId /\ c.sequence > lastSequence
    BY <1>1, <2>1, Gates, SequenceRises
  <2>3. /\ activeSessionId \in usedSessionIds
        /\ lastSequence \in Nat /\ c.sequence \in Nat
    BY <1>1, <2>1, CommandType, GatewayConstants DEF IInv, SessionCoherence, TypeOK
  <2>4. \A i \in 1..Len(obeyed) :
          obeyed[i].sessionId = c.sessionId => obeyed[i].sequence < c.sequence
    <3>1. \A i \in 1..Len(obeyed) : obeyed[i] \in Orders
      BY <1>1
    <3>2. \A o \in Orders : o.sequence \in Nat
      BY GatewayConstants DEF Orders
    <3> QED BY <1>1, <2>1, <2>2, <2>3, <3>1, <3>2 DEF OpenTo
  <2>5. \E k \in 1..Len(obeyed) :
          LatestOpening(obeyed, k, Len(obeyed)) /\ obeyed[k].sessionId = c.sessionId
    BY <1>1, <2>1, <2>2 DEF OpenTo
  <2>6. /\ InOrder(Append(obeyed, Order(c)), usedSessionIds)
        /\ OpenTo(Append(obeyed, Order(c)), c.sessionId, c.sequence)
    BY <1>1, <1>2, <2>1, <2>2, <2>3, <2>4, <2>5, HistoryGoesOn
  <2>7. InSession' => activeSessionId' = c.sessionId /\ lastSequence' = c.sequence
    BY <1>8, <2>2 DEF ModeSet, HeadRecenter, HeadPose, SessionStop, Accept, InSession
  <2> QED BY <1>3, <1>4, <2>1, <2>6, <2>7 DEF HistoryInv
<1> QED BY <1>6, <1>7, <1>8, ObeyedCalls

LEMMA TeleopInitInvariant == TeleopInit => TeleopInv
<1> SUFFICES ASSUME TeleopInit PROVE TeleopInv
  OBVIOUS
<1>1. IInv /\ ~InSession /\ obeyed = <<>> /\ channel = {}
  BY InitInvariant DEF TeleopInit, Init, InSession
<1>2. <<>> \in Seq(Orders) /\ 1..Len(<<>>) = {}
  OBVIOUS
<1> QED BY <1>1, <1>2 DEF TeleopInv, HistoryInv, InOrder, NoStopIn

LEMMA TeleopStepInvariant == TeleopInv /\ [TeleopNext]_teleopVars => TeleopInv'
<1> SUFFICES ASSUME TeleopInv, [TeleopNext]_teleopVars PROVE TeleopInv'
  OBVIOUS
<1>1. IInv /\ HistoryInv /\ channel \subseteq Command
  BY DEF TeleopInv
<1>2. ASSUME NEW c \in Command, Handle(c), Record(c), channel' \subseteq channel
      PROVE  TeleopInv'
  <2>1. IInv' /\ channel' \subseteq Command
    BY <1>1, <1>2, HandleInvariant
  <2>2. CASE Obeys(c) /\ state # "ESTOP_LATCHED"
    <3>1. obeyed' = Append(obeyed, Order(c))
      BY <1>2, <2>2 DEF Record
    <3> QED BY <1>2, <2>1, <2>2, <3>1, ObeyedInvariant DEF TeleopInv
  <2>3. CASE ~Obeys(c)
    <3>1. obeyed' = obeyed
      BY <1>2, <2>3 DEF Record, history
    <3> QED BY <1>1, <1>2, <2>1, <2>3, <3>1, OtherCalls, NothingObeyed DEF TeleopInv
  <2>4. CASE Obeys(c) /\ state = "ESTOP_LATCHED"
    <3>1. obeyed' = obeyed
      BY <1>2, <2>4 DEF Record, history
    <3>2. ~InSession /\ session = Absent
      BY <1>1, <2>4, NoSession DEF InSession
    <3>3. EmergencyStop(c)
      <4>1. ~SessionStart(c)
        BY <2>4, StartGates DEF SessionStart, Admitted
      <4>2. ~(ModeSet(c) \/ HeadRecenter(c) \/ HeadPose(c) \/ SessionStop(c))
        BY <1>1, <3>2, ObeyedInSession
      <4> QED BY <1>2, <2>4, <4>1, <4>2, ObeyedCalls
    <3>4. UNCHANGED usedSessionIds /\ state' = "ESTOP_LATCHED" /\ ~InSession'
      BY <3>3 DEF EmergencyStop, InSession
    <3> QED BY <1>1, <2>1, <3>1, <3>4, NothingObeyed DEF TeleopInv
  <2> QED BY <2>2, <2>3, <2>4
<1>3. ASSUME [Next]_vars, UNCHANGED <<usedSessionIds, obeyed>>, channel' \subseteq Command,
             ~InSession' \/ UNCHANGED <<state, activeSessionId, lastSequence>>,
             state' # "ESTOP_LATCHED" => state # "ESTOP_LATCHED"
      PROVE  TeleopInv'
  BY <1>1, <1>3, StepInvariant, NothingObeyed DEF TeleopInv
<1>4. ASSUME NEW c \in Command, Send(c) PROVE TeleopInv'
  <2>1. channel' \subseteq Command
    BY <1>1, <1>4 DEF Send
  <2> QED BY <1>3, <1>4, <2>1 DEF Send, vars, session, history
<1>5. ASSUME NEW c \in channel, Drop(c) PROVE TeleopInv'
  BY <1>1, <1>3, <1>5 DEF Drop, vars, session, history
<1>6. CASE Poll /\ UNCHANGED <<current, channel, history>>
  <2>1. EvaluateDeadline
    BY <1>6 DEF Poll
  <2>2. /\ UNCHANGED usedSessionIds
        /\ ~InSession' \/ UNCHANGED <<state, activeSessionId, lastSequence>>
        /\ state' # "ESTOP_LATCHED" => state # "ESTOP_LATCHED"
    BY <2>1, DeadlineStep DEF InSession, session, Expired, HandshakeExpired, WatchdogExpired
  <2> QED BY <1>1, <1>3, <1>6, <2>2 DEF Next, history
<1>7. CASE Tick /\ UNCHANGED <<current, channel, history>>
  BY <1>1, <1>3, <1>7 DEF Next, Tick, session, history
<1>8. CASE UNCHANGED teleopVars
  BY <1>1, <1>3, <1>8 DEF teleopVars, vars, session, history
<1>9. ASSUME NEW c \in channel, Deliver(c) PROVE TeleopInv'
  BY <1>1, <1>2, <1>9 DEF Deliver
<1> QED BY <1>4, <1>5, <1>6, <1>7, <1>8, <1>9 DEF TeleopNext

LEMMA TeleopInvariance == TeleopSpec => []TeleopInv
BY TeleopInitInvariant, TeleopStepInvariant, PTL DEF TeleopSpec

(* There is one latest opening at any time.                                *)
LEMMA OneLatestOpening ==
    ASSUME obeyed \in Seq(Orders), NEW n \in 1..Len(obeyed),
           NEW k \in 1..n, LatestOpening(obeyed, k, n)
    PROVE  SessionAt(n) = obeyed[k].sessionId
<1> DEFINE Latest(j) == Opening(j) /\ \A i \in (j + 1)..n : ~Opening(i)
           opening == CHOOSE j \in 1..n : Latest(j)
<1>1. Latest(k)
  BY DEF LatestOpening, Opening
<1>2. \A j \in 1..n : Latest(j) => j = k
  <2> SUFFICES ASSUME NEW j \in 1..n, Latest(j), j # k PROVE FALSE
    OBVIOUS
  <2>1. j \in (k + 1)..n \/ k \in (j + 1)..n
    OBVIOUS
  <2> QED BY <1>1, <2>1
<1> HIDE DEF Latest
<1>3. opening = k
  BY <1>1, <1>2
<1> QED BY <1>3 DEF SessionAt, Latest

(* For any sessions, numbers, timeouts and behaviour of the channel, what  *)
(* is obeyed is each session's commands in the order of sending, one       *)
(* session after the other: the number gate and the identifiers used       *)
(* suffice, whatever the clients' clocks say.                              *)
THEOREM CommandsObeyedInOrder == TeleopSpec => []ObeyedInOrder
<1>1. TeleopInv => ObeyedInOrder
  <2> SUFFICES ASSUME TeleopInv, NEW n \in DOMAIN obeyed, obeyed[n].command # "EMERGENCY_STOP"
               PROVE  /\ obeyed[n].sessionId = SessionAt(n)
                      /\ \A i \in 1..(n - 1) :
                            obeyed[i].sessionId = obeyed[n].sessionId
                                => obeyed[i].sequence < obeyed[n].sequence
    BY DEF ObeyedInOrder
  <2>1. obeyed \in Seq(Orders) /\ n \in 1..Len(obeyed)
    BY DEF TeleopInv, HistoryInv
  <2>2. InLine(obeyed, n)
    BY <2>1 DEF TeleopInv, HistoryInv, InOrder
  <2>3. PICK k \in 1..n : LatestOpening(obeyed, k, n) /\ obeyed[k].sessionId = obeyed[n].sessionId
    BY <2>2 DEF InLine
  <2>4. SessionAt(n) = obeyed[k].sessionId
    BY <2>1, <2>3, OneLatestOpening
  <2> QED BY <2>2, <2>3, <2>4 DEF InLine
<1> QED BY <1>1, TeleopInvariance, PTL

--------------------------------------------------------------------------------
(* Why commands of these clients are refused.                              *)

(* What a client sends carries a number and a stamp that rise together, so *)
(* that what comes late is refused for its number first.                   *)
ClientInv ==
    /\ \A c \in channel :
          /\ c.timestamp <= now
          /\ c.command = "SESSION_START" => c.sequence = 1
          /\ c.sequence <= current[c.sessionId]
    /\ \A c, d \in channel :
          c.sessionId = d.sessionId /\ c.sequence < d.sequence => c.timestamp <= d.timestamp
    /\ InSession =>
          /\ lastTimestamp <= now
          /\ \A c \in channel :
                c.sessionId = activeSessionId /\ lastSequence < c.sequence
                    => lastTimestamp <= c.timestamp
    /\ current \in [SessionId -> Nat]

ObeyedIn(h, name, sid) == \E n \in 1..Len(h) : h[n].command = name /\ h[n].sessionId = sid

(* The latest session of a history ended by a stop, or by a handshake that *)
(* was never completed.                                                    *)
EndedIn(h, opened, time) ==
    \E k \in 1..Len(h) :
        /\ LatestOpening(h, k, Len(h))
        /\ \/ ObeyedIn(h, "SESSION_STOP", h[k].sessionId)
           \/ /\ time - opened >= HandshakeTimeout
              /\ ~ObeyedIn(h, "HEAD_RECENTER", h[k].sessionId)

(* The history has the reason for the state that the gateway is in.        *)
ReasonInv ==
    /\ openedAt \in Nat /\ obeyedAt \in Nat
    /\ \A sid \in usedSessionIds : ObeyedIn(obeyed, "SESSION_START", sid)
    /\ InSession =>
          /\ openedAt = sessionStarted /\ obeyedAt = lastValid
          /\ \E n \in 1..Len(obeyed) :
                obeyed[n].sessionId = activeSessionId /\ obeyed[n].sequence = lastSequence
    /\ state = "AWAITING_RECENTER" => ~ObeyedIn(obeyed, "HEAD_RECENTER", activeSessionId)
    /\ state = "SAFE_STOPPED" => now - obeyedAt >= WatchdogTimeout
    /\ state = "ESTOP_LATCHED" => \E sid \in SessionId : ObeyedIn(obeyed, "EMERGENCY_STOP", sid)
    /\ state = "IDLE" =>
          \/ \A n \in 1..Len(obeyed) : obeyed[n].command # "SESSION_START"
          \/ EndedIn(obeyed, openedAt, now)

RefusedInv == TeleopInv /\ ClientInv /\ ReasonInv

LEMMA ObeyedMore ==
    ASSUME NEW h \in Seq(Orders), NEW e \in Orders, NEW name, NEW sid
    PROVE  ObeyedIn(Append(h, e), name, sid) <=>
               ObeyedIn(h, name, sid) \/ (e.command = name /\ e.sessionId = sid)
<1> DEFINE g == Append(h, e)
<1>1. /\ Len(g) = Len(h) + 1 /\ Len(h) \in Nat
      /\ \A i \in 1..Len(h) : g[i] = h[i]
      /\ g[Len(h) + 1] = e
  BY AppendedFields
<1> HIDE DEF g
<1>2. \A i : i \in 1..Len(g) <=> i \in 1..Len(h) \/ i = Len(h) + 1
  BY <1>1
<1>3. ObeyedIn(g, name, sid) <=> ObeyedIn(h, name, sid) \/ (e.command = name /\ e.sessionId = sid)
  BY <1>1, <1>2 DEF ObeyedIn
<1> QED BY <1>3 DEF g

LEMMA HandshakeStep ==
    ASSUME EvaluateDeadline, HandshakeExpired
    PROVE  /\ state = "AWAITING_RECENTER" /\ now - sessionStarted >= HandshakeTimeout
           /\ state' = "IDLE" /\ UNCHANGED <<usedSessionIds, now>>
BY DEF EvaluateDeadline, DeadlineState, HandshakeExpired, WatchdogExpired

LEMMA WatchdogStep ==
    ASSUME EvaluateDeadline, WatchdogExpired
    PROVE  /\ state = "HEAD_ACTIVE" /\ now - lastValid >= WatchdogTimeout
           /\ state' = "SAFE_STOPPED" /\ UNCHANGED <<usedSessionIds, now>>
BY DEF EvaluateDeadline, DeadlineState, HandshakeExpired, WatchdogExpired

LEMMA SameReason ==
    ASSUME ReasonInv,
           UNCHANGED <<state, usedSessionIds, activeSessionId, lastSequence, sessionStarted, lastValid,
                       now, obeyed, openedAt, obeyedAt>>
    PROVE  ReasonInv'
BY DEF ReasonInv, InSession

(* A deadline ends the session for the reason that the history has.        *)
LEMMA DeadlineReason ==
    ASSUME HistoryInv, ReasonInv, EvaluateDeadline, UNCHANGED <<obeyed, openedAt, obeyedAt>>
    PROVE  ReasonInv'
<1>1. CASE ~Expired
  BY <1>1, DeadlineStep, SameReason DEF session
<1>2. CASE HandshakeExpired
  <2>1. /\ state = "AWAITING_RECENTER" /\ now - sessionStarted >= HandshakeTimeout
        /\ state' = "IDLE" /\ UNCHANGED <<usedSessionIds, now>>
    BY <1>2, HandshakeStep
  <2>2. PICK k \in 1..Len(obeyed) :
            LatestOpening(obeyed, k, Len(obeyed)) /\ obeyed[k].sessionId = activeSessionId
    BY <2>1 DEF HistoryInv, OpenTo, InSession
  <2>3. EndedIn(obeyed, openedAt, now)
    BY <2>1, <2>2 DEF ReasonInv, InSession, EndedIn
  <2> QED BY <2>1, <2>3 DEF ReasonInv, InSession
<1>3. CASE WatchdogExpired
  <2>1. /\ state = "HEAD_ACTIVE" /\ now - lastValid >= WatchdogTimeout
        /\ state' = "SAFE_STOPPED" /\ UNCHANGED <<usedSessionIds, now>>
    BY <1>3, WatchdogStep
  <2> QED BY <2>1 DEF ReasonInv, InSession
<1> QED BY <1>1, <1>2, <1>3 DEF Expired

(* What is obeyed is the reason for what it makes of the session.          *)
LEMMA ObeyedReason ==
    ASSUME TeleopInv, ReasonInv, NEW c \in Command, Handle(c), Obeys(c), state # "ESTOP_LATCHED",
           obeyed' = Append(obeyed, Order(c)), obeyedAt' = now,
           openedAt' = IF c.command = "SESSION_START" THEN now ELSE openedAt
    PROVE  ReasonInv'
<1>1. /\ IInv /\ obeyed \in Seq(Orders) /\ InOrder(obeyed, usedSessionIds) /\ NoStopIn(obeyed)
      /\ now \in Nat /\ now' = now
  <2>1. now' = now
    BY ObeyedCalls
       DEF SessionStart, ModeSet, HeadRecenter, HeadPose, SessionStop, EmergencyStop
  <2> QED BY <2>1 DEF TeleopInv, HistoryInv, IInv, TypeOK
<1>2. /\ Order(c) \in Orders /\ Order(c).command = c.command
      /\ Order(c).sessionId = c.sessionId /\ Order(c).sequence = c.sequence
  BY OrderType
<1>3. \A name, sid : ObeyedIn(obeyed', name, sid) <=>
          ObeyedIn(obeyed, name, sid) \/ (c.command = name /\ c.sessionId = sid)
  BY <1>1, <1>2, ObeyedMore
<1>4. \E n \in 1..Len(obeyed') :
          obeyed'[n].sessionId = c.sessionId /\ obeyed'[n].sequence = c.sequence
  BY <1>1, <1>2, AppendedFields
<1>5. openedAt' \in Nat /\ obeyedAt' \in Nat
  BY <1>1 DEF ReasonInv
<1>6. CASE EmergencyStop(c)
  <2>1. c.command = "EMERGENCY_STOP" /\ c.sessionId \in SessionId
        /\ state' = "ESTOP_LATCHED" /\ usedSessionIds' = usedSessionIds
    BY <1>6, CommandType DEF EmergencyStop, IsEmergencyStop
  <2> QED BY <1>3, <1>5, <2>1 DEF ReasonInv, InSession
<1>7. CASE SessionStart(c)
  <2>1. /\ c.command = "SESSION_START" /\ c.sessionId \notin usedSessionIds
        /\ usedSessionIds' = usedSessionIds \cup {c.sessionId} /\ activeSessionId' = c.sessionId
        /\ sessionStarted' = now /\ lastValid' = now /\ lastSequence' = c.sequence
        /\ state' = "AWAITING_RECENTER"
    BY <1>7, StartGates DEF SessionStart, Admitted, Accept
  <2>2. ~ObeyedIn(obeyed, "HEAD_RECENTER", c.sessionId)
    BY <1>1, <2>1 DEF ObeyedIn, InOrder, NoStopIn
  <2>3. \A sid \in usedSessionIds' : ObeyedIn(obeyed', "SESSION_START", sid)
    BY <1>3, <2>1 DEF ReasonInv
  <2> QED BY <1>3, <1>4, <1>5, <2>1, <2>2, <2>3 DEF ReasonInv, InSession
<1>8. CASE ModeSet(c) \/ HeadRecenter(c) \/ HeadPose(c)
  <2>1. InSession /\ c.command # "SESSION_START" /\ Accept(c) /\ c.sessionId = activeSessionId
    BY <1>1, <1>8, ObeyedInSession, Gates DEF ModeSet, HeadRecenter, HeadPose, Admitted
  <2>2. UNCHANGED <<usedSessionIds, activeSessionId, sessionStarted>>
    BY <1>8 DEF ModeSet, HeadRecenter, HeadPose
  <2>3. \/ state' = "HEAD_ACTIVE"
        \/ state' = state /\ c.command # "HEAD_RECENTER"
    BY <1>8 DEF ModeSet, HeadRecenter, HeadPose, Admitted
  <2>4. lastSequence' = c.sequence /\ lastValid' = now /\ openedAt' = openedAt
    BY <2>1 DEF Accept
  <2> QED BY <1>3, <1>4, <1>5, <2>1, <2>2, <2>3, <2>4 DEF ReasonInv, InSession
<1>9. CASE SessionStop(c)
  <2>1. /\ c.command = "SESSION_STOP" /\ state' = "IDLE" /\ usedSessionIds' = usedSessionIds
    BY <1>9 DEF SessionStop, Admitted
  <2> DEFINE last == Len(obeyed')
  <2>2. obeyed' \in Seq(Orders) /\ last \in 1..last /\ obeyed'[last] = Order(c)
    BY <1>1, <1>2, AppendedFields
  <2>3. HistoryInv'
    BY ObeyedInvariant
  <2>4. InLine(obeyed', last)
    BY <1>2, <2>1, <2>2, <2>3 DEF HistoryInv, InOrder
  <2>5. PICK k \in 1..last : LatestOpening(obeyed', k, last) /\ obeyed'[k].sessionId = c.sessionId
    BY <1>2, <2>2, <2>4 DEF InLine
  <2>6. ObeyedIn(obeyed', "SESSION_STOP", c.sessionId)
    BY <1>3, <2>1
  <2>7. EndedIn(obeyed', openedAt', now')
    BY <2>5, <2>6 DEF EndedIn
  <2> QED BY <1>3, <1>5, <2>1, <2>7 DEF ReasonInv, InSession
<1> QED BY <1>6, <1>7, <1>8, <1>9, ObeyedCalls

LEMMA HandledReason ==
    ASSUME TeleopInv, ReasonInv, NEW c \in Command, Handle(c), Record(c)
    PROVE  ReasonInv'
<1>1. CASE Obeys(c) /\ state # "ESTOP_LATCHED"
  BY <1>1, ObeyedReason DEF Record
<1>2. CASE Obeys(c) /\ state = "ESTOP_LATCHED"
  <2>1. UNCHANGED <<obeyed, openedAt, obeyedAt>>
    BY <1>2 DEF Record, history
  <2>2. ~InSession /\ EmergencyStop(c)
    BY <1>2, ObeyedCalls, StartGates, ObeyedInSession
       DEF TeleopInv, InSession, SessionStart, Admitted
  <2>3. state' = "ESTOP_LATCHED" /\ usedSessionIds' = usedSessionIds
    BY <2>2 DEF EmergencyStop
  <2> QED BY <1>2, <2>1, <2>3 DEF ReasonInv, InSession
<1>3. CASE ~Obeys(c)
  <2>1. UNCHANGED <<obeyed, openedAt, obeyedAt>>
    BY <1>3 DEF Record, history
  <2>2. \/ RejectMalformedStop(c) \/ RejectExpired(c) \/ Reject(c)
    BY <1>3 DEF Handle, Obeys, Admitted, SessionStart, ModeSet, HeadRecenter, HeadPose,
                SessionStop, EmergencyStop
  <2>3. CASE RejectMalformedStop(c) \/ RejectExpired(c)
    BY <2>1, <2>3, DeadlineReason DEF TeleopInv, RejectMalformedStop, RejectExpired
  <2>4. CASE Reject(c)
    BY <2>1, <2>4, SameReason DEF Reject, session
  <2> QED BY <2>2, <2>3, <2>4
<1> QED BY <1>1, <1>2, <1>3

--------------------------------------------------------------------------------

(* Commands stay in the channel or are lost; the gateway's session stays,  *)
(* ends, or has just obeyed one of them.                                   *)
LEMMA ClientsGoOn ==
    ASSUME ClientInv, channel' \subseteq channel, UNCHANGED current, now \in Nat,
           channel \subseteq Command, now' = now \/ now' = now + 1,
           lastTimestamp \in Nat \/ ~InSession,
           InSession' =>
              \/ InSession /\ UNCHANGED <<activeSessionId, lastSequence, lastTimestamp>>
              \/ \E c \in channel : /\ activeSessionId' = c.sessionId
                                    /\ lastSequence' = c.sequence /\ lastTimestamp' = c.timestamp
    PROVE  ClientInv'
<1>1. \A c \in channel : c.timestamp \in Nat /\ c.timestamp <= now
  BY CommandType DEF ClientInv
<1>2. /\ \A c \in channel' :
            /\ c.timestamp <= now'
            /\ c.command = "SESSION_START" => c.sequence = 1
            /\ c.sequence <= current'[c.sessionId]
      /\ \A c, d \in channel' :
            c.sessionId = d.sessionId /\ c.sequence < d.sequence => c.timestamp <= d.timestamp
      /\ current' \in [SessionId -> Nat]
  BY <1>1 DEF ClientInv
<1>3. ASSUME InSession'
      PROVE  /\ lastTimestamp' <= now'
             /\ \A c \in channel' :
                   c.sessionId = activeSessionId' /\ lastSequence' < c.sequence
                       => lastTimestamp' <= c.timestamp
  <2>1. CASE InSession /\ UNCHANGED <<activeSessionId, lastSequence, lastTimestamp>>
    BY <2>1 DEF ClientInv
  <2>2. CASE \E c \in channel : /\ activeSessionId' = c.sessionId
                                /\ lastSequence' = c.sequence /\ lastTimestamp' = c.timestamp
    BY <1>1, <2>2 DEF ClientInv
  <2> QED BY <1>3, <2>1, <2>2
<1> QED BY <1>2, <1>3 DEF ClientInv

LEMMA SentInvariant ==
    ASSUME TeleopInv, ClientInv, NEW c \in Command, Send(c)
    PROVE  ClientInv'
<1>1. /\ c.sequence = current[c.sessionId] + 1 /\ c.timestamp = now
      /\ current[c.sessionId] = 0 <=> c.command = "SESSION_START"
      /\ current' = [current EXCEPT ![c.sessionId] = c.sequence]
      /\ channel' = channel \cup {c}
      /\ UNCHANGED <<state, activeSessionId, lastSequence, lastTimestamp, now>>
  BY DEF Send, NextNumber, vars, session
<1>2. /\ current \in [SessionId -> Nat] /\ now \in Nat
      /\ c.sessionId \in SessionId /\ c.sequence \in Nat
      /\ \A d \in channel : /\ d.sessionId \in SessionId /\ d.sequence \in Nat /\ d.timestamp \in Nat
                            /\ d.sequence <= current[d.sessionId] /\ d.timestamp <= now
  BY CommandType DEF ClientInv, TeleopInv, IInv, TypeOK
<1>3. current' \in [SessionId -> Nat]
      /\ \A sid \in SessionId : current'[sid] = IF sid = c.sessionId THEN c.sequence ELSE current[sid]
  BY <1>1, <1>2
<1>4. \A d \in channel' :
          /\ d.timestamp <= now'
          /\ d.command = "SESSION_START" => d.sequence = 1
          /\ d.sequence <= current'[d.sessionId]
  <2>1. c.timestamp <= now' /\ (c.command = "SESSION_START" => c.sequence = 1)
        /\ c.sequence <= current'[c.sessionId]
    BY <1>1, <1>2, <1>3
  <2>2. ASSUME NEW d \in channel
        PROVE  /\ d.timestamp <= now'
               /\ d.command = "SESSION_START" => d.sequence = 1
               /\ d.sequence <= current'[d.sessionId]
    <3>1. current[d.sessionId] \in Nat /\ current[c.sessionId] \in Nat
      BY <1>2
    <3> QED BY <1>1, <1>2, <1>3, <3>1 DEF ClientInv
  <2> QED BY <1>1, <2>1, <2>2
<1>5. \A a, b \in channel' :
          a.sessionId = b.sessionId /\ a.sequence < b.sequence => a.timestamp <= b.timestamp
  <2> SUFFICES ASSUME NEW a \in channel', NEW b \in channel',
                      a.sessionId = b.sessionId, a.sequence < b.sequence
               PROVE  a.timestamp <= b.timestamp
    OBVIOUS
  <2>1. CASE a \in channel /\ b \in channel
    BY <2>1 DEF ClientInv
  <2>2. CASE b = c
    BY <1>1, <1>2, <2>2
  <2>3. CASE a = c /\ b \in channel
    <3>1. b.sequence <= current[c.sessionId] /\ c.sequence < b.sequence
      BY <1>2, <2>3
    <3>2. b.sequence \in Nat /\ current[c.sessionId] \in Nat
      BY <1>2, <2>3
    <3> QED BY <1>1, <3>1, <3>2
  <2> QED BY <1>1, <2>1, <2>2, <2>3
<1>6. ASSUME InSession'
      PROVE  /\ lastTimestamp' <= now'
             /\ \A d \in channel' :
                   d.sessionId = activeSessionId' /\ lastSequence' < d.sequence
                       => lastTimestamp' <= d.timestamp
  <2>1. InSession
    BY <1>1, <1>6 DEF InSession
  <2> QED BY <1>1, <2>1 DEF ClientInv
<1> QED BY <1>3, <1>4, <1>5, <1>6 DEF ClientInv

LEMMA DeliveredClients ==
    ASSUME TeleopInv, ClientInv, NEW c \in channel, Handle(c), channel' \subseteq channel,
           UNCHANGED current
    PROVE  ClientInv'
<1>1. /\ IInv /\ c \in Command /\ channel \subseteq Command /\ now \in Nat
      /\ lastTimestamp \in Nat \/ ~InSession
  BY GatewayConstants DEF TeleopInv, IInv, TypeOK, SessionCoherence
<1>2. CASE EvaluateDeadline
  BY <1>1, <1>2, DeadlineStep, ClientsGoOn DEF InSession, session
<1>3. CASE Reject(c)
  BY <1>1, <1>3, ClientsGoOn DEF Reject, InSession, session
<1>4. CASE SessionStart(c)
  BY <1>1, <1>4, ClientsGoOn DEF SessionStart, Accept
<1>5. CASE ModeSet(c) \/ HeadRecenter(c) \/ HeadPose(c)
  <2>1. /\ activeSessionId' = activeSessionId /\ Accept(c) /\ now' = now
        /\ c.sessionId = activeSessionId
    BY <1>1, <1>5, Gates DEF ModeSet, HeadRecenter, HeadPose, Admitted
  <2> QED BY <1>1, <2>1, ClientsGoOn DEF Accept
<1>6. CASE SessionStop(c) \/ EmergencyStop(c)
  <2>1. ~InSession' /\ now' = now
    BY <1>6 DEF SessionStop, EmergencyStop, InSession
  <2> QED BY <1>1, <2>1, ClientsGoOn
<1> QED BY <1>2, <1>3, <1>4, <1>5, <1>6 DEF Handle, RejectMalformedStop, RejectExpired

(* The end of a session is not undone by time.                             *)
LEMMA TickReason ==
    ASSUME IInv, ReasonInv, Tick, UNCHANGED <<obeyed, openedAt, obeyedAt>>
    PROVE  ReasonInv'
<1>1. /\ now' = now + 1 /\ now \in Nat /\ openedAt \in Nat /\ obeyedAt \in Nat
      /\ HandshakeTimeout \in Nat /\ WatchdogTimeout \in Nat
      /\ UNCHANGED <<state, usedSessionIds, activeSessionId, lastSequence, sessionStarted, lastValid>>
  BY GatewayConstants DEF IInv, TypeOK, ReasonInv, Tick, session
<1>2. /\ now - openedAt >= HandshakeTimeout => now' - openedAt >= HandshakeTimeout
      /\ now - obeyedAt >= WatchdogTimeout => now' - obeyedAt >= WatchdogTimeout
  BY <1>1
<1>3. EndedIn(obeyed, openedAt, now) => EndedIn(obeyed, openedAt, now')
  BY <1>2 DEF EndedIn
<1> QED BY <1>1, <1>2, <1>3 DEF ReasonInv, InSession

LEMMA RefusedInit == TeleopInit => RefusedInv
<1> SUFFICES ASSUME TeleopInit PROVE RefusedInv
  OBVIOUS
<1>1. /\ TeleopInv /\ ~InSession /\ state = "IDLE" /\ obeyed = <<>> /\ channel = {}
      /\ usedSessionIds = {} /\ openedAt = 0 /\ obeyedAt = 0
      /\ current = [sid \in SessionId |-> 0]
  BY TeleopInitInvariant DEF TeleopInit, Init, InSession
<1>2. 1..Len(<<>>) = {}
  OBVIOUS
<1>3. ReasonInv
  BY <1>1, <1>2 DEF ReasonInv
<1>4. ClientInv
  BY <1>1 DEF ClientInv
<1> QED BY <1>1, <1>3, <1>4 DEF RefusedInv

LEMMA RefusedStep == RefusedInv /\ [TeleopNext]_teleopVars => RefusedInv'
<1> SUFFICES ASSUME RefusedInv, [TeleopNext]_teleopVars PROVE RefusedInv'
  OBVIOUS
<1>1. /\ TeleopInv /\ ClientInv /\ ReasonInv /\ IInv /\ HistoryInv /\ channel \subseteq Command
      /\ TeleopInv' /\ now \in Nat
      /\ lastTimestamp \in Nat \/ ~InSession
  BY TeleopStepInvariant, GatewayConstants
     DEF RefusedInv, TeleopInv, IInv, TypeOK, SessionCoherence
<1>2. ASSUME NEW c \in Command, Send(c) PROVE RefusedInv'
  <2>1. ReasonInv'
    BY <1>1, <1>2, SameReason DEF Send, vars, session, history
  <2> QED BY <1>1, <1>2, <2>1, SentInvariant DEF RefusedInv
<1>3. ASSUME NEW c \in channel, Drop(c) PROVE RefusedInv'
  <2>1. ReasonInv'
    BY <1>1, <1>3, SameReason DEF Drop, vars, session, history
  <2>2. ClientInv'
    BY <1>1, <1>3, ClientsGoOn DEF Drop, vars, session, InSession
  <2> QED BY <1>1, <2>1, <2>2 DEF RefusedInv
<1>4. ASSUME NEW c \in channel, Deliver(c) PROVE RefusedInv'
  <2>1. Handle(c) /\ Record(c) /\ channel' \subseteq channel /\ UNCHANGED current
    BY <1>4 DEF Deliver
  <2> QED BY <1>1, <2>1, HandledReason, DeliveredClients DEF RefusedInv
<1>5. CASE Poll /\ UNCHANGED <<current, channel, history>>
  <2>1. EvaluateDeadline /\ UNCHANGED <<obeyed, openedAt, obeyedAt, current, channel>>
    BY <1>5 DEF Poll, history
  <2>2. ClientInv'
    BY <1>1, <2>1, DeadlineStep, ClientsGoOn DEF InSession, session
  <2> QED BY <1>1, <2>1, <2>2, DeadlineReason DEF RefusedInv
<1>6. CASE Tick /\ UNCHANGED <<current, channel, history>>
  <2>1. ReasonInv'
    BY <1>1, <1>6, TickReason DEF history
  <2>2. ClientInv'
    BY <1>1, <1>6, ClientsGoOn DEF Tick, InSession, session
  <2> QED BY <1>1, <2>1, <2>2 DEF RefusedInv
<1>7. CASE UNCHANGED teleopVars
  <2>1. ReasonInv'
    BY <1>1, <1>7, SameReason DEF teleopVars, vars, session, history
  <2>2. ClientInv'
    BY <1>1, <1>7, ClientsGoOn DEF teleopVars, vars, session, InSession
  <2> QED BY <1>1, <2>1, <2>2 DEF RefusedInv
<1> QED BY <1>2, <1>3, <1>4, <1>5, <1>6, <1>7 DEF TeleopNext

LEMMA RefusedInvariance == TeleopSpec => []RefusedInv
BY RefusedInit, RefusedStep, PTL DEF TeleopSpec

--------------------------------------------------------------------------------

(* The session of the latest opening.                                      *)
LEMMA CurrentSession ==
    ASSUME HistoryInv, NEW k \in 1..Len(obeyed), LatestOpening(obeyed, k, Len(obeyed))
    PROVE  SessionAt(Len(obeyed)) = obeyed[k].sessionId
<1>1. obeyed \in Seq(Orders) /\ Len(obeyed) \in 1..Len(obeyed)
  BY DEF HistoryInv
<1> QED BY <1>1, OneLatestOpening

LEMMA ObeyedSame ==
    ASSUME HistoryInv
    PROVE  \A name, sid : Obeyed(name, sid) <=> ObeyedIn(obeyed, name, sid)
BY DEF HistoryInv, Obeyed, ObeyedIn

(* A command that finds no session.                                        *)
LEMMA NoSessionExplained ==
    ASSUME RefusedInv, NEW c \in Command,
           \/ ~InSession /\ state # "SAFE_STOPPED"
           \/ HandshakeExpired
    PROVE  Explained("NO_ACTIVE_SESSION", c)
<1>1. HistoryInv /\ ReasonInv /\ state \in GatewayState /\ obeyed \in Seq(Orders)
  BY DEF RefusedInv, TeleopInv, IInv, TypeOK, HistoryInv
<1>2. CASE state = "ESTOP_LATCHED"
  BY <1>1, <1>2, ObeyedSame DEF ReasonInv, Explained, Stopped
<1>3. CASE \A n \in 1..Len(obeyed) : obeyed[n].command # "SESSION_START"
  BY <1>1, <1>3 DEF Explained, Opening
<1>4. CASE EndedIn(obeyed, openedAt, now)
  <2>1. PICK k \in 1..Len(obeyed) :
          /\ LatestOpening(obeyed, k, Len(obeyed))
          /\ \/ ObeyedIn(obeyed, "SESSION_STOP", obeyed[k].sessionId)
             \/ /\ now - openedAt >= HandshakeTimeout
                /\ ~ObeyedIn(obeyed, "HEAD_RECENTER", obeyed[k].sessionId)
    BY <1>4 DEF EndedIn
  <2>2. SessionAt(Len(obeyed)) = obeyed[k].sessionId
    BY <1>1, <2>1, CurrentSession
  <2> QED BY <1>1, <2>1, <2>2, ObeyedSame DEF Explained
<1>5. CASE HandshakeExpired
  <2>1. state = "AWAITING_RECENTER" /\ InSession /\ now - sessionStarted >= HandshakeTimeout
    BY <1>5 DEF HandshakeExpired, InSession
  <2>2. PICK k \in 1..Len(obeyed) :
            LatestOpening(obeyed, k, Len(obeyed)) /\ obeyed[k].sessionId = activeSessionId
    BY <1>1, <2>1 DEF HistoryInv, OpenTo
  <2>3. EndedIn(obeyed, openedAt, now)
    BY <1>1, <2>1, <2>2 DEF ReasonInv, EndedIn
  <2> QED BY <1>4, <2>3
<1>6. CASE state = "IDLE"
  BY <1>1, <1>3, <1>4, <1>6 DEF ReasonInv
<1> QED BY <1>1, <1>2, <1>5, <1>6 DEF GatewayState, InSession

(* The gates and handlers refuse what the clients send only for a reason.  *)
LEMMA RefusalExplained ==
    ASSUME RefusedInv, NEW c \in channel, c.command # "EMERGENCY_STOP", Refusal(c) # None
    PROVE  Explained(Refusal(c), c)
<1>1. /\ HistoryInv /\ ReasonInv /\ ClientInv /\ IInv /\ SessionCoherence
      /\ state \in GatewayState /\ obeyed \in Seq(Orders)
      /\ c \in Command /\ c.command \in CommandName
  BY CommandType DEF RefusedInv, TeleopInv, IInv, TypeOK, HistoryInv
<1>2. c.payload.type = PayloadType(c.command)
  BY <1>1, ClientConstants
<1>3. CASE c.command = "SESSION_START"
  <2>1. c.payload.type = "SessionStart" /\ c.sequence = 1 /\ c.payload.mode = "head"
    BY <1>1, <1>2, <1>3, ClientConstants DEF PayloadType, ClientInv
  <2>2. ModeRefusal(c.payload.mode) = None
    BY <2>1 DEF ModeRefusal
  <2>3. \/ state = "ESTOP_LATCHED" /\ Refusal(c) = "ESTOP_LATCHED"
        \/ c.sessionId \in usedSessionIds /\ Refusal(c) = "INVALID_PAYLOAD"
    BY <1>3, <2>1, <2>2 DEF Refusal, StartRefusal
  <2>4. ASSUME state = "ESTOP_LATCHED" PROVE Explained("ESTOP_LATCHED", c)
    BY <1>1, <2>4, ObeyedSame DEF ReasonInv, Explained, Stopped
  <2>5. ASSUME c.sessionId \in usedSessionIds PROVE Explained("INVALID_PAYLOAD", c)
    BY <1>1, <1>3, <2>5, ObeyedSame DEF ReasonInv, Explained, Began
  <2> QED BY <2>3, <2>4, <2>5
<1>4. CASE c.command # "SESSION_START" /\ state = "SAFE_STOPPED"
  <2>1. Refusal(c) = "WATCHDOG_ACTIVE"
    BY <1>4 DEF Refusal
  <2>2. now - obeyedAt >= WatchdogTimeout
    BY <1>1, <1>4 DEF ReasonInv
  <2> QED BY <2>1, <2>2 DEF Explained
<1>5. CASE c.command # "SESSION_START" /\ state # "SAFE_STOPPED" /\ ~InSession
  <2>1. activeSessionId = None
    BY <1>1, <1>5 DEF SessionCoherence, session
  <2>2. Refusal(c) = "NO_ACTIVE_SESSION"
    BY <1>5, <2>1 DEF Refusal
  <2> QED BY <1>1, <1>5, <2>2, NoSessionExplained
<1>6. CASE c.command # "SESSION_START" /\ InSession
  <2>1. /\ activeSessionId \in SessionId /\ activeSessionId # None /\ state # "SAFE_STOPPED"
        /\ lastSequence \in Nat /\ lastSequence # None /\ lastTimestamp \in Nat
        /\ c.sequence \in Nat /\ c.timestamp \in Nat
    BY <1>1, <1>6, GatewayConstants, CommandType DEF SessionCoherence, IInv, TypeOK, InSession
  <2>2. CASE c.sessionId # activeSessionId
    <3>1. Refusal(c) = "SESSION_MISMATCH"
      BY <1>6, <2>1, <2>2 DEF Refusal
    <3>2. SessionAt(Len(obeyed)) = activeSessionId
      BY <1>1, <1>6, CurrentSession DEF HistoryInv, OpenTo
    <3> QED BY <2>2, <3>1, <3>2 DEF Explained
  <2>3. CASE c.sessionId = activeSessionId /\ c.sequence <= lastSequence
    <3>1. Refusal(c) = "STALE_SEQUENCE"
      BY <1>6, <2>1, <2>3 DEF Refusal
    <3>2. PICK n \in 1..Len(obeyed) :
            obeyed[n].sessionId = activeSessionId /\ obeyed[n].sequence = lastSequence
      BY <1>1, <1>6 DEF ReasonInv
    <3>3. obeyed[n].sequence >= c.sequence /\ n \in DOMAIN obeyed
      BY <1>1, <2>1, <2>3, <3>2
    <3> QED BY <2>3, <3>1, <3>2, <3>3 DEF Explained
  <2>4. CASE c.sessionId = activeSessionId /\ lastSequence < c.sequence
    <3>1. ~(c.timestamp < lastTimestamp) /\ ~(c.sequence <= lastSequence)
      BY <1>1, <1>6, <2>1, <2>4 DEF ClientInv
    <3>2. c.payload.type = ExpectedPayload(c.command)
      BY <1>2, <1>6 DEF PayloadType
    <3>3. Refusal(c) = HandlerRefusal(c)
      BY <1>6, <2>1, <2>4, <3>1, <3>2 DEF Refusal
    <3>4. CASE c.command = "MODE_SET"
      <4>1. HandlerRefusal(c) = ModeRefusal(c.payload.mode)
        BY <3>4 DEF HandlerRefusal
      <4>2. \/ c.payload.mode \in {"drive", "arm"} /\ Refusal(c) = "MODE_BLOCKED"
            \/ c.payload.mode # "head" /\ Refusal(c) = "UNKNOWN_MODE"
        BY <3>3, <4>1 DEF ModeRefusal
      <4> QED BY <3>4, <4>2 DEF Explained
    <3>5. CASE c.command = "HEAD_POSE"
      <4>1. state # "HEAD_ACTIVE" /\ Refusal(c) = "MODE_BLOCKED"
        BY <3>3, <3>5 DEF HandlerRefusal
      <4>2. ~ObeyedIn(obeyed, "HEAD_RECENTER", c.sessionId)
        BY <1>1, <1>6, <2>4, <4>1 DEF ReasonInv, InSession
      <4> QED BY <1>1, <3>5, <4>1, <4>2, ObeyedSame DEF Explained
    <3>6. CASE c.command \notin {"MODE_SET", "HEAD_POSE"}
      BY <1>6, <3>3, <3>6 DEF HandlerRefusal, InSession
    <3> QED BY <3>4, <3>5, <3>6
  <2> QED BY <2>1, <2>2, <2>3, <2>4
<1> QED BY <1>3, <1>4, <1>5, <1>6

(* A deadline refuses the command that finds it elapsed.                   *)
LEMMA ExpiredExplained ==
    ASSUME RefusedInv, NEW c \in channel, RejectExpired(c),
           NEW e \in Events', e.event = "command.rejected"
    PROVE  Explained(e.code, c)
<1> DEFINE code == IF DeadlineState = "SAFE_STOPPED" THEN "WATCHDOG_ACTIVE" ELSE "NO_ACTIVE_SESSION"
           r == Rejected(code, c)
<1>1. Expired /\ out' = DeadlineEvents \o <<r>>
  BY DEF RejectExpired
<1>2. r.event = "command.rejected" /\ r.code = code
  BY DEF Rejected, CommandRejectedEvent
<1>3. c \in Command
  BY DEF RefusedInv, TeleopInv
<1> HIDE DEF r
<1>4. CASE HandshakeExpired
  <2> DEFINE change == GatewayStateEvent("IDLE", activeSessionId, lastSequence)
  <2>1. change.event = "gateway.state"
    BY DEF GatewayStateEvent
  <2> HIDE DEF change
  <2>2. out' = <<change, r>>
    BY <1>1, <1>4, DeadlineShape, ConcatOneOne DEF change
  <2>3. e = r
    BY <1>2, <2>1, <2>2, TwoEvents
  <2>4. code = "NO_ACTIVE_SESSION"
    BY <1>4 DEF DeadlineState, HandshakeExpired, WatchdogExpired
  <2> QED BY <1>2, <1>3, <1>4, <2>3, <2>4, NoSessionExplained
<1>5. CASE WatchdogExpired
  <2> DEFINE change == GatewayStateEvent("SAFE_STOPPED", activeSessionId, lastSequence)
             stop == SafetyStopEvent("WATCHDOG", activeSessionId, lastSequence)
  <2>1. change.event = "gateway.state" /\ stop.event = "safety.stop"
    BY DEF GatewayStateEvent, SafetyStopEvent
  <2>2. DeadlineEvents = <<change, stop>>
    BY <1>5, DeadlineShape
  <2> HIDE DEF change, stop
  <2>3. out' = <<change, stop, r>>
    BY <1>1, <2>2, ConcatTwoOne
  <2>4. e = r
    BY <1>2, <2>1, <2>3, ThreeEvents
  <2>5. code = "WATCHDOG_ACTIVE"
    BY <1>5 DEF DeadlineState, HandshakeExpired, WatchdogExpired
  <2>6. now - obeyedAt >= WatchdogTimeout
    BY <1>5 DEF RefusedInv, ReasonInv, InSession, WatchdogExpired
  <2> QED BY <1>2, <2>4, <2>5, <2>6 DEF Explained
<1> QED BY <1>1, <1>4, <1>5 DEF Expired

(* For any sessions, numbers, modes and timeouts, and whatever the channel *)
(* does, a command of these clients is refused only for what became of its *)
(* session on the way or for a mode it asks for: no stamp of a steady      *)
(* clock is ever found stale, and no form is refused.                      *)
THEOREM RefusalsExplained == TeleopSpec => RefusalsAreExplained
<1> DEFINE Reasons == \A e \in Kind("command.rejected")', c \in channel :
                          Deliver(c) => Explained(e.code, c)
<1>1. RefusedInv /\ [TeleopNext]_teleopVars => [Reasons]_teleopVars
  <2> SUFFICES ASSUME RefusedInv, NEW c \in channel, Deliver(c),
                      NEW e \in Events', e.event = "command.rejected"
               PROVE  Explained(e.code, c)
    BY DEF Kind
  <2>1. Handle(c) /\ c \in Command
    BY DEF Deliver, RefusedInv, TeleopInv
  <2>2. CASE RejectMalformedStop(c)
    <3>1. c.payload.type = "Empty"
      BY <2>1, <2>2, ClientConstants DEF RejectMalformedStop, PayloadType
    <3> QED BY <2>2, <3>1 DEF RejectMalformedStop, IsEmergencyStop
  <2>3. CASE RejectExpired(c)
    BY <2>3, ExpiredExplained
  <2>4. CASE Reject(c)
    <3>1. e = Rejected(Refusal(c), c)
      BY <2>4, OneEvent DEF Reject
    <3>2. e.code = Refusal(c)
      BY <3>1 DEF Rejected, CommandRejectedEvent
    <3> QED BY <2>4, <3>2, RefusalExplained DEF Reject
  <2>5. CASE SessionStart(c) \/ ModeSet(c) \/ HeadRecenter(c) \/ SessionStop(c) \/ EmergencyStop(c)
    <3>1. \/ out' = <<>>
          \/ \E s, sid, seq : out' = <<GatewayStateEvent(s, sid, seq)>>
          \/ \E s, r : out' = TransitionEvents(s, c.sessionId, c.sequence)
                                \o <<SafetyStopEvent(r, c.sessionId, c.sequence)>>
      BY <2>5, TransitionShape DEF SessionStart, ModeSet, HeadRecenter, SessionStop, EmergencyStop
    <3>2. ASSUME NEW s, NEW sid, NEW seq, out' = <<GatewayStateEvent(s, sid, seq)>> PROVE FALSE
      <4>1. e = GatewayStateEvent(s, sid, seq)
        BY <3>2, OneEvent
      <4> QED BY <4>1 DEF GatewayStateEvent
    <3> QED BY <3>1, <3>2, NoEvents, TransitionStopSignal
  <2>6. CASE HeadPose(c)
    <3>1. \A x \in Events' : x.event = "neck.target"
      BY <2>6, OneEvent DEF HeadPose, NeckTargetEvent
    <3> QED BY <3>1
  <2> QED BY <2>1, <2>2, <2>3, <2>4, <2>5, <2>6 DEF Handle
<1> QED BY <1>1, RefusedInvariance, PTL DEF TeleopSpec, RefusalsAreExplained

--------------------------------------------------------------------------------
(* The wire: lookups in objects                                            *)

(* Bounded sets of naturals have a greatest element.                       *)
LEMMA Greatest ==
    ASSUME NEW n \in Nat, NEW S \in SUBSET (0..n), S # {}
    PROVE  \E x \in S : \A y \in S : y <= x
<1> DEFINE R == OpToRel(<, Nat)
           T == {n - x : x \in S}
<1>1. T \subseteq Nat /\ T # {}
  <2>1. \A x \in S : x \in 0..n /\ n - x \in Nat
    OBVIOUS
  <2>2. T \subseteq Nat
    BY <2>1
  <2>3. PICK x \in S : TRUE
    OBVIOUS
  <2>4. n - x \in T
    BY <2>3
  <2> QED BY <2>2, <2>4
<1>2. PICK t \in T : \A u \in T : ~(<<u, t>> \in R)
  BY <1>1, NatLessThanWellFounded, WFMin, Zenon
<1>3. \A u \in T : ~(u < t)
  BY <1>1, <1>2 DEF OpToRel
<1>4. PICK x \in S : t = n - x
  OBVIOUS
<1>5. \A y \in S : y <= x
  <2> TAKE y \in S
  <2>1. n - y \in T
    OBVIOUS
  <2>2. ~(n - y < n - x)
    BY <1>3, <1>4, <2>1
  <2> QED BY <2>2
<1> QED BY <1>5

(* What At returns for a name is the value of a member with that name.     *)
LEMMA AtMember ==
    ASSUME NEW v, v.members \in Seq(ToSet(v.members)), NEW key \in Keys(v)
    PROVE  \E i \in DOMAIN v.members : v.members[i][1] = key /\ At(v, key) = v.members[i][2]
<1> DEFINE n == Len(v.members)
           I == {i \in 1..n : v.members[i][1] = key}
<1>1. n \in Nat /\ DOMAIN v.members = 1..n
  OBVIOUS
<1>2. I \in SUBSET (0..n) /\ I \subseteq 1..n /\ I # {}
  BY <1>1 DEF Keys
<1>3. \E x \in I : \A y \in I : y <= x
  BY <1>1, <1>2, Greatest, Zenon
<1>4. \E x \in I : \A y \in I : x >= y
  BY <1>2, <1>3
<1>5. Max(I) \in I
  BY <1>4, Zenon DEF Max
<1>6. SelectLastInSeq(v.members, LAMBDA m : m[1] = key) = Max(I)
  BY <1>2 DEF SelectLastInSeq
<1>7. At(v, key) = v.members[Max(I)][2]
  BY <1>6 DEF At
<1> QED BY <1>1, <1>5, <1>7

(* A name that occurs once has the value it occurs with.                   *)
LEMMA AtUnique ==
    ASSUME NEW v, v.members \in Seq(ToSet(v.members)), NEW i \in DOMAIN v.members,
           \A j \in DOMAIN v.members : v.members[j][1] = v.members[i][1] => j = i
    PROVE  At(v, v.members[i][1]) = v.members[i][2]
<1>1. v.members[i][1] \in Keys(v)
  BY DEF Keys
<1> QED BY <1>1, AtMember

LEMMA ChildOf ==
    ASSUME NEW v, WellFormed(v), NEW required, NEW optional, HasKeys(v, required, optional),
           NEW key \in Keys(v)
    PROVE  At(v, key) \in Children(v)
BY AtMember DEF WellFormed, HasKeys, Children

(* The values of a document, down to the components of a vector.           *)
LEMMA Depths ==
    ASSUME NEW root
    PROVE  /\ root \in Values(root)
           /\ \A v \in Children(root) :
                 /\ v \in Values(root)
                 /\ \A w \in Children(v) : w \in Values(root) /\ Children(w) \subseteq Values(root)
BY DEF Values

(* Where no name repeats, all that is in an object is found by name.       *)
LEMMA ChildrenAt ==
    ASSUME NEW v, WellFormed(v), v.kind = "object", ~Repeats(v)
    PROVE  \A w \in Children(v) : \E key \in Keys(v) : w = At(v, key)
<1> DEFINE n == Len(v.members)
           K == Keys(v)
           f == [i \in 1..n |-> v.members[i][1]]
<1>1. v.members \in Seq(ToSet(v.members))
  BY DEF WellFormed
<1>2. n \in Nat /\ DOMAIN v.members = 1..n
  BY <1>1
<1>3. K = {v.members[i][1] : i \in 1..n} /\ Cardinality(K) = n
  BY <1>2 DEF Keys, Repeats
<1>4. IsFiniteSet(1..n) /\ Cardinality(1..n) = n
  <2>1. IsFiniteSet(1..n) /\ Cardinality(1..n) = IF 1 > n THEN 0 ELSE n - 1 + 1
    <3>1. 1 \in Int /\ n \in Int
      BY <1>2
    <3> QED BY <3>1, FS_Interval, Zenon
  <2> QED BY <1>2, <2>1
<1> HIDE DEF K, n
<1>5. f \in Surjection(1..n, K)
  <2>1. f \in [1..n -> K]
    BY <1>3
  <2>2. \A t \in K : \E i \in 1..n : f[i] = t
    BY <1>3
  <2> HIDE DEF f
  <2> QED BY <2>1, <2>2 DEF Surjection
<1>6. f \in Injection(1..n, K)
  <2> HIDE DEF f
  <2> QED BY <1>3, <1>4, <1>5, FS_Surjection
<1>7. \A i, j \in 1..n : v.members[i][1] = v.members[j][1] => i = j
  <2>1. \A i, j \in 1..n : f[i] = f[j] => i = j
    <3> HIDE DEF f
    <3> QED BY <1>6 DEF Injection, IsInjective
  <2> QED BY <2>1
<1>8. \A i \in DOMAIN v.members : At(v, v.members[i][1]) = v.members[i][2]
  <2> TAKE i \in DOMAIN v.members
  <2>1. \A j \in DOMAIN v.members : v.members[j][1] = v.members[i][1] => j = i
    BY <1>2, <1>7
  <2> QED BY <1>1, <2>1, AtUnique
<1>9. TAKE w \in Children(v)
<1>10. PICK i \in DOMAIN v.members : w = v.members[i][2]
  BY DEF Children
<1> QED BY <1>8, <1>10 DEF Keys

--------------------------------------------------------------------------------

(* Whatever both decoders accept, they read alike: a recentring has no     *)
(* position, an accepted number of the Unity client no sign.               *)
LEMMA AlikePayload ==
    ASSUME NEW command \in WireCommand, NEW v, PyPayload(command, v), CsPayload(command, v)
    PROVE  PyReadPayload(command, v) =
             CASE command = "session.start" -> [mode |-> At(v, "requested_mode").text]
               [] command = "mode.set" -> [mode |-> At(v, "mode").text]
               [] command \in {"head.pose", "head.recenter"} ->
                    [ orientation |-> Vector(At(v, "orientation"), XYZW),
                      position |-> IF command = "head.pose" /\ "position" \in Keys(v)
                                      /\ At(v, "position").kind # "null"
                                   THEN {Vector(At(v, "position"), XYZ)} ELSE {} ]
               [] OTHER -> <<>>
<1>1. CASE command = "session.start"
  <2>1. At(v, "requested_mode") = String("head")
    BY <1>1 DEF PyPayload
  <2>2. At(v, "requested_mode").text = "head"
    BY <2>1 DEF String
  <2> QED BY <1>1, <2>2 DEF PyReadPayload
<1>2. CASE command = "mode.set"
  BY <1>2 DEF PyReadPayload
<1>3. CASE command = "head.pose"
  <2>1. PyPose(v, {"position"})
    BY <1>3 DEF PyPayload
  <2>2. "position" \in Keys(v) => (At(v, "position").kind = "object" <=> At(v, "position").kind # "null")
    BY <2>1 DEF PyPose, PyPosition, HasKeys
  <2> QED BY <1>3, <2>2 DEF PyReadPayload
<1>4. CASE command = "head.recenter"
  <2>1. PyPose(v, {})
    BY <1>4 DEF PyPayload
  <2>2. "position" \notin Keys(v)
    BY <2>1 DEF PyPose, HasKeys
  <2> QED BY <1>4, <2>2 DEF PyReadPayload
<1>5. CASE command \in {"session.stop", "emergency_stop"}
  BY <1>5 DEF PyReadPayload
<1> QED BY <1>1, <1>2, <1>3, <1>4, <1>5 DEF WireCommand

LEMMA Alike ==
    ASSUME NEW d, PyAccepts(d), CsAccepts(d)
    PROVE  PyRead(d) = CsRead(d)
<1> DEFINE v == At(d.root, "payload")
<1>1. PICK command \in WireCommand : At(d.root, "command") = String(command) /\ PyPayload(command, v)
  BY DEF PyAccepts
<1>2. PICK other \in WireCommand : At(d.root, "command") = String(other) /\ CsPayload(other, v)
  BY DEF CsAccepts
<1>3. At(d.root, "command").text = command /\ command = other
  BY <1>1, <1>2 DEF String
<1>4. /\ Signed(At(d.root, "sequence")) = At(d.root, "sequence").magnitude
      /\ Signed(At(d.root, "timestamp_ms")) = At(d.root, "timestamp_ms").magnitude
  BY DEF CsAccepts, CsInteger, Signed
<1>5. PyPayload(command, v) /\ CsPayload(command, v)
  BY <1>1, <1>2, <1>3
<1> HIDE DEF v
<1> QED BY <1>3, <1>4, <1>5, AlikePayload DEF PyRead, CsRead, v

--------------------------------------------------------------------------------

IsRotation(v) == HasKeys(v, XYZW, {}) /\ \A name \in XYZW : At(v, name).kind = "number"

(* A value that both decoders judge alike, once they parse its document.   *)
Common(v) ==
    /\ WellFormed(v)
    /\ v.kind = "string" => v.text \notin (PythonBlank \ DotnetBlank) \cup (DotnetLong \ PythonLong)
    /\ v.kind = "number" => ~(v.negative /\ v.magnitude = Zero)
    /\ IsRotation(v) => ~Borderline(v) /\ ~(SquareSum(v) > DotnetLimit)

LEMMA CommonName ==
    ASSUME NEW v, Common(v)
    PROVE  /\ PyName(v) <=> CsName(v)
           /\ PyName(v) /\ v.text \notin PythonLong <=> CsMode(v)
BY DotnetConstants DEF Common, PyName, CsName, CsMode

LEMMA CommonInteger ==
    ASSUME NEW v, Common(v), NEW minimum \in {Zero, One}
    PROVE  PyInteger(v, minimum) <=> CsInteger(v, minimum)
<1>1. CASE v.kind = "number"
  <2>1. v.negative \in BOOLEAN /\ v.magnitude \in Nat
    BY <1>1 DEF Common, WellFormed
  <2>2. v.negative => v.magnitude # 0
    BY <1>1 DEF Common, Zero
  <2>3. CASE v.negative
    <3>1. Signed(v) = -v.magnitude /\ ~(minimum <= Signed(v))
      BY <2>1, <2>2, <2>3, NumberConstants DEF Signed, Zero
    <3> QED BY <2>3, <3>1 DEF PyInteger, CsInteger
  <2>4. CASE ~v.negative
    BY <2>4 DEF PyInteger, CsInteger, Signed
  <2> QED BY <2>3, <2>4
<1> QED BY <1>1 DEF PyInteger, CsInteger

(* The square of a length is a natural number.                             *)
LEMMA SquareSumType ==
    ASSUME NEW v, IsRotation(v), WellFormed(v), \A w \in Children(v) : WellFormed(w)
    PROVE  SquareSum(v) \in Nat
<1>1. \A name \in XYZW : At(v, name) \in Children(v)
  BY ChildOf DEF IsRotation, HasKeys
<1>2. \A name \in XYZW : At(v, name).magnitude \in Nat
  BY <1>1 DEF IsRotation, WellFormed
<1>3. \A m, n \in Nat : m * m \in Nat /\ m + n \in Nat
  OBVIOUS
<1> DEFINE Square(name) == At(v, name).magnitude * At(v, name).magnitude
<1>4. \A name \in XYZW : Square(name) \in Nat
  BY <1>2, <1>3
<1>5. SquareSum(v) = Square("x") + Square("y") + Square("z") + Square("w")
  BY DEF SquareSum
<1> HIDE DEF Square
<1> QED BY <1>4, <1>5 DEF XYZW

LEMMA CommonQuaternion ==
    ASSUME NEW v, Common(v), \A w \in Children(v) : Common(w)
    PROVE  PyQuaternion(v) <=> CsQuaternion(v)
<1> SUFFICES ASSUME HasKeys(v, XYZW, {}), \A name \in XYZW : PyFinite(At(v, name))
             PROVE  PythonNull < SquareSum(v) /\ SquareSum(v) <= PythonLimit <=> CsLength(v)
  BY DEF PyQuaternion, CsQuaternion, PyFinite, CsFinite
<1>1. IsRotation(v)
  BY DEF IsRotation, PyFinite
<1>2. SquareSum(v) \in Nat
  BY <1>1, SquareSumType DEF Common
<1>3. ~Borderline(v) /\ ~(SquareSum(v) > DotnetLimit)
  BY <1>1 DEF Common
<1> QED BY <1>2, <1>3, NumberConstants, SquareConstants DEF CsLength, Borderline

LEMMA CommonPose ==
    ASSUME NEW v, NEW optional, WellFormed(v), \A w \in Children(v) : Common(w),
           \A w \in Children(v) : \A u \in Children(w) : Common(u)
    PROVE  PyPose(v, optional) <=> CsPose(v, optional)
<1> SUFFICES ASSUME HasKeys(v, {"frame", "orientation"}, optional)
             PROVE  PyPose(v, optional) <=> CsPose(v, optional)
  BY DEF PyPose, CsPose
<1>1. PyQuaternion(At(v, "orientation")) <=> CsQuaternion(At(v, "orientation"))
  <2>1. At(v, "orientation") \in Children(v)
    BY ChildOf DEF HasKeys
  <2> QED BY <2>1, CommonQuaternion
<1> QED BY <1>1 DEF PyPose, CsPose, PyPosition, PyFinite, CsFinite

LEMMA CommonPayload ==
    ASSUME NEW command \in WireCommand, NEW v, WellFormed(v), \A w \in Children(v) : Common(w),
           \A w \in Children(v) : \A u \in Children(w) : Common(u)
    PROVE  PyPayload(command, v) <=> CsPayload(command, v)
<1>1. CASE command = "session.start"
  BY <1>1 DEF PyPayload, CsPayload
<1>2. CASE command = "mode.set"
  <2> SUFFICES ASSUME HasKeys(v, {"mode"}, {})
               PROVE  PyName(At(v, "mode")) /\ At(v, "mode").text \notin PythonLong <=> CsMode(At(v, "mode"))
    BY <1>2 DEF PyPayload, CsPayload
  <2>1. At(v, "mode") \in Children(v)
    BY ChildOf DEF HasKeys
  <2> QED BY <2>1, CommonName
<1>3. CASE command \in {"head.pose", "head.recenter"}
  <2>1. \A optional : PyPose(v, optional) <=> CsPose(v, optional)
    BY CommonPose
  <2> QED BY <1>3, <2>1 DEF PyPayload, CsPayload
<1>4. CASE command \in {"session.stop", "emergency_stop"}
  BY <1>4 DEF PyPayload, CsPayload
<1> QED BY <1>1, <1>2, <1>3, <1>4 DEF WireCommand

(* The numbers of a document the Unity decoder accepts are longs and       *)
(* doubles, all of them: no name repeats, and all names are known.         *)
LEMMA FewDigits ==
    ASSUME NEW d, \A v \in Values(d.root) : WellFormed(v), CsAccepts(d)
    PROVE  \A v \in Values(d.root) : v.kind = "number" => v.magnitude <= MaxDigits
<1> DEFINE Few(v) == v.kind = "number" => v.magnitude <= MaxDigits
           Leaf(v) == Few(v) /\ Children(v) = {}
           p == At(d.root, "payload")
<1>1. \A v \in Values(d.root) :
          v.kind = "object" => \A w \in Children(v) : \E key \in Keys(v) : w = At(v, key)
  <2>1. \A v \in Values(d.root) : v.kind = "object" => ~Repeats(v)
    BY DEF CsAccepts, CsParses
  <2> QED BY <2>1, ChildrenAt
<1>2. /\ \A t : Leaf(String(t))
      /\ \A v : v.kind \notin {"number", "object"} => Leaf(v)
  BY DEF String, Children
<1>3. \A v \in Values(d.root) : CsFinite(v) \/ (\E m : CsInteger(v, m)) => Leaf(v)
  <2> TAKE v \in Values(d.root)
  <2> HAVE CsFinite(v) \/ \E m : CsInteger(v, m)
  <2>1. v.kind = "number" /\ (v.magnitude <= MaxDouble \/ v.magnitude <= MaxInt64)
    BY DEF CsFinite, CsInteger
  <2>2. v.magnitude \in Nat
    BY <2>1 DEF WellFormed
  <2>3. v.magnitude <= MaxDigits
    BY <2>1, <2>2, NumberConstants
  <2> QED BY <2>1, <2>3 DEF Children
<1> HIDE DEF Leaf
<1>4. d.root.kind = "object" /\ Keys(d.root) = EnvelopeKeys
  BY DEF CsAccepts, HasKeys
<1>5. p \in Children(d.root) /\ p \in Values(d.root)
      /\ \A w \in Children(d.root) : w = p \/ Leaf(w)
  <2>1. d.root \in Values(d.root)
    BY Depths
  <2>2. \A key \in EnvelopeKeys : At(d.root, key) \in Children(d.root)
    BY <1>4, <2>1, ChildOf DEF CsAccepts
  <2>3. \A key \in EnvelopeKeys : At(d.root, key) \in Values(d.root)
    BY <2>2, Depths
  <2>4. Leaf(At(d.root, "schema_version")) /\ Leaf(At(d.root, "command"))
    BY <1>2 DEF CsAccepts
  <2>5. Leaf(At(d.root, "session_id"))
    BY <1>2 DEF CsAccepts, CsName
  <2>6. Leaf(At(d.root, "sequence")) /\ Leaf(At(d.root, "timestamp_ms"))
    BY <1>3, <2>3 DEF CsAccepts, EnvelopeKeys
  <2>7. \A w \in Children(d.root) : \E key \in EnvelopeKeys : w = At(d.root, key)
    BY <1>1, <1>4, <2>1
  <2> QED BY <2>2, <2>3, <2>4, <2>5, <2>6, <2>7 DEF EnvelopeKeys
<1>6. PICK command \in WireCommand : CsPayload(command, p)
  BY DEF CsAccepts
<1>7. p.kind = "object"
  BY <1>6 DEF CsPayload, CsPose, HasKeys, WireCommand
<1> HIDE DEF p
<1>8. ASSUME NEW v \in Children(p), v.kind = "object",
             \E names \in {XYZ, XYZW} : HasKeys(v, names, {}) /\ \A name \in names : CsFinite(At(v, name))
      PROVE  Few(v) /\ \A u \in Children(v) : Leaf(u)
  <2>1. PICK names \in {XYZ, XYZW} :
            HasKeys(v, names, {}) /\ \A name \in names : CsFinite(At(v, name))
    BY <1>8
  <2>2. v \in Values(d.root) /\ Children(v) \subseteq Values(d.root)
    BY <1>5, Depths
  <2>3. \A u \in Children(v) : CsFinite(u)
    BY <1>1, <1>8, <2>1, <2>2 DEF HasKeys
  <2> QED BY <1>3, <1>8, <2>2, <2>3
<1>9. \A w \in Children(p) : Few(w) /\ \A u \in Children(w) : Leaf(u)
  <2>1. \A w \in Children(p) : \E key \in Keys(p) : w = At(p, key)
    BY <1>1, <1>5, <1>7
  <2>2. \A w : Leaf(w) => Few(w) /\ Children(w) = {}
    BY DEF Leaf
  <2>3. CASE command = "session.start"
    <3>1. HasKeys(p, {"requested_mode"}, {}) /\ At(p, "requested_mode") = String("head")
      BY <1>6, <2>3 DEF CsPayload
    <3> QED BY <1>2, <2>1, <2>2, <3>1 DEF HasKeys
  <2>4. CASE command = "mode.set"
    <3>1. HasKeys(p, {"mode"}, {}) /\ At(p, "mode").kind = "string"
      BY <1>6, <2>4 DEF CsPayload, CsMode, CsName
    <3> QED BY <1>2, <2>1, <2>2, <3>1 DEF HasKeys
  <2>5. CASE command \in {"session.stop", "emergency_stop"}
    <3>1. HasKeys(p, {}, {})
      BY <1>6, <2>5 DEF CsPayload
    <3> QED BY <2>1, <3>1 DEF HasKeys
  <2>6. CASE command \in {"head.pose", "head.recenter"}
    <3>1. PICK optional \in {{"position"}, {}} : CsPose(p, optional)
      BY <1>6, <2>6 DEF CsPayload
    <3>2. \A w \in Children(p) : \/ w = At(p, "frame") \/ w = At(p, "orientation")
                                 \/ w = At(p, "position") /\ "position" \in Keys(p)
      BY <2>1, <3>1 DEF CsPose, HasKeys
    <3>3. Leaf(At(p, "frame"))
      BY <1>2, <3>1 DEF CsPose
    <3>4. LET o == At(p, "orientation")
          IN  o.kind = "object" /\ HasKeys(o, XYZW, {}) /\ \A name \in XYZW : CsFinite(At(o, name))
      BY <3>1 DEF CsPose, CsQuaternion, HasKeys
    <3>5. LET q == At(p, "position")
          IN  "position" \in Keys(p) /\ q.kind # "null" =>
                q.kind = "object" /\ HasKeys(q, XYZ, {}) /\ \A name \in XYZ : CsFinite(At(q, name))
      BY <3>1 DEF CsPose, HasKeys
    <3>6. At(p, "position").kind = "null" => Leaf(At(p, "position"))
      BY <1>2
    <3> QED BY <1>8, <2>2, <3>2, <3>3, <3>4, <3>5, <3>6
  <2> QED BY <1>6, <2>3, <2>4, <2>5, <2>6 DEF WireCommand
<1>10. \A w : Leaf(w) => Few(w) /\ Children(w) = {}
  BY DEF Leaf
<1>11. Few(d.root) /\ Few(p)
  BY <1>4, <1>7
<1> HIDE DEF Few
<1>12. \A v \in Values(d.root) : Few(v)
  BY <1>5, <1>9, <1>10, <1>11 DEF Values
<1> QED BY <1>12 DEF Few

LEMMA CommonDocument ==
    ASSUME NEW d, \A v \in Values(d.root) : WellFormed(v), ~KnownDifference(d)
    PROVE  PyAccepts(d) <=> CsAccepts(d)
<1>1. \A v \in Values(d.root) : Common(v)
  BY DEF KnownDifference, Common, Rotations, IsRotation
<1> DEFINE few == \A v \in Values(d.root) : v.kind = "number" => v.fraction \/ v.magnitude <= MaxDigits
<1>2. PyParses(d) <=> CsParses(d) /\ few
  <2>1. d.layout # "oddly spaced"
    BY DEF KnownDifference
  <2> QED BY <2>1 DEF PyParses, CsParses
<1>0. CsAccepts(d) => few
  BY FewDigits
<1> HIDE DEF few
<1> SUFFICES ASSUME HasKeys(d.root, EnvelopeKeys, {}), few
             PROVE  PyAccepts(d) <=> CsAccepts(d)
  BY <1>0, <1>2 DEF PyAccepts, CsAccepts
<1>3. \A key \in EnvelopeKeys : At(d.root, key) \in Children(d.root)
  <2>1. WellFormed(d.root)
    BY <1>1, Depths DEF Common
  <2> QED BY <2>1, ChildOf DEF HasKeys
<1>4. \A key \in EnvelopeKeys : Common(At(d.root, key))
  BY <1>1, <1>3, Depths
<1>5. PyName(At(d.root, "session_id")) <=> CsName(At(d.root, "session_id"))
  BY <1>4, CommonName DEF EnvelopeKeys
<1>6. /\ PyInteger(At(d.root, "sequence"), One) <=> CsInteger(At(d.root, "sequence"), One)
      /\ PyInteger(At(d.root, "timestamp_ms"), Zero) <=> CsInteger(At(d.root, "timestamp_ms"), Zero)
  BY <1>4, CommonInteger DEF EnvelopeKeys
<1>7. \A command \in WireCommand :
          PyPayload(command, At(d.root, "payload")) <=> CsPayload(command, At(d.root, "payload"))
  <2>1. At(d.root, "payload") \in Children(d.root) /\ WellFormed(At(d.root, "payload"))
    BY <1>3, <1>4 DEF EnvelopeKeys, Common
  <2>2. \A w \in Children(At(d.root, "payload")) : Common(w) /\ \A u \in Children(w) : Common(u)
    BY <1>1, <2>1, Depths
  <2> QED BY <2>1, <2>2, CommonPayload
<1> QED BY <1>2, <1>5, <1>6, <1>7 DEF PyAccepts, CsAccepts
--------------------------------------------------------------------------------

(* Sequences, element by element.                                          *)
LEMMA Joined ==
    ASSUME NEW S, NEW s \in Seq(S), NEW t \in Seq(S)
    PROVE  /\ s \o t \in Seq(S) /\ DOMAIN (s \o t) = 1..(Len(s) + Len(t))
           /\ \A i \in 1..Len(s) : (s \o t)[i] = s[i]
           /\ \A i \in 1..Len(t) : (s \o t)[Len(s) + i] = t[i]
BY ConcatProperties

(* Literal objects: members with different names are found by name.        *)
LEMMA SequenceOf ==
    ASSUME NEW S, NEW m \in Seq(S)
    PROVE  m \in Seq(ToSet(m))
BY DEF ToSet

(* An object whose members have names of their own.                        *)
LEMMA ObjectOf ==
    ASSUME NEW S, NEW m \in Seq(S), \A i, j \in DOMAIN m : m[i][1] = m[j][1] => i = j
    PROVE  /\ WellFormed(Object(m)) /\ Object(m).kind = "object" /\ Object(m).members = m
           /\ \A i \in DOMAIN m : At(Object(m), m[i][1]) = m[i][2]
           /\ Keys(Object(m)) = {m[i][1] : i \in DOMAIN m}
           /\ Children(Object(m)) = {m[i][2] : i \in DOMAIN m}
<1> DEFINE v == Object(m)
<1>1. v.kind = "object" /\ v.members = m
  BY DEF Object
<1>2. m \in Seq(ToSet(m))
  BY SequenceOf
<1>3. WellFormed(v)
  BY <1>1, <1>2 DEF WellFormed
<1>4. Keys(v) = {m[i][1] : i \in DOMAIN m} /\ Children(v) = {m[i][2] : i \in DOMAIN m}
  BY <1>1 DEF Keys, Children
<1>5. \A i \in DOMAIN m : At(v, m[i][1]) = m[i][2]
  <2> HIDE DEF v
  <2> TAKE i \in DOMAIN m
  <2>1. \A j \in DOMAIN v.members : v.members[j][1] = v.members[i][1] => j = i
    BY <1>1
  <2> QED BY <1>1, <1>2, <2>1, AtUnique
<1> QED BY <1>1, <1>3, <1>4, <1>5

LEMMA ScalarKinds ==
    /\ \A t : String(t).kind = "string" /\ String(t).text = t /\ WellFormed(String(t))
              /\ Children(String(t)) = {}
    /\ \A n, m, f : Number(n, m, f).kind = "number" /\ Children(Number(n, m, f)) = {}
BY DEF String, Number, WellFormed, Children

LEMMA NumberType ==
    ASSUME NEW n \in BOOLEAN, NEW m \in Nat, NEW f \in BOOLEAN
    PROVE  WellFormed(Number(n, m, f))
<1> DEFINE v == Number(n, m, f)
<1>1. v = [kind |-> "number", negative |-> n, magnitude |-> m, fraction |-> f]
  BY DEF Number
<1>2. v \in [kind : {"number"}, negative : BOOLEAN, magnitude : Nat, fraction : BOOLEAN]
  BY <1>1
<1>3. v.kind = "number"
  BY <1>1
<1> QED BY <1>2, <1>3 DEF WellFormed

LEMMA Literals ==
    /\ \A n \in Long : /\ WellFormed(LongLiteral(n)) /\ Signed(LongLiteral(n)) = n
                       /\ LongLiteral(n).magnitude <= MaxDigits
                       /\ LongLiteral(n).kind = "number" /\ Children(LongLiteral(n)) = {}
    /\ \A n \in Double : /\ WellFormed(DoubleLiteral(n)) /\ Signed(DoubleLiteral(n)) = n
                         /\ DoubleLiteral(n).magnitude <= MaxDigits
                         /\ DoubleLiteral(n).kind = "number" /\ Children(DoubleLiteral(n)) = {}
<1> DEFINE Held == {n \in Int : Magnitude(n) <= MaxDigits}
<1>1. ASSUME NEW n \in Held, NEW f \in BOOLEAN
      PROVE  LET v == Number(n < 0, Magnitude(n), f)
             IN  /\ WellFormed(v) /\ Signed(v) = n /\ v.magnitude <= MaxDigits
                 /\ v.kind = "number" /\ Children(v) = {}
  <2> DEFINE v == Number(n < 0, Magnitude(n), f)
  <2>1. v = [kind |-> "number", negative |-> n < 0, magnitude |-> Magnitude(n), fraction |-> f]
    BY DEF Number
  <2>2. (n < 0) \in BOOLEAN /\ Magnitude(n) \in Nat /\ Magnitude(n) <= MaxDigits
    BY DEF Magnitude
  <2>3. (n < 0 => -Magnitude(n) = n) /\ (~(n < 0) => Magnitude(n) = n)
    BY DEF Magnitude
  <2>4. v.kind = "number" /\ v.negative = (n < 0) /\ v.magnitude = Magnitude(n)
    BY <2>1
  <2>5. WellFormed(v)
    BY <2>2, NumberType, Zenon
  <2> HIDE DEF v
  <2>6. Signed(v) = n
    BY <2>3, <2>4 DEF Signed
  <2>7. v.magnitude <= MaxDigits
    BY <2>2, <2>4
  <2>8. Children(v) = {}
    BY <2>4 DEF Children
  <2> QED BY <2>4, <2>5, <2>6, <2>7, <2>8 DEF v
<1>2. Long \subseteq Held /\ Double \subseteq Held
  <2>1. ASSUME NEW n \in Int, NEW m \in Nat, -m <= n, n <= m, m <= MaxDigits
        PROVE  n \in Held
    BY <2>1, NumberConstants DEF Magnitude
  <2>2. \A n \in Long : n \in Int /\ -(MaxInt64 + One) <= n /\ n <= MaxInt64 + One
    BY NumberConstants DEF Long
  <2>3. \A n \in Double : n \in Int /\ -(MaxDouble + 1) <= n /\ n <= MaxDouble + 1
    BY NumberConstants DEF Double
  <2>4. /\ MaxInt64 + One \in Nat /\ MaxInt64 + One <= MaxDigits
        /\ MaxDouble + 1 \in Nat /\ MaxDouble + 1 <= MaxDigits
    BY NumberConstants
  <2> HIDE DEF Held
  <2> QED BY <2>1, <2>2, <2>3, <2>4
<1> HIDE DEF Held
<1>3. \A n \in Held :
          /\ LongLiteral(n) = Number(n < 0, Magnitude(n), FALSE)
          /\ \E f \in BOOLEAN : DoubleLiteral(n) = Number(n < 0, Magnitude(n), f)
  <2>1. \A n : (Magnitude(n) % One # 0 \/ Magnitude(n) > MaxInt64) \in BOOLEAN
    OBVIOUS
  <2> QED BY <2>1, Zenon DEF LongLiteral, DoubleLiteral
<1>4. \A n \in Held :
          /\ WellFormed(LongLiteral(n)) /\ Signed(LongLiteral(n)) = n
          /\ LongLiteral(n).magnitude <= MaxDigits
          /\ LongLiteral(n).kind = "number" /\ Children(LongLiteral(n)) = {}
          /\ WellFormed(DoubleLiteral(n)) /\ Signed(DoubleLiteral(n)) = n
          /\ DoubleLiteral(n).magnitude <= MaxDigits
          /\ DoubleLiteral(n).kind = "number" /\ Children(DoubleLiteral(n)) = {}
  <2> TAKE n \in Held
  <2>1. FALSE \in BOOLEAN
    OBVIOUS
  <2>2. PICK f \in BOOLEAN : DoubleLiteral(n) = Number(n < 0, Magnitude(n), f)
    BY <1>3
  <2> QED BY <1>1, <1>3, <2>1, <2>2, Zenon
<1> HIDE DEF Long, Double
<1> QED BY <1>2, <1>4

(* The document of a vector.                                               *)
LEMMA VectorMembers ==
    ASSUME NEW S, NEW names \in Seq(S), \A i, j \in DOMAIN names : names[i] = names[j] => i = j,
           NEW vector
    PROVE  LET v == VectorDocument(vector, names)
           IN  /\ WellFormed(v) /\ v.kind = "object"
               /\ \A name \in ToSet(names) : At(v, name) = DoubleLiteral(vector[name])
               /\ Children(v) = {DoubleLiteral(vector[name]) : name \in ToSet(names)}
<1> DEFINE m == [i \in DOMAIN names |-> <<names[i], DoubleLiteral(vector[names[i]])>>]
<1>1. /\ DOMAIN m = DOMAIN names
      /\ \A i \in DOMAIN names : m[i] = <<names[i], DoubleLiteral(vector[names[i]])>>
  OBVIOUS
<1>2. m \in Seq({m[i] : i \in DOMAIN names})
  OBVIOUS
<1>3. VectorDocument(vector, names) = Object(m)
  BY DEF VectorDocument
<1> HIDE DEF m
<1>4. \A i, j \in DOMAIN m : m[i][1] = m[j][1] => i = j
  BY <1>1
<1>5. /\ WellFormed(Object(m)) /\ Object(m).kind = "object" /\ Object(m).members = m
      /\ \A i \in DOMAIN m : At(Object(m), m[i][1]) = m[i][2]
      /\ Children(Object(m)) = {m[i][2] : i \in DOMAIN m}
  BY <1>2, <1>4, ObjectOf
<1>6. \A i \in DOMAIN names : At(Object(m), names[i]) = DoubleLiteral(vector[names[i]])
  BY <1>1, <1>5
<1>7. Children(Object(m)) = {DoubleLiteral(vector[names[i]]) : i \in DOMAIN names}
  BY <1>1, <1>5
<1>8. {DoubleLiteral(vector[names[i]]) : i \in DOMAIN names}
        = {DoubleLiteral(vector[name]) : name \in ToSet(names)}
  BY DEF ToSet
<1>9. \A name \in ToSet(names) : At(Object(m), name) = DoubleLiteral(vector[name])
  BY <1>6 DEF ToSet
<1> QED BY <1>3, <1>5, <1>7, <1>8, <1>9, Zenon

LEMMA Axes ==
    /\ <<"x", "y", "z">> \in Seq(XYZ) /\ ToSet(<<"x", "y", "z">>) = XYZ
    /\ <<"x", "y", "z", "w">> \in Seq(XYZW) /\ ToSet(<<"x", "y", "z", "w">>) = XYZW
    /\ LET s == <<"x", "y", "z">> IN \A i, j \in DOMAIN s : s[i] = s[j] => i = j
    /\ LET s == <<"x", "y", "z", "w">> IN \A i, j \in DOMAIN s : s[i] = s[j] => i = j
<1> DEFINE s == <<"x", "y", "z">>
           t == <<"x", "y", "z", "w">>
<1>1. s \in Seq(XYZ) /\ DOMAIN s = 1..3 /\ s[1] = "x" /\ s[2] = "y" /\ s[3] = "z"
  BY DEF XYZ
<1>2. t \in Seq(XYZW) /\ DOMAIN t = 1..4 /\ t[1] = "x" /\ t[2] = "y" /\ t[3] = "z" /\ t[4] = "w"
  BY DEF XYZW
<1> HIDE DEF s, t
<1>3. /\ \A i \in DOMAIN s : i = 1 \/ i = 2 \/ i = 3
      /\ \A i \in DOMAIN t : i = 1 \/ i = 2 \/ i = 3 \/ i = 4
  BY <1>1, <1>2
<1>4. ToSet(s) = XYZ /\ ToSet(t) = XYZW
  BY <1>1, <1>2, <1>3 DEF ToSet, XYZ, XYZW
<1>5. (\A i, j \in DOMAIN s : s[i] = s[j] => i = j) /\ (\A i, j \in DOMAIN t : t[i] = t[j] => i = j)
  BY <1>1, <1>2, <1>3
<1> QED BY <1>1, <1>2, <1>4, <1>5 DEF s, t

LEMMA RootMembers ==
    ASSUME NEW dto
    PROVE  LET r == CsDocument(dto).root
           IN  /\ WellFormed(r)
               /\ At(r, "command") = String(dto.command)
               /\ At(r, "session_id") = String(dto.sessionId)
               /\ At(r, "sequence") = LongLiteral(dto.sequence)
               /\ At(r, "timestamp_ms") = LongLiteral(dto.timestamp)
               /\ At(r, "payload") = PayloadDocument(dto)
               /\ Children(r) =
                    { String("0.1"), String(dto.command), String(dto.sessionId),
                      LongLiteral(dto.sequence), LongLiteral(dto.timestamp), PayloadDocument(dto) }
<1> DEFINE m == << <<"schema_version", String("0.1")>>, <<"command", String(dto.command)>>,
                   <<"session_id", String(dto.sessionId)>>, <<"sequence", LongLiteral(dto.sequence)>>,
                   <<"timestamp_ms", LongLiteral(dto.timestamp)>>, <<"payload", PayloadDocument(dto)>> >>
           r == Object(m)
<1>1. CsDocument(dto).root = r
  BY DEF CsDocument
<1>2. m \in Seq({m[1], m[2], m[3], m[4], m[5], m[6]}) /\ DOMAIN m = 1..6
  OBVIOUS
<1>3. \A i \in DOMAIN m : i = 1 \/ i = 2 \/ i = 3 \/ i = 4 \/ i = 5 \/ i = 6
  BY <1>2
<1>4. \A i, j \in DOMAIN m : m[i][1] = m[j][1] => i = j
  <2>1. /\ m[1][1] = "schema_version" /\ m[2][1] = "command" /\ m[3][1] = "session_id"
        /\ m[4][1] = "sequence" /\ m[5][1] = "timestamp_ms" /\ m[6][1] = "payload"
    OBVIOUS
  <2> HIDE DEF m
  <2> QED BY <2>1, <1>3
<1>5. /\ WellFormed(r) /\ \A i \in DOMAIN m : At(r, m[i][1]) = m[i][2]
      /\ Children(r) = {m[i][2] : i \in DOMAIN m}
  <2> HIDE DEF m
  <2> QED BY <1>2, <1>4, ObjectOf
<1>6. /\ At(r, m[2][1]) = m[2][2] /\ At(r, m[3][1]) = m[3][2] /\ At(r, m[4][1]) = m[4][2]
      /\ At(r, m[5][1]) = m[5][2] /\ At(r, m[6][1]) = m[6][2]
  BY <1>2, <1>5
<1>7. Children(r) = {m[1][2], m[2][2], m[3][2], m[4][2], m[5][2], m[6][2]}
  <2> HIDE DEF m
  <2> QED BY <1>2, <1>3, <1>5
<1> QED BY <1>1, <1>5, <1>6, <1>7

(* The document of a payload and the vectors in it.                        *)
IsPose(dto) == dto.command \in {"head.pose", "head.recenter"}

LEMMA PoseMembers ==
    ASSUME NEW dto, IsPose(dto), NEW T, dto.payload.position \in SUBSET T,
           \A p, q \in dto.payload.position : p = q
    PROVE  LET v == PayloadDocument(dto)
               o == VectorDocument(dto.payload.orientation, <<"x", "y", "z", "w">>)
               P == dto.payload.position
           IN  /\ WellFormed(v)
               /\ At(v, "orientation") = o
               /\ "position" \in Keys(v) <=> P # {}
               /\ \A p \in P : At(v, "position") = VectorDocument(p, <<"x", "y", "z">>)
               /\ Children(v) = {String("quest_local"), o} \cup {VectorDocument(p, <<"x", "y", "z">>) : p \in P}
<1> DEFINE v == PayloadDocument(dto)
           o == VectorDocument(dto.payload.orientation, <<"x", "y", "z", "w">>)
           P == dto.payload.position
           front == << <<"frame", String("quest_local")>>, <<"orientation", o>> >>
           back == [i \in 1..Cardinality(P) |->
                      <<"position", VectorDocument(CHOOSE p \in P : TRUE, <<"x", "y", "z">>)>>]
           m == front \o back
<1>1. v = Object(m)
  BY DEF PayloadDocument, IsPose
<1>2. /\ front \in Seq({front[1], front[2]}) /\ Len(front) = 2 /\ DOMAIN front = 1..2
      /\ front[1] = <<"frame", String("quest_local")>> /\ front[2] = <<"orientation", o>>
  OBVIOUS
<1>3. CASE P = {}
  <2>1. Cardinality(P) = 0
    BY <1>3, FS_EmptySet
  <2>2. back = <<>>
    BY <2>1
  <2> HIDE DEF front, back
  <2>3. m = front
    BY <1>2, <2>2
  <2>4. \A i, j \in DOMAIN front : front[i][1] = front[j][1] => i = j
    BY <1>2
  <2>5. /\ WellFormed(Object(front))
        /\ \A i \in DOMAIN front : At(Object(front), front[i][1]) = front[i][2]
        /\ Keys(Object(front)) = {front[i][1] : i \in DOMAIN front}
        /\ Children(Object(front)) = {front[i][2] : i \in DOMAIN front}
    BY <1>2, <2>4, ObjectOf
  <2>6. Keys(Object(front)) = {"frame", "orientation"} /\ Children(Object(front)) = {String("quest_local"), o}
    BY <1>2, <2>5
  <2>7. At(Object(front), "orientation") = o
    BY <1>2, <2>5
  <2>8. {VectorDocument(p, <<"x", "y", "z">>) : p \in P} = {}
    BY <1>3
  <2>9. v = Object(front) /\ "position" \notin Keys(v)
    BY <1>1, <2>3, <2>6
  <2> HIDE DEF v, o, P
  <2>10. /\ WellFormed(v) /\ At(v, "orientation") = o
         /\ "position" \in Keys(v) <=> P # {}
         /\ \A p \in P : At(v, "position") = VectorDocument(p, <<"x", "y", "z">>)
         /\ Children(v) = {String("quest_local"), o} \cup {VectorDocument(p, <<"x", "y", "z">>) : p \in P}
    BY <1>3, <2>5, <2>6, <2>7, <2>8, <2>9
  <2> QED BY <2>10 DEF v, o, P
<1>4. CASE P # {}
  <2>1. PICK p \in P : TRUE
    BY <1>4
  <2>2. P = {p} /\ (CHOOSE q \in P : TRUE) = p
    BY <2>1
  <2>3. Cardinality(P) = 1
    BY <2>2, FS_Singleton
  <2> DEFINE w == VectorDocument(p, <<"x", "y", "z">>)
  <2>4. back = <<<<"position", w>>>>
    BY <2>2, <2>3
  <2> HIDE DEF front, back, o, w, P
  <2>5. /\ m \in Seq({front[1], front[2], <<"position", w>>}) /\ DOMAIN m = 1..3
        /\ m[1] = front[1] /\ m[2] = front[2] /\ m[3] = <<"position", w>>
    <3> DEFINE S == {front[1], front[2], <<"position", w>>}
    <3>1. front \in Seq(S) /\ back \in Seq(S) /\ Len(back) = 1 /\ back[1] = <<"position", w>>
      BY <1>2, <2>4
    <3> HIDE DEF S
    <3>2. /\ m \in Seq(S) /\ DOMAIN m = 1..(Len(front) + Len(back))
          /\ \A i \in 1..Len(front) : m[i] = front[i]
          /\ \A i \in 1..Len(back) : m[Len(front) + i] = back[i]
      BY <3>1, Joined
    <3> HIDE DEF m
    <3>3. DOMAIN m = 1..3 /\ m[1] = front[1] /\ m[2] = front[2] /\ m[3] = back[1]
      BY <1>2, <3>1, <3>2
    <3> QED BY <3>1, <3>2, <3>3 DEF S
  <2> HIDE DEF m
  <2>6. \A i \in DOMAIN m : i = 1 \/ i = 2 \/ i = 3
    BY <2>5
  <2>7. m[1][1] = "frame" /\ m[2][1] = "orientation" /\ m[3][1] = "position"
    BY <1>2, <2>5
  <2>8. \A i, j \in DOMAIN m : m[i][1] = m[j][1] => i = j
    BY <2>6, <2>7
  <2>9. /\ WellFormed(Object(m))
        /\ \A i \in DOMAIN m : At(Object(m), m[i][1]) = m[i][2]
        /\ Keys(Object(m)) = {m[i][1] : i \in DOMAIN m}
        /\ Children(Object(m)) = {m[i][2] : i \in DOMAIN m}
    BY <2>5, <2>8, ObjectOf
  <2>10. At(Object(m), "orientation") = o /\ At(Object(m), "position") = w
    <3>1. m[2][2] = o /\ m[3][2] = w /\ 2 \in DOMAIN m /\ 3 \in DOMAIN m
      BY <1>2, <2>5
    <3> QED BY <2>7, <2>9, <3>1
  <2>11. "position" \in Keys(Object(m)) /\ Children(Object(m)) = {String("quest_local"), o, w}
    <3>1. m[1][2] = String("quest_local") /\ m[2][2] = o /\ m[3][2] = w
      BY <1>2, <2>5
    <3>2. Children(Object(m)) = {m[1][2], m[2][2], m[3][2]}
      BY <2>5, <2>6, <2>9
    <3>3. "position" \in Keys(Object(m))
      BY <2>5, <2>7, <2>9
    <3> QED BY <3>1, <3>2, <3>3
  <2>12. {VectorDocument(q, <<"x", "y", "z">>) : q \in P} = {w}
    BY <2>2 DEF w
  <2> QED BY <1>1, <1>4, <2>2, <2>9, <2>10, <2>11, <2>12 DEF o, w, P
<1> QED BY <1>3, <1>4

(* The documents of the other payloads.                                    *)
LEMMA OneMember ==
    ASSUME NEW key, NEW w
    PROVE  LET v == Object(<< <<key, w>> >>)
           IN  WellFormed(v) /\ At(v, key) = w /\ Children(v) = {w}
<1> DEFINE m == << <<key, w>> >>
<1>1. m \in Seq({m[1]}) /\ DOMAIN m = {1} /\ m[1][1] = key /\ m[1][2] = w
  OBVIOUS
<1> HIDE DEF m
<1>2. \A i, j \in DOMAIN m : m[i][1] = m[j][1] => i = j
  BY <1>1
<1>3. /\ WellFormed(Object(m)) /\ \A i \in DOMAIN m : At(Object(m), m[i][1]) = m[i][2]
      /\ Children(Object(m)) = {m[i][2] : i \in DOMAIN m}
  BY <1>1, <1>2, ObjectOf
<1>4. Children(Object(m)) = {w} /\ At(Object(m), key) = w
  BY <1>1, <1>3
<1> QED BY <1>3, <1>4 DEF m

LEMMA NoMember == WellFormed(Object(<<>>)) /\ Children(Object(<<>>)) = {}
<1> DEFINE m == <<>>
<1>1. m \in Seq({}) /\ DOMAIN m = {}
  OBVIOUS
<1> HIDE DEF m
<1>2. WellFormed(Object(m)) /\ Children(Object(m)) = {m[i][2] : i \in DOMAIN m}
  BY <1>1, ObjectOf
<1>3. Children(Object(m)) = {}
  BY <1>1, <1>2
<1> QED BY <1>2, <1>3 DEF m

(* What a DTO is made of.                                                  *)
LEMMA DtoType ==
    ASSUME NEW dto \in Dto
    PROVE  /\ dto.command \in WireCommand /\ dto.sequence \in Long /\ dto.timestamp \in Long
           /\ dto = [ command |-> dto.command, sessionId |-> dto.sessionId, sequence |-> dto.sequence,
                      timestamp |-> dto.timestamp, payload |-> dto.payload ]
           /\ dto.command \in {"session.start", "mode.set"} => dto.payload = [mode |-> dto.payload.mode]
           /\ IsPose(dto) =>
                 /\ dto.payload = [orientation |-> dto.payload.orientation, position |-> dto.payload.position]
                 /\ dto.payload.orientation \in [XYZW -> Double]
                 /\ dto.payload.position \in SUBSET [XYZ -> Double]
                 /\ \A p, q \in dto.payload.position : p = q
           /\ dto.command \in {"session.stop", "emergency_stop"} => dto.payload = <<>>
<1>1. /\ dto \in [ command : WireCommand, sessionId : Text, sequence : Long, timestamp : Long,
                   payload : DtoPayload(dto.command) ]
      /\ IsPose(dto) => \A p, q \in dto.payload.position : p = q
  BY DtoConstants DEF IsPose
<1>2. /\ dto.command \in WireCommand /\ dto.sequence \in Long /\ dto.timestamp \in Long
      /\ dto.payload \in DtoPayload(dto.command)
      /\ dto = [ command |-> dto.command, sessionId |-> dto.sessionId, sequence |-> dto.sequence,
                 timestamp |-> dto.timestamp, payload |-> dto.payload ]
  BY <1>1
<1>3. dto.command \in {"session.start", "mode.set"} => dto.payload = [mode |-> dto.payload.mode]
  <2>1. dto.command \in {"session.start", "mode.set"} => dto.payload \in [mode : Text]
    BY <1>2 DEF DtoPayload
  <2> QED BY <2>1
<1>4. IsPose(dto) =>
        /\ dto.payload = [orientation |-> dto.payload.orientation, position |-> dto.payload.position]
        /\ dto.payload.orientation \in [XYZW -> Double]
        /\ dto.payload.position \in SUBSET [XYZ -> Double]
  <2>1. IsPose(dto) => dto.payload \in [orientation : [XYZW -> Double], position : SUBSET [XYZ -> Double]]
    BY <1>2 DEF DtoPayload, IsPose
  <2> QED BY <2>1
<1>5. dto.command \in {"session.stop", "emergency_stop"} => dto.payload = <<>>
  BY <1>2 DEF DtoPayload
<1> QED BY <1>1, <1>2, <1>3, <1>4, <1>5

LEMMA PayloadMembers ==
    ASSUME NEW dto
    PROVE  LET v == PayloadDocument(dto)
           IN  /\ dto.command = "session.start" =>
                     /\ WellFormed(v) /\ At(v, "requested_mode") = String(dto.payload.mode)
                     /\ Children(v) = {String(dto.payload.mode)}
               /\ dto.command = "mode.set" =>
                     /\ WellFormed(v) /\ At(v, "mode") = String(dto.payload.mode)
                     /\ Children(v) = {String(dto.payload.mode)}
               /\ dto.command \in {"session.stop", "emergency_stop"} => WellFormed(v) /\ Children(v) = {}
<1>1. ASSUME dto.command = "session.start"
      PROVE  PayloadDocument(dto) = Object(<< <<"requested_mode", String(dto.payload.mode)>> >>)
  BY <1>1 DEF PayloadDocument
<1>2. ASSUME dto.command = "mode.set"
      PROVE  PayloadDocument(dto) = Object(<< <<"mode", String(dto.payload.mode)>> >>)
  BY <1>2 DEF PayloadDocument
<1>3. ASSUME dto.command \in {"session.stop", "emergency_stop"}
      PROVE  PayloadDocument(dto) = Object(<<>>)
  BY <1>3 DEF PayloadDocument
<1> QED BY <1>1, <1>2, <1>3, OneMember, NoMember

(* All that is in a client's document is well formed, and its numbers have *)
(* few digits.                                                             *)
Readable(v) == WellFormed(v) /\ (v.kind = "number" => v.magnitude <= MaxDigits)

LEMMA VectorReadable ==
    /\ \A o \in [XYZW -> Double] :
          LET v == VectorDocument(o, <<"x", "y", "z", "w">>)
          IN  /\ v.kind = "object" /\ Readable(v) /\ Vector(v, XYZW) = o
              /\ \A w \in Children(v) : Readable(w) /\ Children(w) = {}
    /\ \A p \in [XYZ -> Double] :
          LET v == VectorDocument(p, <<"x", "y", "z">>)
          IN  /\ v.kind = "object" /\ Readable(v) /\ Vector(v, XYZ) = p
              /\ \A w \in Children(v) : Readable(w) /\ Children(w) = {}
<1>1. ASSUME NEW S, NEW names \in Seq(S), ToSet(names) = S,
             \A i, j \in DOMAIN names : names[i] = names[j] => i = j,
             NEW vector \in [S -> Double]
      PROVE  LET v == VectorDocument(vector, names)
             IN  /\ v.kind = "object" /\ Readable(v) /\ Vector(v, S) = vector
                 /\ \A w \in Children(v) : Readable(w) /\ Children(w) = {}
  <2> DEFINE v == VectorDocument(vector, names)
  <2>1. /\ WellFormed(v) /\ v.kind = "object"
        /\ \A name \in S : At(v, name) = DoubleLiteral(vector[name])
        /\ Children(v) = {DoubleLiteral(vector[name]) : name \in S}
    BY <1>1, VectorMembers
  <2> HIDE DEF v
  <2>2. \A name \in S : vector[name] \in Double
    BY <1>1
  <2>3. \A n \in Double : /\ Readable(DoubleLiteral(n)) /\ Children(DoubleLiteral(n)) = {}
                          /\ Signed(DoubleLiteral(n)) = n
    BY Literals DEF Readable
  <2>4. \A w \in Children(v) : Readable(w) /\ Children(w) = {}
    BY <2>1, <2>2, <2>3
  <2>5. \A name \in S : Signed(At(v, name)) = vector[name]
    BY <2>1, <2>2, <2>3
  <2>6. Vector(v, S) = vector
    BY <1>1, <2>5 DEF Vector
  <2> QED BY <2>1, <2>4, <2>6 DEF Readable, v
<1> DEFINE three == <<"x", "y", "z">>
           four == <<"x", "y", "z", "w">>
<1>2. /\ three \in Seq(XYZ) /\ ToSet(three) = XYZ /\ four \in Seq(XYZW) /\ ToSet(four) = XYZW
      /\ \A i, j \in DOMAIN three : three[i] = three[j] => i = j
      /\ \A i, j \in DOMAIN four : four[i] = four[j] => i = j
  BY Axes, Zenon
<1> HIDE DEF three, four
<1>3. \A o \in [XYZW -> Double] :
          /\ VectorDocument(o, four).kind = "object" /\ Readable(VectorDocument(o, four))
          /\ Vector(VectorDocument(o, four), XYZW) = o
          /\ \A w \in Children(VectorDocument(o, four)) : Readable(w) /\ Children(w) = {}
  BY <1>1, <1>2
<1>4. \A p \in [XYZ -> Double] :
          /\ VectorDocument(p, three).kind = "object" /\ Readable(VectorDocument(p, three))
          /\ Vector(VectorDocument(p, three), XYZ) = p
          /\ \A w \in Children(VectorDocument(p, three)) : Readable(w) /\ Children(w) = {}
  BY <1>1, <1>2
<1> QED BY <1>3, <1>4, Zenon DEF three, four

LEMMA ValuesReadable ==
    ASSUME NEW root, Readable(root), \A v \in Children(root) : Readable(v),
           \A v \in Children(root) : \A w \in Children(v) :
               Readable(w) /\ \A u \in Children(w) : Readable(u)
    PROVE  \A v \in Values(root) : Readable(v)
BY DEF Values

LEMMA ScalarsReadable ==
    /\ \A t : Readable(String(t)) /\ Children(String(t)) = {}
    /\ \A n \in Long : Readable(LongLiteral(n)) /\ Children(LongLiteral(n)) = {}
<1>1. \A t : String(t).kind = "string" /\ WellFormed(String(t)) /\ Children(String(t)) = {}
  BY ScalarKinds, Zenon
<1>2. \A t : String(t).kind # "number"
  BY DEF String
<1>3. \A t : Readable(String(t)) /\ Children(String(t)) = {}
  BY <1>1, <1>2 DEF Readable
<1>4. \A n \in Long : Readable(LongLiteral(n)) /\ Children(LongLiteral(n)) = {}
  BY Literals DEF Readable
<1> QED BY <1>3, <1>4

LEMMA PayloadReadable ==
    ASSUME NEW dto \in Dto
    PROVE  LET v == PayloadDocument(dto)
           IN  /\ Readable(v)
               /\ \A w \in Children(v) : Readable(w) /\ \A u \in Children(w) : Readable(u)
<1> DEFINE v == PayloadDocument(dto)
<1>1. CASE dto.command \in {"session.start", "mode.set"}
  <2>1. WellFormed(v) /\ Children(v) = {String(dto.payload.mode)} /\ v.kind = "object"
    BY <1>1, PayloadMembers DEF PayloadDocument, Object
  <2> HIDE DEF v
  <2>2. Readable(v)
    BY <2>1 DEF Readable
  <2> QED BY <2>1, <2>2, ScalarsReadable DEF v
<1>2. CASE dto.command \in {"session.stop", "emergency_stop"}
  <2>1. WellFormed(v) /\ Children(v) = {} /\ v.kind = "object"
    BY <1>2, PayloadMembers DEF PayloadDocument, Object
  <2> QED BY <2>1 DEF Readable
<1>3. CASE IsPose(dto)
  <2> DEFINE o == VectorDocument(dto.payload.orientation, <<"x", "y", "z", "w">>)
             P == {VectorDocument(p, <<"x", "y", "z">>) : p \in dto.payload.position}
  <2>1. /\ dto.payload.orientation \in [XYZW -> Double]
        /\ dto.payload.position \in SUBSET [XYZ -> Double]
        /\ \A p, q \in dto.payload.position : p = q
    BY <1>3, DtoType
  <2>2. WellFormed(v) /\ Children(v) = {String("quest_local"), o} \cup P
    BY <1>3, <2>1, PoseMembers
  <2>3. v.kind = "object"
    BY <1>3 DEF PayloadDocument, IsPose, Object
  <2>4. /\ Readable(o) /\ \A w \in Children(o) : Readable(w)
        /\ \A w \in P : Readable(w) /\ \A u \in Children(w) : Readable(u)
    BY <2>1, VectorReadable
  <2> HIDE DEF v, o, P
  <2>5. Readable(v)
    BY <2>2, <2>3 DEF Readable
  <2>6. Readable(String("quest_local")) /\ Children(String("quest_local")) = {}
    BY ScalarsReadable
  <2> QED BY <2>2, <2>4, <2>5, <2>6 DEF v
<1>4. dto.command \in WireCommand
  BY DtoType
<1> QED BY <1>1, <1>2, <1>3, <1>4 DEF WireCommand, IsPose

LEMMA ClientReadable ==
    ASSUME NEW dto \in Dto
    PROVE  \A v \in Values(CsDocument(dto).root) : Readable(v)
<1> DEFINE r == CsDocument(dto).root
<1>1. /\ WellFormed(r)
      /\ Children(r) =
           { String("0.1"), String(dto.command), String(dto.sessionId),
             LongLiteral(dto.sequence), LongLiteral(dto.timestamp), PayloadDocument(dto) }
  BY RootMembers
<1>2. r.kind = "object"
  BY DEF CsDocument, Object
<1> HIDE DEF r
<1>3. Readable(r)
  BY <1>1, <1>2 DEF Readable
<1>4. dto.sequence \in Long /\ dto.timestamp \in Long
  BY DtoType
<1>5. /\ Readable(String("0.1")) /\ Children(String("0.1")) = {}
      /\ Readable(String(dto.command)) /\ Children(String(dto.command)) = {}
      /\ Readable(String(dto.sessionId)) /\ Children(String(dto.sessionId)) = {}
      /\ Readable(LongLiteral(dto.sequence)) /\ Children(LongLiteral(dto.sequence)) = {}
      /\ Readable(LongLiteral(dto.timestamp)) /\ Children(LongLiteral(dto.timestamp)) = {}
  BY <1>4, ScalarsReadable
<1>6. /\ Readable(PayloadDocument(dto))
      /\ \A w \in Children(PayloadDocument(dto)) : Readable(w) /\ \A u \in Children(w) : Readable(u)
  BY PayloadReadable
<1>7. \A v \in Children(r) :
          Readable(v) /\ \A w \in Children(v) : Readable(w) /\ \A u \in Children(w) : Readable(u)
  BY <1>1, <1>5, <1>6
<1> QED BY <1>3, <1>7, ValuesReadable DEF r

(* A document the Unity decoder accepts has its rotation among its values. *)
LEMMA RotationOf ==
    ASSUME NEW d, \A v \in Values(d.root) : Readable(v), CsAccepts(d),
           NEW optional, CsPose(At(d.root, "payload"), optional)
    PROVE  LET o == At(At(d.root, "payload"), "orientation")
           IN  o \in Rotations(d) /\ SquareSum(o) \in Nat
<1> DEFINE p == At(d.root, "payload")
           o == At(p, "orientation")
<1>1. p \in Children(d.root)
  <2>1. WellFormed(d.root) /\ HasKeys(d.root, EnvelopeKeys, {}) /\ "payload" \in Keys(d.root)
    BY Depths DEF CsAccepts, Readable, HasKeys, EnvelopeKeys
  <2> QED BY <2>1, ChildOf
<1>2. o \in Children(p)
  <2>1. WellFormed(p)
    BY <1>1, Depths DEF Readable
  <2>2. HasKeys(p, {"frame", "orientation"}, optional) /\ "orientation" \in Keys(p)
    BY DEF CsPose, HasKeys
  <2> QED BY <2>1, <2>2, ChildOf
<1>3. o \in Values(d.root) /\ Children(o) \subseteq Values(d.root)
  BY <1>1, <1>2, Depths
<1>4. IsRotation(o)
  BY DEF CsPose, CsQuaternion, CsFinite, IsRotation
<1> HIDE DEF o, p
<1>5. SquareSum(o) \in Nat
  BY <1>3, <1>4, SquareSumType DEF Readable
<1>6. o \in Rotations(d)
  BY <1>3, <1>4 DEF Rotations, IsRotation
<1> QED BY <1>5, <1>6 DEF o, p

(* What the Unity decoder accepts and whose names are names in Python too, *)
(* decode_command accepts, but for a rotation at the edge.                 *)
LEMMA PyAcceptsToo ==
    ASSUME NEW d, \A v \in Values(d.root) : Readable(v), CsAccepts(d),
           PyName(At(d.root, "session_id")),
           At(d.root, "command") = String("mode.set") => PyName(At(At(d.root, "payload"), "mode")),
           \A v \in Rotations(d) : ~Borderline(v)
    PROVE  PyAccepts(d)
<1> DEFINE v == At(d.root, "payload")
<1>1. PyParses(d)
  BY DEF CsAccepts, CsParses, PyParses, Readable
<1>2. \A w, minimum : CsInteger(w, minimum) => PyInteger(w, minimum)
  BY DEF CsInteger, PyInteger, Signed
<1>3. PICK command \in WireCommand : At(d.root, "command") = String(command) /\ CsPayload(command, v)
  BY DEF CsAccepts
<1> HIDE DEF v
<1>4. \A optional : CsPose(v, optional) => PyPose(v, optional)
  <2> SUFFICES ASSUME NEW optional, CsPose(v, optional)
               PROVE  PyPose(v, optional)
    OBVIOUS
  <2> DEFINE o == At(v, "orientation")
  <2>1. ~Borderline(o) /\ SquareSum(o) \in Nat
    BY RotationOf DEF v
  <2>2. CsQuaternion(o)
    BY DEF CsPose
  <2> HIDE DEF o
  <2>3. PythonNull < SquareSum(o) /\ SquareSum(o) <= PythonLimit
    BY <2>1, <2>2, NumberConstants, SquareConstants DEF CsQuaternion, CsLength, Borderline
  <2>4. PyQuaternion(o)
    BY <2>2, <2>3 DEF CsQuaternion, PyQuaternion, CsFinite, PyFinite
  <2> QED BY <2>4 DEF CsPose, PyPose, CsFinite, PyFinite, PyPosition, o
<1>5. PyPayload(command, v)
  <2>1. CASE command = "session.start"
    BY <1>3, <2>1 DEF CsPayload, PyPayload
  <2>2. CASE command = "mode.set"
    <3>1. PyName(At(v, "mode"))
      BY <1>3, <2>2 DEF v
    <3>2. HasKeys(v, {"mode"}, {}) /\ At(v, "mode").text \notin PythonLong
      BY <1>3, <2>2, DotnetConstants DEF CsPayload, CsMode
    <3> QED BY <2>2, <3>1, <3>2 DEF PyPayload
  <2>3. CASE command = "head.pose"
    BY <1>3, <1>4, <2>3 DEF CsPayload, PyPayload
  <2>4. CASE command = "head.recenter"
    BY <1>3, <1>4, <2>4 DEF CsPayload, PyPayload
  <2>5. CASE command \in {"session.stop", "emergency_stop"}
    BY <1>3, <2>5 DEF CsPayload, PyPayload
  <2> QED BY <2>1, <2>2, <2>3, <2>4, <2>5 DEF WireCommand
<1> QED BY <1>1, <1>2, <1>3, <1>5 DEF CsAccepts, PyAccepts, v

(* The Unity decoder reads back what the encoder was given.                *)
LEMMA ReadBack ==
    ASSUME NEW dto \in Dto, CsEncodes(dto)
    PROVE  CsRead(CsDocument(dto)) = dto
<1> DEFINE d == CsDocument(dto)
           v == PayloadDocument(dto)
<1>1. /\ At(d.root, "command") = String(dto.command)
      /\ At(d.root, "session_id") = String(dto.sessionId)
      /\ At(d.root, "sequence") = LongLiteral(dto.sequence)
      /\ At(d.root, "timestamp_ms") = LongLiteral(dto.timestamp)
      /\ At(d.root, "payload") = v
  BY RootMembers
<1>2. CsAccepts(d)
  BY DEF CsEncodes
<1> HIDE DEF d, v
<1>3. \A t : String(t).text = t
  BY DEF String
<1>4. LongLiteral(dto.sequence).magnitude = dto.sequence /\ LongLiteral(dto.timestamp).magnitude = dto.timestamp
  <2>1. /\ Signed(LongLiteral(dto.sequence)) = dto.sequence
        /\ Signed(LongLiteral(dto.timestamp)) = dto.timestamp
    BY Literals, DtoType
  <2>2. ~LongLiteral(dto.sequence).negative /\ ~LongLiteral(dto.timestamp).negative
    BY <1>1, <1>2 DEF CsAccepts, CsInteger
  <2> QED BY <2>1, <2>2 DEF Signed
<1>5. CsPayload(dto.command, v)
  <2>1. PICK command \in WireCommand : At(d.root, "command") = String(command) /\ CsPayload(command, v)
    BY <1>1, <1>2 DEF CsAccepts
  <2> QED BY <1>1, <1>3, <2>1
<1> DEFINE position == IF dto.command = "head.pose" /\ "position" \in Keys(v) /\ At(v, "position").kind # "null"
                       THEN {Vector(At(v, "position"), XYZ)} ELSE {}
           payload == CASE dto.command = "session.start" -> [mode |-> At(v, "requested_mode").text]
                        [] dto.command = "mode.set" -> [mode |-> At(v, "mode").text]
                        [] dto.command \in {"head.pose", "head.recenter"} ->
                             [orientation |-> Vector(At(v, "orientation"), XYZW), position |-> position]
                        [] OTHER -> <<>>
<1>6. CsRead(d) = [ command |-> dto.command, sessionId |-> dto.sessionId, sequence |-> dto.sequence,
                    timestamp |-> dto.timestamp, payload |-> payload ]
  BY <1>1, <1>3, <1>4 DEF CsRead
<1>7. payload = dto.payload
  <2>1. CASE dto.command = "session.start"
    <3>1. At(v, "requested_mode") = String(dto.payload.mode)
      BY <2>1, PayloadMembers DEF v
    <3>2. payload = [mode |-> At(v, "requested_mode").text]
      BY <2>1
    <3> QED BY <1>3, <2>1, <3>1, <3>2, DtoType
  <2>2. CASE dto.command = "mode.set"
    <3>1. At(v, "mode") = String(dto.payload.mode)
      BY <2>2, PayloadMembers DEF v
    <3>2. payload = [mode |-> At(v, "mode").text]
      BY <2>2
    <3> QED BY <1>3, <2>2, <3>1, <3>2, DtoType
  <2>3. CASE IsPose(dto)
    <3> DEFINE o == VectorDocument(dto.payload.orientation, <<"x", "y", "z", "w">>)
               P == dto.payload.position
    <3>1. /\ dto.payload = [orientation |-> dto.payload.orientation, position |-> P]
          /\ dto.payload.orientation \in [XYZW -> Double]
          /\ P \in SUBSET [XYZ -> Double] /\ \A p, q \in P : p = q
      BY <2>3, DtoType
    <3>2. /\ At(v, "orientation") = o
          /\ "position" \in Keys(v) <=> P # {}
          /\ \A p \in P : At(v, "position") = VectorDocument(p, <<"x", "y", "z">>)
      BY <2>3, <3>1, PoseMembers DEF v
    <3>3. Vector(o, XYZW) = dto.payload.orientation
      BY <3>1, VectorReadable
    <3>4. \A p \in P : At(v, "position").kind = "object" /\ Vector(At(v, "position"), XYZ) = p
      BY <3>1, <3>2, VectorReadable
    <3>5. dto.command = "head.recenter" => P = {}
      <4>1. dto.command = "head.recenter" => HasKeys(v, {"frame", "orientation"}, {})
        BY <1>5 DEF CsPayload, CsPose
      <4> QED BY <3>2, <4>1 DEF HasKeys
    <3>6. position = P
      <4> HIDE DEF P
      <4>1. CASE P = {}
        BY <3>2, <4>1
      <4>2. CASE P # {}
        <5>1. PICK p \in P : TRUE
          BY <4>2
        <5>2. P = {p}
          BY <3>1, <5>1
        <5>3. dto.command = "head.pose"
          BY <2>3, <3>5, <4>2 DEF IsPose
        <5> QED BY <3>2, <3>4, <4>2, <5>1, <5>2, <5>3
      <4> QED BY <4>1, <4>2
    <3> HIDE DEF position, P, o
    <3>7. payload = [orientation |-> Vector(At(v, "orientation"), XYZW), position |-> position]
      BY <2>3 DEF IsPose
    <3> QED BY <3>1, <3>2, <3>3, <3>6, <3>7 DEF P
  <2>4. CASE dto.command \in {"session.stop", "emergency_stop"}
    <3>1. payload = <<>>
      BY <2>4
    <3> QED BY <2>4, <3>1, DtoType
  <2>5. dto.command \in WireCommand
    BY DtoType
  <2> QED BY <2>1, <2>2, <2>3, <2>4, <2>5 DEF WireCommand, IsPose
<1> HIDE DEF payload
<1> QED BY <1>6, <1>7, DtoType DEF d
--------------------------------------------------------------------------------

(* SetToSeq lists a finite set, each element once.                         *)
LEMMA Listed ==
    ASSUME NEW S, IsFiniteSet(S)
    PROVE  LET s == SetToSeq(S)
           IN  /\ s \in Seq(S) /\ \A i, j \in DOMAIN s : s[i] = s[j] => i = j
               /\ ToSet(s) = S
<1> DEFINE n == Cardinality(S)
           s == SetToSeq(S)
<1>1. n \in Nat /\ ExistsBijection(1..n, S)
  BY FS_CardinalityType
<1>2. PICK f : f \in [1..n -> S] /\ (\A a, b \in 1..n : f[a] = f[b] => a = b)
  BY <1>1, Zenon DEF ExistsBijection, Bijection, Injection, IsInjective
<1>3. \E g \in [1..n -> S] : IsInjective(g)
  BY <1>2 DEF IsInjective
<1>4. s \in [1..n -> S] /\ IsInjective(s)
  BY <1>3, Zenon DEF SetToSeq
<1> HIDE DEF s
<1>5. s \in Injection(1..n, S)
  BY <1>4 DEF Injection, IsInjective
<1>6. IsFiniteSet(1..n) /\ Cardinality(1..n) = n
  <2>1. IsFiniteSet(1..n) /\ Cardinality(1..n) = IF 1 > n THEN 0 ELSE n - 1 + 1
    <3>1. 1 \in Int /\ n \in Int
      BY <1>1
    <3> QED BY <3>1, FS_Interval, Zenon
  <2> QED BY <1>1, <2>1
<1>7. s \in Surjection(1..n, S)
  BY <1>5, <1>6, FS_Injection
<1>8. \A x \in S : \E i \in 1..n : s[i] = x
  BY <1>7 DEF Surjection
<1>9. ToSet(s) = S
  BY <1>4, <1>8 DEF ToSet
<1>10. s \in Seq(S) /\ DOMAIN s = 1..n
  BY <1>1, <1>4
<1> QED BY <1>4, <1>9, <1>10 DEF s, IsInjective

(* Names that all differ do not repeat.                                    *)
LEMMA NoRepeats ==
    ASSUME NEW S, NEW m \in Seq(S), \A i, j \in DOMAIN m : m[i][1] = m[j][1] => i = j
    PROVE  ~Repeats(Object(m))
<1> DEFINE n == Len(m)
           K == Keys(Object(m))
           f == [i \in 1..n |-> m[i][1]]
<1>1. n \in Nat /\ DOMAIN m = 1..n
  OBVIOUS
<1>2. K = {m[i][1] : i \in 1..n}
  BY <1>1, ObjectOf
<1> HIDE DEF K
<1>3. f \in Injection(1..n, K)
  BY <1>1, <1>2 DEF Injection, IsInjective
<1>4. f \in Surjection(1..n, K)
  <2>1. f \in [1..n -> K]
    BY <1>3 DEF Injection
  <2>2. \A t \in K : \E i \in 1..n : f[i] = t
    BY <1>2
  <2> HIDE DEF f
  <2> QED BY <2>1, <2>2 DEF Surjection
<1>5. ExistsBijection(1..n, K)
  BY <1>3, <1>4 DEF ExistsBijection, Bijection
<1>6. IsFiniteSet(1..n) /\ Cardinality(1..n) = n
  <2>1. IsFiniteSet(1..n) /\ Cardinality(1..n) = IF 1 > n THEN 0 ELSE n - 1 + 1
    <3>1. 1 \in Int /\ n \in Int
      BY <1>1
    <3> QED BY <3>1, FS_Interval, Zenon
  <2> QED BY <1>1, <2>1
<1>7. Cardinality(K) = n
  BY <1>5, <1>6, FS_Bijection
<1>8. Object(m).members = m
  BY DEF Object
<1> QED BY <1>7, <1>8 DEF Repeats, K

(* The fields of an event's class are few and none of the envelope's.      *)
LEMMA OwnFinite ==
    ASSUME NEW e \in Event
    PROVE  /\ e.type \in EventType /\ DOMAIN e.own = OwnFields(e.type)
           /\ IsFiniteSet(DOMAIN e.own)
           /\ DOMAIN e.own \cap EventKeys = {}
<1>1. e.type \in EventType /\ DOMAIN e.own = OwnFields(e.type)
  BY EventConstants
<1>2. OwnFields(e.type) \in { {"state"}, {"pan_degrees", "tilt_degrees", "hold"},
                             {"neck_action", "base_action", "arm_action", "reason"}, {"code", "message"} }
  BY <1>1 DEF EventType, OwnFields, Angles, Actions
<1>3. OwnFields(e.type) \cap EventKeys = {}
  BY <1>2 DEF EventKeys
<1>4. \A a, b, c, d : /\ IsFiniteSet({a}) /\ IsFiniteSet({a, b}) /\ IsFiniteSet({a, b, c})
                      /\ IsFiniteSet({a, b, c, d})
  <2> TAKE a, b, c, d
  <2>1. IsFiniteSet({a})
    BY FS_Singleton
  <2>2. IsFiniteSet({a} \cup {b})
    BY <2>1, FS_AddElement
  <2>3. IsFiniteSet(({a} \cup {b}) \cup {c})
    BY <2>2, FS_AddElement
  <2>4. IsFiniteSet((({a} \cup {b}) \cup {c}) \cup {d})
    BY <2>3, FS_AddElement
  <2>5. {a, b} = {a} \cup {b} /\ {a, b, c} = ({a} \cup {b}) \cup {c}
        /\ {a, b, c, d} = (({a} \cup {b}) \cup {c}) \cup {d}
    OBVIOUS
  <2> QED BY <2>1, <2>2, <2>3, <2>4, <2>5
<1>5. IsFiniteSet(OwnFields(e.type))
  <2>1. /\ IsFiniteSet({"state"}) /\ IsFiniteSet({"pan_degrees", "tilt_degrees", "hold"})
        /\ IsFiniteSet({"neck_action", "base_action", "arm_action", "reason"})
        /\ IsFiniteSet({"code", "message"})
    BY <1>4, Zenon
  <2> QED BY <1>2, <2>1, Zenon
<1> QED BY <1>1, <1>3, <1>5

(* The document of an event.                                               *)
LEMMA EventMembers ==
    ASSUME NEW e \in Event
    PROVE  LET r == PyDocument(e).root
           IN  /\ WellFormed(r) /\ r.kind = "object" /\ ~Repeats(r)
               /\ Keys(r) = EventKeys \cup DOMAIN e.own
               /\ At(r, "schema_version") = String("0.1") /\ At(r, "event_type") = String(e.type)
               /\ At(r, "gateway_monotonic_ns") = e.clock
               /\ At(r, "session_id") = e.sessionId /\ At(r, "sequence") = e.sequence
               /\ \A f \in DOMAIN e.own : At(r, f) = Written(e.own[f])
               /\ \A v \in Children(r) :
                     \/ v \in {String("0.1"), String(e.type), e.clock, e.sessionId, e.sequence}
                     \/ \E f \in DOMAIN e.own : v = Written(e.own[f])
<1> DEFINE F == DOMAIN e.own
           own == SetToSeq(F)
           head == << <<"schema_version", String("0.1")>>, <<"event_type", String(e.type)>>,
                      <<"gateway_monotonic_ns", e.clock>>,
                      <<"session_id", e.sessionId>>, <<"sequence", e.sequence>> >>
           rest == [i \in DOMAIN own |-> <<own[i], Written(e.own[own[i]])>>]
           m == head \o rest
           r == Object(m)
<1>1. PyDocument(e).root = r
  BY DEF PyDocument
<1>2. IsFiniteSet(F) /\ F \cap EventKeys = {}
  BY OwnFinite
<1>3. own \in Seq(F) /\ (\A i, j \in DOMAIN own : own[i] = own[j] => i = j) /\ ToSet(own) = F
  BY <1>2, Listed
<1> DEFINE n == Len(own)
           S == {head[1], head[2], head[3], head[4], head[5]} \cup {rest[i] : i \in 1..n}
<1>4. n \in Nat /\ DOMAIN own = 1..n
  BY <1>3
<1>5. /\ head \in Seq(S) /\ Len(head) = 5
      /\ head[1] = <<"schema_version", String("0.1")>> /\ head[2] = <<"event_type", String(e.type)>>
      /\ head[3] = <<"gateway_monotonic_ns", e.clock>>
      /\ head[4] = <<"session_id", e.sessionId>> /\ head[5] = <<"sequence", e.sequence>>
  OBVIOUS
<1>6. /\ rest \in Seq(S) /\ Len(rest) = n
      /\ \A i \in 1..n : rest[i][1] = own[i] /\ rest[i][2] = Written(e.own[own[i]])
  <2> HIDE DEF own, head
  <2> QED BY <1>4
<1> HIDE DEF F, own, head, rest, S
<1>7. m \in Seq(S) /\ DOMAIN m = 1..(5 + n)
      /\ (\A i \in 1..5 : m[i] = head[i]) /\ (\A i \in 1..n : m[5 + i] = rest[i])
  <2>1. /\ m \in Seq(S) /\ DOMAIN m = 1..(Len(head) + Len(rest))
        /\ \A i \in 1..Len(head) : m[i] = head[i]
        /\ \A i \in 1..Len(rest) : m[Len(head) + i] = rest[i]
    <3> HIDE DEF n
    <3>1. head \in Seq(S) /\ rest \in Seq(S)
      BY <1>5, <1>6
    <3>2. head \o rest \in Seq(S) /\ DOMAIN (head \o rest) = 1..(Len(head) + Len(rest))
      BY <3>1, Joined
    <3>3. \A i \in 1..Len(head) : (head \o rest)[i] = head[i]
      BY <3>1, Joined
    <3>4. \A i \in 1..Len(rest) : (head \o rest)[Len(head) + i] = rest[i]
      BY <3>1, Joined
    <3> QED BY <3>2, <3>3, <3>4
  <2> HIDE DEF m, n
  <2> QED BY <1>5, <1>6, <2>1
<1> HIDE DEF m
<1>8. \A i \in DOMAIN m : i \in 1..5 \/ \E k \in 1..n : i = 5 + k
  <2> TAKE i \in DOMAIN m
  <2>1. i \in Int /\ (i <= 5 \/ i - 5 \in 1..n)
    BY <1>4, <1>7
  <2>2. i = 5 + (i - 5)
    BY <2>1
  <2> QED BY <1>4, <1>7, <2>1, <2>2
<1>9. /\ m[1][1] = "schema_version" /\ m[2][1] = "event_type" /\ m[3][1] = "gateway_monotonic_ns"
      /\ m[4][1] = "session_id" /\ m[5][1] = "sequence"
      /\ m[1][2] = String("0.1") /\ m[2][2] = String(e.type) /\ m[3][2] = e.clock
      /\ m[4][2] = e.sessionId /\ m[5][2] = e.sequence
  BY <1>5, <1>7
<1>10. \A k \in 1..n : /\ m[5 + k][1] = own[k] /\ m[5 + k][2] = Written(e.own[own[k]])
                       /\ own[k] \in F
  BY <1>3, <1>4, <1>6, <1>7
<1>11. \A i \in 1..5 : i = 1 \/ i = 2 \/ i = 3 \/ i = 4 \/ i = 5
  OBVIOUS
<1>12. \A i, j \in 1..5 : m[i][1] = m[j][1] => i = j
  BY <1>9, <1>11
<1>13. \A i \in 1..5 : m[i][1] \in EventKeys
  BY <1>9, <1>11 DEF EventKeys
<1>14. \A i, j \in DOMAIN m : m[i][1] = m[j][1] => i = j
  <2> TAKE i \in DOMAIN m, j \in DOMAIN m
  <2> HAVE m[i][1] = m[j][1]
  <2>1. CASE i \in 1..5 /\ j \in 1..5
    BY <1>12, <2>1
  <2>2. CASE i \in 1..5 /\ \E k \in 1..n : j = 5 + k
    BY <1>2, <1>10, <1>13, <2>2
  <2>3. CASE j \in 1..5 /\ \E k \in 1..n : i = 5 + k
    BY <1>2, <1>10, <1>13, <2>3
  <2>4. CASE (\E k \in 1..n : i = 5 + k) /\ (\E k \in 1..n : j = 5 + k)
    BY <1>3, <1>4, <1>10, <2>4
  <2> QED BY <1>8, <2>1, <2>2, <2>3, <2>4
<1>15. /\ WellFormed(r) /\ r.kind = "object" /\ ~Repeats(r)
       /\ \A i \in DOMAIN m : At(r, m[i][1]) = m[i][2]
       /\ Keys(r) = {m[i][1] : i \in DOMAIN m} /\ Children(r) = {m[i][2] : i \in DOMAIN m}
  <2> HIDE DEF r, n
  <2>1. m \in Seq(S)
    BY <1>7
  <2>2. /\ WellFormed(Object(m)) /\ Object(m).kind = "object"
        /\ \A i \in DOMAIN m : At(Object(m), m[i][1]) = m[i][2]
        /\ Keys(Object(m)) = {m[i][1] : i \in DOMAIN m}
        /\ Children(Object(m)) = {m[i][2] : i \in DOMAIN m}
    BY <1>14, <2>1, ObjectOf
  <2>3. ~Repeats(Object(m))
    BY <1>14, <2>1, NoRepeats
  <2> QED BY <2>2, <2>3 DEF r
<1> HIDE DEF r
<1>16. \A f \in F : \E k \in 1..n : own[k] = f
  BY <1>3, <1>4 DEF ToSet
<1>17. /\ 1 \in DOMAIN m /\ 2 \in DOMAIN m /\ 3 \in DOMAIN m /\ 4 \in DOMAIN m /\ 5 \in DOMAIN m
       /\ \A k \in 1..n : 5 + k \in DOMAIN m
  BY <1>4, <1>7
<1>18. Keys(r) = EventKeys \cup F
  <2>1. Keys(r) \subseteq EventKeys \cup F
    BY <1>8, <1>10, <1>13, <1>15
  <2>2. F \subseteq Keys(r)
    BY <1>10, <1>15, <1>16, <1>17
  <2>3. EventKeys \subseteq Keys(r)
    BY <1>9, <1>15, <1>17 DEF EventKeys
  <2> QED BY <2>1, <2>2, <2>3
<1>19. /\ At(r, "schema_version") = String("0.1") /\ At(r, "event_type") = String(e.type)
       /\ At(r, "gateway_monotonic_ns") = e.clock
       /\ At(r, "session_id") = e.sessionId /\ At(r, "sequence") = e.sequence
  BY <1>9, <1>15, <1>17
<1>20. \A f \in F : At(r, f) = Written(e.own[f])
  BY <1>10, <1>15, <1>16, <1>17
<1>21. ASSUME NEW v \in Children(r)
       PROVE  \/ v \in {String("0.1"), String(e.type), e.clock, e.sessionId, e.sequence}
              \/ \E f \in F : v = Written(e.own[f])
  BY <1>8, <1>9, <1>10, <1>11, <1>15, <1>21
<1> QED BY <1>1, <1>15, <1>18, <1>19, <1>20, <1>21 DEF F

(* What an event that can be encoded holds.                                *)
Scalar(v) ==
    /\ v.kind \in {"null", "string", "number", "boolean"}
    /\ v.kind = "string" => v.text \notin Broken
    /\ v.kind = "number" => WellFormed(v)

LEMMA HeldString ==
    ASSUME NEW t, t \notin Broken
    PROVE  Scalar(String(t))
BY DEF Scalar, String

LEMMA PlainString ==
    \A t \in {"0.1"} \cup EventType : Scalar(String(t))
BY EventConstants, HeldString

LEMMA EnumOf ==
    ASSUME NEW v, NEW T, v \in {Enum(t) : t \in T}, v.text \notin Broken
    PROVE  Written(v) \in {String(t) : t \in T} /\ Scalar(Written(v))
<1>1. PICK t \in T : v = Enum(t)
  OBVIOUS
<1>2. v.kind = "enum" /\ v.text = t
  BY <1>1 DEF Enum
<1>3. Written(v) = String(t)
  BY <1>2 DEF Written
<1> QED BY <1>2, <1>3, HeldString

LEMMA HeldName ==
    ASSUME NEW v, Holdable(v), PyName(v)
    PROVE  Written(v) = v /\ Scalar(v) /\ CsName(v)
BY DotnetConstants DEF Holdable, PyName, CsName, Written, Scalar

LEMMA HeldInteger ==
    ASSUME NEW v, Holdable(v), NEW minimum \in {Zero, One}, PyInteger(v, minimum)
    PROVE  Scalar(v) /\ CsInteger(v, minimum) /\ Signed(v) = v.magnitude
<1>1. v.kind = "number" /\ ~v.fraction /\ minimum <= Signed(v) /\ Signed(v) <= MaxInt64 /\ WellFormed(v)
  BY DEF PyInteger, Holdable
<1>2. v.magnitude \in Nat /\ v.negative \in BOOLEAN
  BY <1>1 DEF WellFormed
<1>3. v.negative => v.magnitude # 0
  BY <1>1 DEF Holdable, Zero
<1>4. ~v.negative
  BY <1>1, <1>2, <1>3, NumberConstants DEF Signed, Zero
<1>5. Signed(v) = v.magnitude
  BY <1>4 DEF Signed
<1> QED BY <1>1, <1>4, <1>5 DEF Scalar, CsInteger

LEMMA HeldFinite ==
    ASSUME NEW v, Holdable(v), PyFinite(v)
    PROVE  Written(v) = v /\ Scalar(v) /\ CsFinite(v)
BY DEF Holdable, PyFinite, CsFinite, Written, Scalar

(* The fields of an event's class arrive.                                  *)
LEMMA OwnArrives ==
    ASSUME NEW e \in Event, PyEncodes(e)
    PROVE  CsOwn(e.type, PyDocument(e).root) /\ \A f \in DOMAIN e.own : Scalar(Written(e.own[f]))
<1> DEFINE r == PyDocument(e).root
<1>1. e.type \in EventType /\ DOMAIN e.own = OwnFields(e.type)
  BY OwnFinite
<1>2. \A f \in DOMAIN e.own : At(r, f) = Written(e.own[f])
  BY EventMembers
<1>3. \A f \in DOMAIN e.own : Holdable(e.own[f])
  BY EventConstants
<1>4. \A f \in DOMAIN e.own : e.own[f].kind = "enum" => e.own[f].text \notin Broken
  BY <1>3 DEF Holdable
<1> HIDE DEF r
<1>5. \A T : \A v \in {Enum(t) : t \in T} : v.kind = "enum"
  BY DEF Enum
<1>6. CASE e.type = "gateway.state"
  <2>1. DOMAIN e.own = {"state"} /\ e.own["state"] \in {Enum(s) : s \in StateName}
    BY <1>1, <1>6 DEF PyEncodes, OwnFields
  <2>2. e.own["state"].text \notin Broken
    BY <1>4, <1>5, <2>1
  <2>3. Written(e.own["state"]) \in {String(s) : s \in StateName} /\ Scalar(Written(e.own["state"]))
    BY <2>1, <2>2, EnumOf
  <2>4. At(r, "state") \in {String(s) : s \in StateName}
    BY <1>2, <2>1, <2>3
  <2> QED BY <1>6, <2>1, <2>3, <2>4 DEF CsOwn, r
<1>7. CASE e.type = "neck.target"
  <2>1. /\ DOMAIN e.own = Angles \cup {"hold"}
        /\ \A a \in Angles : PyFinite(e.own[a])
        /\ e.own["hold"].kind = "boolean"
    BY <1>1, <1>7 DEF PyEncodes, OwnFields
  <2>2. \A a \in Angles : Written(e.own[a]) = e.own[a] /\ Scalar(e.own[a]) /\ CsFinite(e.own[a])
    BY <1>3, <2>1, HeldFinite
  <2>3. Written(e.own["hold"]) = e.own["hold"] /\ Scalar(e.own["hold"])
    BY <2>1 DEF Written, Scalar
  <2>4. \A a \in Angles : CsFinite(At(r, a))
    BY <1>2, <2>1, <2>2
  <2>5. At(r, "hold").kind = "boolean"
    BY <1>2, <2>1, <2>3
  <2> QED BY <1>7, <2>1, <2>2, <2>3, <2>4, <2>5 DEF CsOwn, r
<1>8. CASE e.type = "safety.stop"
  <2>1. /\ DOMAIN e.own = Actions \cup {"reason"}
        /\ e.own["reason"] \in {Enum(t) : t \in ReasonName}
        /\ \A a \in Actions : PyName(e.own[a])
    BY <1>1, <1>8 DEF PyEncodes, OwnFields
  <2>2. \A a \in Actions : Written(e.own[a]) = e.own[a] /\ Scalar(e.own[a]) /\ CsName(e.own[a])
    BY <1>3, <2>1, HeldName
  <2>3. e.own["reason"].text \notin Broken
    BY <1>4, <1>5, <2>1
  <2>4. Written(e.own["reason"]) \in {String(t) : t \in ReasonName} /\ Scalar(Written(e.own["reason"]))
    BY <2>1, <2>3, EnumOf
  <2>5. At(r, "reason") \in {String(t) : t \in ReasonName} /\ \A a \in Actions : CsName(At(r, a))
    BY <1>2, <2>1, <2>2, <2>4
  <2> QED BY <1>8, <2>1, <2>2, <2>4, <2>5 DEF CsOwn, r
<1>9. CASE e.type = "command.rejected"
  <2>1. /\ DOMAIN e.own = {"code", "message"}
        /\ e.own["code"] \in {Enum(c) : c \in CodeName}
        /\ PyName(e.own["message"])
    BY <1>1, <1>9 DEF PyEncodes, OwnFields
  <2>2. Written(e.own["message"]) = e.own["message"] /\ Scalar(e.own["message"]) /\ CsName(e.own["message"])
    BY <1>3, <2>1, HeldName
  <2>3. e.own["code"].text \notin Broken
    BY <1>4, <1>5, <2>1
  <2>4. Written(e.own["code"]) \in {String(c) : c \in CodeName} /\ Scalar(Written(e.own["code"]))
    BY <2>1, <2>3, EnumOf
  <2>5. At(r, "code") \in {String(c) : c \in CodeName} /\ CsName(At(r, "message"))
    BY <1>2, <2>1, <2>2, <2>4
  <2> QED BY <1>9, <2>1, <2>2, <2>4, <2>5 DEF CsOwn, r
<1> QED BY <1>1, <1>6, <1>7, <1>8, <1>9 DEF EventType

(* The head of an event arrives.                                           *)
LEMMA HeadArrives ==
    ASSUME NEW e \in Event, PyEncodes(e)
    PROVE  LET r == PyDocument(e).root
           IN  /\ CsInteger(At(r, "gateway_monotonic_ns"), Zero) /\ CsCorrelation(r, e.type = "neck.target")
               /\ Scalar(e.clock) /\ Scalar(e.sessionId) /\ Scalar(e.sequence)
               /\ Signed(e.clock) = e.clock.magnitude
               /\ e.sessionId.kind # "null" => Signed(e.sequence) = e.sequence.magnitude
<1> DEFINE r == PyDocument(e).root
           required == e.type = "neck.target"
<1>1. /\ At(r, "gateway_monotonic_ns") = e.clock
      /\ At(r, "session_id") = e.sessionId /\ At(r, "sequence") = e.sequence
  BY EventMembers
<1>2. Holdable(e.clock) /\ Holdable(e.sessionId) /\ Holdable(e.sequence)
  BY EventConstants
<1>3. PyInteger(e.clock, Zero) /\ PyCorrelation(e, required)
  BY DEF PyEncodes, PyEventHead
<1> HIDE DEF r, required
<1>4. CsInteger(e.clock, Zero) /\ Scalar(e.clock) /\ Signed(e.clock) = e.clock.magnitude
  BY <1>2, <1>3, HeldInteger
<1>5. CASE ~required /\ e.sessionId.kind = "null" /\ e.sequence.kind = "null"
  <2>1. Scalar(e.sessionId) /\ Scalar(e.sequence)
    BY <1>5 DEF Scalar
  <2>2. {key \in {"session_id", "sequence"} : At(r, key).kind = "null"} = {"session_id", "sequence"}
    BY <1>1, <1>5
  <2>3. CsCorrelation(r, required)
    BY <1>5, <2>2 DEF CsCorrelation
  <2> QED BY <1>1, <1>4, <1>5, <2>1, <2>3 DEF r, required
<1>6. CASE PyName(e.sessionId) /\ PyInteger(e.sequence, One)
  <2>1. CsName(e.sessionId) /\ Scalar(e.sessionId)
    BY <1>2, <1>6, HeldName
  <2>2. CsInteger(e.sequence, One) /\ Scalar(e.sequence) /\ Signed(e.sequence) = e.sequence.magnitude
    BY <1>2, <1>6, HeldInteger
  <2>3. {key \in {"session_id", "sequence"} : At(r, key).kind = "null"} = {}
    BY <1>1, <1>6 DEF PyName, PyInteger
  <2>4. CsCorrelation(r, required)
    BY <1>1, <2>1, <2>2, <2>3 DEF CsCorrelation
  <2> QED BY <1>1, <1>4, <2>1, <2>2, <2>4 DEF r, required
<1> QED BY <1>3, <1>5, <1>6 DEF PyCorrelation

(* The document of an event is well formed for the Unity parser, unless it *)
(* is too long.                                                            *)
LEMMA EventParses ==
    ASSUME NEW e \in Event, PyEncodes(e)
    PROVE  CsParses(PyDocument(e)) <=> ~Oversized(e)
<1> DEFINE r == PyDocument(e).root
<1>1. r.kind = "object" /\ ~Repeats(r) /\ Keys(r) = EventKeys \cup DOMAIN e.own
  BY EventMembers
<1>2. \A v \in Children(r) : Scalar(v)
  <2>1. \A v \in Children(r) :
            \/ v \in {String("0.1"), String(e.type), e.clock, e.sessionId, e.sequence}
            \/ \E f \in DOMAIN e.own : v = Written(e.own[f])
    BY EventMembers
  <2>2. Scalar(String("0.1")) /\ Scalar(String(e.type))
    BY OwnFinite, PlainString
  <2>3. Scalar(e.clock) /\ Scalar(e.sessionId) /\ Scalar(e.sequence)
    BY HeadArrives
  <2>4. \A f \in DOMAIN e.own : Scalar(Written(e.own[f]))
    BY OwnArrives
  <2> HIDE DEF r
  <2> QED BY <2>1, <2>2, <2>3, <2>4
<1>3. Keys(r) \cap Broken = {}
  BY <1>1, OwnFinite, EventConstants
<1> HIDE DEF r
<1>4. \A v \in Values(r) : v = r \/ v \in Children(r)
  BY <1>2 DEF Values, Children, Scalar
<1>5. \A v \in Values(r) : /\ v.kind # "constant"
                           /\ v.kind = "object" => ~Repeats(v)
                           /\ Texts(v) \cap Broken = {}
  BY <1>1, <1>2, <1>3, <1>4 DEF Scalar, Texts
<1> QED BY <1>5 DEF CsParses, PyDocument, r

LEMMA EventUnderstood ==
    ASSUME NEW e \in Event, PyEncodes(e)
    PROVE  /\ CsAcceptsEvent(PyDocument(e)) <=> ~Oversized(e)
           /\ CsReadEvent(PyDocument(e)) =
                [ type |-> e.type, clock |-> Signed(e.clock),
                  correlation |-> IF e.sessionId.kind = "null" THEN {}
                                  ELSE {<<e.sessionId.text, Signed(e.sequence)>>},
                  own |-> [field \in DOMAIN e.own |-> CsScalar(Written(e.own[field]))] ]
<1> DEFINE d == PyDocument(e)
<1>1. /\ d.root.kind = "object" /\ Keys(d.root) = EventKeys \cup DOMAIN e.own
      /\ At(d.root, "schema_version") = String("0.1") /\ At(d.root, "event_type") = String(e.type)
      /\ At(d.root, "gateway_monotonic_ns") = e.clock
      /\ At(d.root, "session_id") = e.sessionId /\ At(d.root, "sequence") = e.sequence
      /\ \A f \in DOMAIN e.own : At(d.root, f) = Written(e.own[f])
  BY EventMembers
<1>2. e.type \in EventType /\ DOMAIN e.own = OwnFields(e.type)
  BY OwnFinite
<1>3. CsParses(d) <=> ~Oversized(e)
  BY EventParses
<1>4. CsOwn(e.type, d.root)
  BY OwnArrives
<1>5. /\ CsInteger(At(d.root, "gateway_monotonic_ns"), Zero)
      /\ CsCorrelation(d.root, e.type = "neck.target")
      /\ Signed(e.clock) = e.clock.magnitude
      /\ e.sessionId.kind # "null" => Signed(e.sequence) = e.sequence.magnitude
  BY HeadArrives
<1> HIDE DEF d
<1>6. HasKeys(d.root, EventKeys \cup OwnFields(e.type), {})
  BY <1>1, <1>2 DEF HasKeys
<1>7. {"schema_version", "event_type", "gateway_monotonic_ns"} \subseteq Keys(d.root)
  BY <1>1 DEF EventKeys
<1>8. CsAcceptsEvent(d) <=> ~Oversized(e)
  BY <1>1, <1>2, <1>3, <1>4, <1>5, <1>6, <1>7 DEF CsAcceptsEvent, EventType
<1>9. At(d.root, "event_type").text = e.type
  BY <1>1 DEF String
<1>10. [field \in OwnFields(e.type) |-> CsScalar(At(d.root, field))]
         = [field \in DOMAIN e.own |-> CsScalar(Written(e.own[field]))]
  BY <1>1, <1>2
<1>11. CsReadEvent(d) =
         [ type |-> e.type, clock |-> Signed(e.clock),
           correlation |-> IF e.sessionId.kind = "null" THEN {}
                           ELSE {<<e.sessionId.text, Signed(e.sequence)>>},
           own |-> [field \in DOMAIN e.own |-> CsScalar(Written(e.own[field]))] ]
  BY <1>1, <1>5, <1>9, <1>10 DEF CsReadEvent
<1> QED BY <1>8, <1>11 DEF d

--------------------------------------------------------------------------------

(* What is on the wire is what its author wrote.                           *)
Authored ==
    \/ author \in {"nobody", "crash"} /\ wire = {}
    \/ author = "anyone" /\ \E d \in Document : wire = {d}
    \/ author = "client" /\ \E dto \in Dto : CsEncodes(dto) /\ wire = {CsDocument(dto)} /\ meant = {dto}
    \/ author = "gateway" /\ \E e \in Event : PyEncodes(e) /\ wire = {PyDocument(e)} /\ meant = {e}

(* The inductive invariant of the wire.                                    *)
LEMMA WireAuthored == ContractSpec => []Authored
<1>1. ContractInit => Authored
  BY DEF ContractInit, Authored
<1>2. Authored /\ [ContractNext]_contractVars => Authored'
  <2> SUFFICES ASSUME Authored, [ContractNext]_contractVars
               PROVE  Authored'
    OBVIOUS
  <2>1. CASE AnyoneSends
    BY <2>1 DEF AnyoneSends, Authored
  <2>2. CASE ClientSends
    BY <2>2 DEF ClientSends, Authored
  <2>3. CASE GatewaySends
    BY <2>3 DEF GatewaySends, Authored
  <2>4. CASE EncodingRaises
    BY <2>4 DEF EncodingRaises, Authored
  <2>5. CASE Taken
    BY <2>5 DEF Taken, Authored
  <2>6. CASE UNCHANGED contractVars
    BY <2>6 DEF contractVars, Authored
  <2> QED BY <2>1, <2>2, <2>3, <2>4, <2>5, <2>6 DEF ContractNext
<1> QED BY <1>1, <1>2, PTL DEF ContractSpec

(* No document, of whatever kind, is read as two different commands: the   *)
(* decoders of wire.py and WireCodec.cs agree on all that both accept.     *)
THEOREM DecodersReadAlike == ContractSpec => []ReadAlike
<1>1. ReadAlike
  BY Alike DEF ReadAlike
<1> QED BY <1>1, PTL

(* What EncodeCommand lets out, decode_command decodes to the command that *)
(* was meant, for every DTO whose names are names in Python too and whose  *)
(* rotation, if it has one, is not at the edge of 1e-12.                   *)
THEOREM ClientUnderstood == ContractSpec => []ClientIsUnderstood
<1>1. Authored => ClientIsUnderstood
  <2> SUFFICES ASSUME Authored, author = "client", NEW d \in wire, NEW dto \in meant,
                      PyName(String(dto.sessionId)),
                      dto.command = "mode.set" => PyName(String(dto.payload.mode)),
                      \A v \in Rotations(d) : ~Borderline(v)
               PROVE  PyAccepts(d) /\ PyRead(d) = dto
    BY DEF ClientIsUnderstood
  <2>1. dto \in Dto /\ CsEncodes(dto) /\ d = CsDocument(dto)
    BY DEF Authored
  <2>2. /\ At(d.root, "command") = String(dto.command) /\ At(d.root, "session_id") = String(dto.sessionId)
        /\ At(d.root, "payload") = PayloadDocument(dto)
    BY <2>1, RootMembers
  <2>3. CsAccepts(d)
    BY <2>1 DEF CsEncodes
  <2>4. At(d.root, "command") = String("mode.set") => PyName(At(At(d.root, "payload"), "mode"))
    <3>1. At(d.root, "command") = String("mode.set") => dto.command = "mode.set"
      BY <2>2 DEF String
    <3>2. dto.command = "mode.set" => At(PayloadDocument(dto), "mode") = String(dto.payload.mode)
      BY PayloadMembers
    <3> QED BY <2>2, <3>1, <3>2
  <2>5. \A v \in Values(d.root) : Readable(v)
    BY <2>1, ClientReadable
  <2>6. PyAccepts(d)
    BY <2>2, <2>3, <2>4, <2>5, PyAcceptsToo
  <2>7. PyRead(d) = CsRead(d)
    BY <2>3, <2>6, Alike
  <2>8. CsRead(d) = dto
    BY <2>1, ReadBack
  <2> QED BY <2>6, <2>7, <2>8
<1> QED BY <1>1, WireAuthored, PTL

(* Of the events encode_event lets out, DecodeEvent accepts exactly those  *)
(* that are not too long once they are escaped, and what it decodes is the *)
(* event that was meant.                                                   *)
THEOREM EventsUnderstood == ContractSpec => []EventsAreUnderstood
<1>1. Authored => EventsAreUnderstood
  <2> SUFFICES ASSUME Authored, author = "gateway", NEW d \in wire, NEW e \in meant
               PROVE  /\ CsAcceptsEvent(d) <=> ~Oversized(e)
                      /\ CsReadEvent(d) =
                           [ type |-> e.type, clock |-> Signed(e.clock),
                             correlation |-> IF e.sessionId.kind = "null" THEN {}
                                             ELSE {<<e.sessionId.text, Signed(e.sequence)>>},
                             own |-> [field \in DOMAIN e.own |-> CsScalar(Written(e.own[field]))] ]
    BY DEF EventsAreUnderstood
  <2>1. e \in Event /\ PyEncodes(e) /\ d = PyDocument(e)
    BY DEF Authored
  <2> QED BY <2>1, EventUnderstood
<1> QED BY <1>1, WireAuthored, PTL

(* The decoders accept the same documents, but for oddly spaced ones,      *)
(* names that are blank or long for one of them, minus zero, rotations at  *)
(* the edge of 1e-12, and those whose square is beyond a double.           *)
THEOREM DifferencesKnown == ContractSpec => []DifferencesAreKnown
<1>1. Authored => DifferencesAreKnown
  <2> SUFFICES ASSUME Authored, NEW d \in wire, ~KnownDifference(d)
               PROVE  PyAccepts(d) <=> CsAccepts(d)
    BY DEF DifferencesAreKnown
  <2>1. CASE \E c \in Document : wire = {c}
    <3>1. \A v \in Values(d.root) : WellFormed(v)
      BY <2>1, DocumentConstants
    <3> QED BY <3>1, CommonDocument
  <2>2. CASE \E dto \in Dto : wire = {CsDocument(dto)}
    <3>1. \A v \in Values(d.root) : WellFormed(v)
      BY <2>2, ClientReadable DEF Readable
    <3> QED BY <3>1, CommonDocument
  <2>3. CASE \E e \in Event : wire = {PyDocument(e)}
    <3>1. "event_type" \in Keys(d.root)
      BY <2>3, EventMembers DEF EventKeys
    <3>2. ~HasKeys(d.root, EnvelopeKeys, {})
      BY <3>1 DEF HasKeys, EnvelopeKeys
    <3> QED BY <3>2 DEF PyAccepts, CsAccepts
  <2> QED BY <2>1, <2>2, <2>3 DEF Authored
<1> QED BY <1>1, WireAuthored, PTL
================================================================================
