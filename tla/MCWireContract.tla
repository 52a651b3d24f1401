---------------------------- MODULE MCWireContract -----------------------------
EXTENDS WireContract

(* U+001C, a blank, forty emoji, a name of 65 letters, one of 65,310, one  *)
(* of 22,000 accented letters, half an emoji.                              *)
MCText ==
    {"", "0.1", "0.2", "head", "drive", "quest_local", "s1", "ctl", "blank", "emoji40", "long65", "letters",
     "accents", "half",
     "WATCHDOG", "IDLE", "STOP", "x", "extra"}
        \cup EnvelopeKeys \cup WireCommand
(* Texts not named in MCEscaped have 65 characters at most; the room of an *)
(* event is for numbers as long as the gateway writes any.                 *)
MCBroken == {"half"}
MCPythonBlank == {"", "blank", "ctl"}
MCPythonLong == {"long65", "letters", "accents"}
MCEscaped ==
    [t \in MCText |-> CASE t = "letters" -> 65310 [] t = "accents" -> 6 * 22000
                        [] t = "emoji40" -> 12 * 40 [] OTHER -> 65]
MCEventRoom ==
    [type \in EventType |-> CASE type = "gateway.state" -> 65365 [] type = "neck.target" -> 65303
                              [] type = "safety.stop" -> 65318 [] OTHER -> 65350]
MCDotnetBlank == {"", "blank"}
MCDotnetLong == {"long65", "letters", "accents", "emoji40"}

(* The scale is small, 1 is four units and the largest double is 25, but   *)
(* every magnitude of the codecs has its place: parts of 1, which alone    *)
(* are at most 1e-12; 1; 2^63-1; beyond it; squares that overflow, two     *)
(* together or alone; lengths that overflow together; the largest double;  *)
(* beyond it; beyond 4300 digits.                                          *)
Magnitudes == {0, 1, 2, 4, 8, 12, 16, 24, 72, 100, 104, 204}

--------------------------------------------------------------------------------
(* Documents: the well-formed ones with up to one edit at one level.       *)

Literals ==
    {Number(n, m, f) : n \in BOOLEAN, m \in Magnitudes, f \in BOOLEAN}
Scalars ==
    {String(t) : t \in MCText \ (EnvelopeKeys \cup {"x", "IDLE", "STOP", "WATCHDOG"})} \cup Literals
        \cup {Boolean(TRUE), Plain("null"), Plain("array"), Plain("constant"), Object(<<>>)}

Edited(v) ==
    LET m == v.members
    IN  {Object([m EXCEPT ![i] = <<m[i][1], w>>]) : i \in DOMAIN m, w \in Scalars}
          \cup {Object(RemoveAt(m, i)) : i \in DOMAIN m}
          \cup {Object(Append(m, <<name, w>>)) :
                  name \in Keys(v) \cup {"extra", "half", "position"},
                  w \in {String("head"), Whole(Zero), Plain("null"), Plain("constant")}}

Rotation(w) ==
    Object(<< <<"x", Whole(Zero)>>, <<"y", Whole(Zero)>>, <<"z", Whole(Zero)>>, <<"w", w>> >>)
(* One component of a magnitude, and the others of another.                *)
Oblique(m, n) ==
    Object([i \in 1..4 |-> <<<<"x", "y", "z", "w">>[i], Number(i = 2, IF i = 1 THEN m ELSE n, TRUE)>>])
Place == Object(<< <<"x", Whole(Zero)>>, <<"y", Whole(Zero)>>, <<"z", Whole(One)>> >>)
Frame(rotation) == << <<"frame", String("quest_local")>>, <<"orientation", rotation>> >>

Poses ==
    {Object(Frame(r)) : r \in {Rotation(Whole(One))} \cup Edited(Rotation(Whole(Zero))) \cup Edited(Rotation(Whole(One)))
                                  \cup {Oblique(m, n) : m \in Magnitudes, n \in Magnitudes}}
        \cup {Object(Append(Frame(Rotation(Whole(One))), <<"position", p>>)) :
                p \in {Place, Plain("null")} \cup Edited(Place)}

Payloads(command) ==
    LET well == CASE command = "session.start" -> {Object(<< <<"requested_mode", String("head")>> >>)}
                  [] command = "mode.set" -> {Object(<< <<"mode", String("drive")>> >>)}
                  [] command \in {"head.pose", "head.recenter"} -> Poses
                  [] OTHER -> {Object(<<>>)}
    IN  well \cup UNION {Edited(v) : v \in {w \in well : Len(w.members) <= 1}}
             \cup UNION {Edited(Object(Frame(Rotation(Whole(One))))) :
                           x \in {command} \cap {"head.pose", "head.recenter"}}

Root(command, payload) ==
    Object(<< <<"schema_version", String("0.1")>>, <<"command", String(command)>>,
              <<"session_id", String("s1")>>, <<"sequence", Whole(One)>>,
              <<"timestamp_ms", Whole(Zero)>>, <<"payload", payload>> >>)

MCDocument ==
    {[layout |-> "exact", root |-> Root(c, p)] : c \in {"session.start"}, p \in Payloads("session.start")}
      \cup {[layout |-> "exact", root |-> Root("mode.set", p)] : p \in Payloads("mode.set")}
      \cup {[layout |-> "exact", root |-> Root("emergency_stop", p)] : p \in Payloads("emergency_stop")}
      \cup {[layout |-> "exact", root |-> Root(c, p)] : c \in {"head.pose", "head.recenter"}, p \in Payloads("head.pose")}
      \cup {[layout |-> l, root |-> Root("session.stop", Object(<<>>))] : l \in Layout}
      \cup {[layout |-> "exact", root |-> r] : r \in Edited(Root("session.stop", Object(<<>>)))}
      \cup {[layout |-> "exact", root |-> r] : r \in {Plain("null"), Plain("array"), String("s1")}}

--------------------------------------------------------------------------------

Scale == {-m : m \in {8, 24}} \cup {m \in Magnitudes : m <= MaxDouble} \cup {MaxDouble + 1}
Turns == {[n \in XYZW |-> CASE n = "w" -> m[1] [] n = "z" -> m[2] [] OTHER -> Zero] : m \in Scale \X Scale}
Places == {[n \in XYZ |-> IF n = "z" THEN m ELSE Zero] : m \in Scale}

DtoPayloads(command) ==
    CASE command = "session.start" -> {[mode |-> m] : m \in {"head", "drive"}}
      [] command = "mode.set" -> {[mode |-> m] : m \in MCText}
      [] command = "head.pose" ->
           {[orientation |-> q, position |-> {}] : q \in Turns}
             \cup {[orientation |-> [n \in XYZW |-> One], position |-> {p}] : p \in Places}
      [] command = "head.recenter" -> {[orientation |-> q, position |-> {}] : q \in Turns}
      [] OTHER -> {<<>>}

MCDto ==
    UNION { {[command |-> c, sessionId |-> "s1", sequence |-> One, timestamp |-> t, payload |-> p] :
               t \in {-One, Zero, MaxInt64}, p \in DtoPayloads(c)} : c \in WireCommand }
      \cup {[command |-> "session.stop", sessionId |-> s, sequence |-> n, timestamp |-> Zero, payload |-> <<>>] :
              s \in MCText, n \in {-One, Zero, One, MaxInt64}}

Objects ==   \* what an attribute of a Python event may hold
    {Plain("null"), Boolean(FALSE), Plain("constant"), String("blank"), String("ctl"), String("STOP"),
     Enum("IDLE"), String("IDLE"), Enum("WATCHDOG"), Enum("WATCHDOG_ACTIVE")}
       \cup {Whole(m) : m \in {Zero, One, MaxInt64, MaxInt64 + One, MaxDouble + One}}
       \cup {Number(TRUE, One, f) : f \in BOOLEAN}

MCEvent ==
    LET named == {<<s, n>> : s \in {Plain("null")} \cup {String(t) : t \in {"s1", "ctl", "blank", "letters", "accents"}},
                             n \in {Plain("null"), Whole(Zero), Whole(One), Whole(MaxInt64 + One)}}
        made(type, own) ==
            {[type |-> type, clock |-> c, sessionId |-> id[1], sequence |-> id[2], own |-> own] :
                c \in {Number(TRUE, One, FALSE), Whole(Zero), Whole(MaxInt64)}, id \in named}
    IN  UNION {made("gateway.state", [f \in {"state"} |-> o]) : o \in Objects}
          \cup UNION {made("safety.stop", [f \in Actions \cup {"reason"} |-> IF f = "reason" THEN o[1] ELSE o[2]]) :
                        o \in {Enum("WATCHDOG"), String("WATCHDOG")} \X {String("STOP"), String("blank")}}
          \cup UNION {made("command.rejected", [f \in {"code", "message"} |-> IF f = "code" THEN o[1] ELSE o[2]]) :
                        o \in {Enum("WATCHDOG_ACTIVE"), Enum("IDLE")} \X {String("STOP"), String("ctl")}}
          \cup UNION {made("neck.target", [f \in Angles \cup {"hold"} |->
                                             IF f = "hold" THEN o[1] ELSE IF f = "pan_degrees" THEN o[2] ELSE o[3]]) :
                        o \in {Boolean(FALSE), Whole(One)} \X Objects \X {Whole(One), Whole(MaxDouble + One)}}
================================================================================
