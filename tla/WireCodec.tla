------------------------------- MODULE WireCodec -------------------------------
(***************************************************************************)
(* The JSON codec of the gateway, robot/vr_gateway/wire.py, with the       *)
(* validation of messages.py it ends in: which documents decode_command    *)
(* accepts and how it reads them, which events encode_event accepts and    *)
(* what it writes.                                                         *)
(*                                                                         *)
(* A document is its root value and its layout, what is around or wrong    *)
(* with the text.  A value carries its kind; an object is the sequence of  *)
(* its members as written, so that a name may be repeated.  Numbers are    *)
(* literals: sign, magnitude, and whether the literal has a fraction or an *)
(* exponent.  Magnitudes are counted in units of the least positive        *)
(* double, as all doubles and all integers can be; the arithmetic on them  *)
(* is exact, and rounding shows in the thresholds, which are constants.    *)
(* Whether a decoder refuses by WireError or by another exception is not   *)
(* told apart here (VrGatewayNode does).                                   *)
(***************************************************************************)
EXTENDS Integers, Sequences, SequencesExt

CONSTANTS
    Text,         \* the strings that occur in documents
    Broken,       \* those with an unpaired surrogate
    PythonBlank,  \* empty, or blank by str.isspace
    PythonLong,   \* more than 64 code points
    Escaped,      \* how many characters json.dumps makes of each text
    EventRoom,    \* how many StrictJsonParser leaves to the texts of an event
                  \* of each type, its numbers being as long as they come
    One,          \* the number 1
    MaxInt64,
    MaxDouble,    \* the largest finite double
    MaxDigits,    \* the largest integer of 4300 digits
    PythonNull,   \* hypot finds at most 1e-12 up to this sum of squares,
    PythonLimit   \* and a finite length up to this one

EventType == {"gateway.state", "neck.target", "safety.stop", "command.rejected"}

ASSUME TextConstants ==
    /\ Text \subseteq STRING
    /\ Escaped \in [Text -> Nat] /\ EventRoom \in [EventType -> Nat]
    /\ Broken \subseteq Text /\ PythonBlank \subseteq Text /\ PythonLong \subseteq Text

ASSUME NumberConstants ==
    /\ {One, MaxInt64, MaxDouble, MaxDigits, PythonNull, PythonLimit} \subseteq Nat
    /\ 0 < One /\ One <= MaxInt64
    /\ MaxInt64 + One <= MaxDouble /\ MaxDouble < MaxDigits

Zero == 0

String(t) == [kind |-> "string", text |-> t]
Number(negative, magnitude, fraction) ==
    [kind |-> "number", negative |-> negative, magnitude |-> magnitude, fraction |-> fraction]
Whole(magnitude) == Number(FALSE, magnitude, FALSE)
Object(members) == [kind |-> "object", members |-> members]
Boolean(b) == [kind |-> "boolean", value |-> b]
Plain(kind) == [kind |-> kind]   \* null, array, or constant: NaN, Infinity

Keys(v) == {v.members[i][1] : i \in DOMAIN v.members}
HasKeys(v, required, optional) ==
    v.kind = "object" /\ required \subseteq Keys(v) /\ Keys(v) \subseteq required \cup optional
Repeats(v) == Len(v.members) # Cardinality(Keys(v))

(* The value of a member; of a repeated name the last one, as in a dict.   *)
At(v, key) == v.members[SelectLastInSeq(v.members, LAMBDA m : m[1] = key)][2]

Children(v) == IF v.kind = "object" THEN {v.members[i][2] : i \in DOMAIN v.members} ELSE {}
(* All values of a document; none has objects more than three levels deep. *)
Values(v) ==
    LET first == Children(v)
        second == UNION {Children(w) : w \in first}
    IN  {v} \cup first \cup second \cup UNION {Children(w) : w \in second}

Texts(v) == IF v.kind = "string" THEN {v.text} ELSE IF v.kind = "object" THEN Keys(v) ELSE {}

(* Faults of the text: more than 65,536 bytes, nesting, what surrounds it. *)
Layout == {"exact", "spaced", "oddly spaced", "trailing data", "malformed", "oversized", "too deep"}

Signed(v) == IF v.negative THEN -v.magnitude ELSE v.magnitude
Vector(v, names) == [name \in names |-> Signed(At(v, name))]

XYZ == {"x", "y", "z"}
XYZW == {"x", "y", "z", "w"}
EnvelopeKeys == {"schema_version", "command", "session_id", "sequence", "timestamp_ms", "payload"}

(* The square of a rotation's length.                                      *)
SquareSum(v) ==
    LET Square(name) == At(v, name).magnitude * At(v, name).magnitude
    IN  Square("x") + Square("y") + Square("z") + Square("w")

WireCommand ==
    {"session.start", "session.stop", "mode.set", "head.pose", "head.recenter", "emergency_stop"}

--------------------------------------------------------------------------------
(* decode_command                                                          *)

(* Faulty variant of PyParses: json.loads as it comes, where the last of   *)
(* two members with the same name wins.                                    *)
PyParsesRepeats(d) ==
    /\ d.layout \in {"exact", "spaced", "oddly spaced"}
    /\ \A v \in Values(d.root) :
          /\ v.kind # "constant"
          /\ v.kind = "number" => v.fraction \/ v.magnitude <= MaxDigits
          /\ Texts(v) \cap Broken = {}

(* _parse_json with its hooks and scans: sizes, nesting, what may follow   *)
(* the document, NaN and Infinity, repeated names, unpaired surrogates;    *)
(* int() takes a bounded number of digits.                                 *)
PyParses(d) ==
    /\ d.layout \in {"exact", "spaced", "oddly spaced"}
    /\ \A v \in Values(d.root) :
          /\ v.kind # "constant"
          /\ v.kind = "number" => v.fraction \/ v.magnitude <= MaxDigits
          /\ v.kind = "object" => ~Repeats(v)
          /\ Texts(v) \cap Broken = {}

(* _validate_session_id, and the test of a mode                            *)
PyName(v) == v.kind = "string" /\ v.text \notin PythonBlank

(* _validate_int_field: the value, not the literal, is compared.           *)
PyInteger(v, minimum) ==
    /\ v.kind = "number" /\ ~v.fraction
    /\ minimum <= Signed(v) /\ Signed(v) <= MaxInt64

(* isfinite raises for an int beyond a double.                             *)
PyFinite(v) == v.kind = "number" /\ v.magnitude <= MaxDouble

(* _decode_quaternion and Quaternion.__post_init__: hypot scales, so it is *)
(* the length that has to be finite and not its square.                    *)
PyQuaternion(v) ==
    /\ HasKeys(v, XYZW, {})
    /\ \A name \in XYZW : PyFinite(At(v, name))
    /\ PythonNull < SquareSum(v) /\ SquareSum(v) <= PythonLimit

(* _decode_position_optional                                               *)
PyPosition(v) ==
    \/ v.kind = "null"
    \/ HasKeys(v, XYZ, {}) /\ \A name \in XYZ : PyFinite(At(v, name))

(* _decode_head_pose and _decode_head_recenter                             *)
PyPose(v, optional) ==
    /\ HasKeys(v, {"frame", "orientation"}, optional)
    /\ At(v, "frame") = String("quest_local")
    /\ PyQuaternion(At(v, "orientation"))
    /\ "position" \in Keys(v) => PyPosition(At(v, "position"))

(* _decode_payload                                                         *)
PyPayload(command, v) ==
    CASE command = "session.start" ->
           HasKeys(v, {"requested_mode"}, {}) /\ At(v, "requested_mode") = String("head")
      [] command = "mode.set" ->
           HasKeys(v, {"mode"}, {}) /\ PyName(At(v, "mode")) /\ At(v, "mode").text \notin PythonLong
      [] command = "head.pose" -> PyPose(v, {"position"})
      [] command = "head.recenter" -> PyPose(v, {})
      [] OTHER -> HasKeys(v, {}, {})

PyAccepts(d) ==
    /\ PyParses(d)
    /\ HasKeys(d.root, EnvelopeKeys, {})
    /\ At(d.root, "schema_version") = String("0.1")
    /\ \E command \in WireCommand :
          /\ At(d.root, "command") = String(command)
          /\ PyPayload(command, At(d.root, "payload"))
    /\ PyName(At(d.root, "session_id"))
    /\ PyInteger(At(d.root, "sequence"), One)
    /\ PyInteger(At(d.root, "timestamp_ms"), Zero)

(* Faulty variant of PyReadPayload: the position is not passed on.         *)
PyReadPayloadFlat(command, v) ==
    CASE command = "session.start" -> [mode |-> "head"]
      [] command = "mode.set" -> [mode |-> At(v, "mode").text]
      [] command \in {"head.pose", "head.recenter"} ->
           [orientation |-> Vector(At(v, "orientation"), XYZW), position |-> {}]
      [] OTHER -> <<>>

(* The payload an accepted document is decoded to; a position is a set of  *)
(* at most one.                                                            *)
PyReadPayload(command, v) ==
    CASE command = "session.start" -> [mode |-> "head"]
      [] command = "mode.set" -> [mode |-> At(v, "mode").text]
      [] command \in {"head.pose", "head.recenter"} ->
           [ orientation |-> Vector(At(v, "orientation"), XYZW),
             position |-> IF "position" \in Keys(v) /\ At(v, "position").kind = "object"
                          THEN {Vector(At(v, "position"), XYZ)} ELSE {} ]
      [] OTHER -> <<>>

PyRead(d) ==
    LET command == At(d.root, "command").text
    IN  [ command |-> command,
          sessionId |-> At(d.root, "session_id").text,
          sequence |-> Signed(At(d.root, "sequence")),
          timestamp |-> Signed(At(d.root, "timestamp_ms")),
          payload |-> PyReadPayload(command, At(d.root, "payload")) ]

--------------------------------------------------------------------------------
(* encode_event.  An event is a record whose fields hold Python objects,   *)
(* written as the values above: an int is a number without a fraction, a   *)
(* float one with, None is null, and a member of an enumeration is of kind *)
(* "enum".  own has the fields of the event's class.                       *)

Enum(t) == [kind |-> "enum", text |-> t]

StateName == {"IDLE", "AWAITING_RECENTER", "HEAD_ACTIVE", "SAFE_STOPPED", "ESTOP_LATCHED"}
ReasonName == {"WATCHDOG", "EMERGENCY_STOP", "SESSION_STOPPED"}
CodeName ==
    { "STALE_SEQUENCE", "STALE_TIMESTAMP", "SESSION_MISMATCH", "NO_ACTIVE_SESSION", "MODE_BLOCKED",
      "UNKNOWN_MODE", "WATCHDOG_ACTIVE", "INVALID_PAYLOAD", "ESTOP_LATCHED" }
Angles == {"pan_degrees", "tilt_degrees"}
Actions == {"neck_action", "base_action", "arm_action"}

(* Faulty variant of PyCorrelation: one identifier may be missing.         *)
PyCorrelationPartial(e, required) ==
    /\ e.sessionId.kind = "null" \/ PyName(e.sessionId)
    /\ e.sequence.kind = "null" \/ PyInteger(e.sequence, One)
    /\ required => e.sessionId.kind # "null"

(* _validate_correlation                                                   *)
PyCorrelation(e, required) ==
    \/ ~required /\ e.sessionId.kind = "null" /\ e.sequence.kind = "null"
    \/ PyName(e.sessionId) /\ PyInteger(e.sequence, One)

(* What is checked before the fields of the event's own class, or, for     *)
(* other events than targets, in any order with them.                      *)
PyEventHead(e) ==
    /\ PyInteger(e.clock, Zero)
    /\ PyCorrelation(e, e.type = "neck.target")

(* _event_to_validated_dict                                                *)
PyEncodes(e) ==
    /\ PyEventHead(e)
    /\ CASE e.type = "gateway.state" -> e.own["state"] \in {Enum(s) : s \in StateName}
         [] e.type = "neck.target" ->
              (\A a \in Angles : PyFinite(e.own[a])) /\ e.own["hold"].kind = "boolean"
         [] e.type = "safety.stop" ->
              /\ e.own["reason"] \in {Enum(r) : r \in ReasonName}
              /\ \A a \in Actions : PyName(e.own[a])
         [] e.type = "command.rejected" ->
              e.own["code"] \in {Enum(c) : c \in CodeName} /\ PyName(e.own["message"])

(* isfinite of an int beyond a double raises OverflowError, outside the    *)
(* try statement of encode_event; the second angle is tested when the      *)
(* first is finite.                                                        *)
PyEncodingRaises(e) ==
    LET huge(v) == v.kind = "number" /\ ~v.fraction /\ v.magnitude > MaxDouble
        pan == e.own["pan_degrees"]
        tilt == e.own["tilt_degrees"]
    IN  /\ e.type = "neck.target" /\ PyEventHead(e)
        /\ {pan.kind, tilt.kind} \subseteq {"number", "constant"}
        /\ huge(pan) \/ (PyFinite(pan) /\ huge(tilt))

(* An enumeration is written as its value.                                 *)
Written(v) == IF v.kind = "enum" THEN String(v.text) ELSE v

(* encode_event bounds nothing and json.dumps writes up to six characters  *)
(* for one: an event may be longer than a decoder takes, and longer than   *)
(* the command whose session identifier it repeats.                        *)
Oversized(e) ==
    LET size(v) == IF v.kind = "string" THEN Escaped[v.text] ELSE 0
    IN  size(e.sessionId) + FoldFunction(+, 0, [f \in DOMAIN e.own |-> size(e.own[f])])
          > EventRoom[e.type]

(* The document encode_event writes; all texts are escaped to ASCII.       *)
PyDocument(e) ==
    LET own == SetToSeq(DOMAIN e.own)
    IN  [ layout |-> IF Oversized(e) THEN "oversized" ELSE "exact",
          root |-> Object( << <<"schema_version", String("0.1")>>, <<"event_type", String(e.type)>>,
                              <<"gateway_monotonic_ns", e.clock>>,
                              <<"session_id", e.sessionId>>, <<"sequence", e.sequence>> >>
                           \o [i \in DOMAIN own |-> <<own[i], Written(e.own[own[i]])>>] ) ]
================================================================================
