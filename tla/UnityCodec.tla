------------------------------- MODULE UnityCodec ------------------------------
(***************************************************************************)
(* The Unity client's end of the wire: StrictJsonParser.cs and             *)
(* WireCodec.cs, over the documents of WireCodec.  A DTO handed to the     *)
(* encoder is a record like the one PyRead returns.                        *)
(***************************************************************************)
EXTENDS WireCodec

CONSTANTS
    DotnetBlank,  \* empty, or blank by string.IsNullOrWhiteSpace
    DotnetLong,   \* more than 64 UTF-16 units
    DotnetNull,   \* sums of squares up to this one are computed as at most 1e-24,
    DotnetLimit   \* up to this one as finite

(* White space is the same for both but for U+001C to U+001F, which only   *)
(* Python takes for it; a code point is one or two units.                  *)
ASSUME DotnetConstants ==
    /\ DotnetBlank \subseteq PythonBlank
    /\ PythonLong \subseteq DotnetLong /\ DotnetLong \subseteq Text

(* The square of a length is beyond a double long before the length is.    *)
(* Near 1e-12 it is a matter of rounding which of the two is stricter.     *)
ASSUME SquareConstants ==
    /\ DotnetNull \in Nat /\ DotnetLimit \in Nat
    /\ DotnetLimit <= PythonLimit

--------------------------------------------------------------------------------

(* StrictJsonParser.Parse: only JSON white space may follow; number        *)
(* literals stay texts.                                                    *)
CsParses(d) ==
    /\ d.layout \in {"exact", "spaced"}
    /\ \A v \in Values(d.root) :
          /\ v.kind # "constant"
          /\ v.kind = "object" => ~Repeats(v)
          /\ Texts(v) \cap Broken = {}

(* RequireNonEmptyString                                                   *)
CsName(v) == v.kind = "string" /\ v.text \notin DotnetBlank

(* RequireModeStringFromJson, RequireModeString                            *)
CsMode(v) == CsName(v) /\ v.text \notin DotnetLong

(* RequireInteger: NumberStyles.None takes digits only.                    *)
CsInteger(v, minimum) ==
    /\ v.kind = "number" /\ ~v.fraction /\ ~v.negative
    /\ minimum <= v.magnitude /\ v.magnitude <= MaxInt64

(* RequireFiniteNumber                                                     *)
CsFinite(v) == v.kind = "number" /\ v.magnitude <= MaxDouble

(* The sum of squares must be finite and above 1e-24.                      *)
CsLength(v) == DotnetNull < SquareSum(v) /\ SquareSum(v) <= DotnetLimit

CsQuaternion(v) ==
    /\ HasKeys(v, XYZW, {})
    /\ \A name \in XYZW : CsFinite(At(v, name))
    /\ CsLength(v)

CsPose(v, optional) ==
    /\ HasKeys(v, {"frame", "orientation"}, optional)
    /\ At(v, "frame") = String("quest_local")
    /\ CsQuaternion(At(v, "orientation"))
    /\ "position" \in Keys(v) /\ At(v, "position").kind # "null" =>
          /\ HasKeys(At(v, "position"), XYZ, {})
          /\ \A name \in XYZ : CsFinite(At(At(v, "position"), name))

(* ValidateCommandPayload                                                  *)
CsPayload(command, v) ==
    CASE command = "session.start" ->
           HasKeys(v, {"requested_mode"}, {}) /\ At(v, "requested_mode") = String("head")
      [] command = "mode.set" -> HasKeys(v, {"mode"}, {}) /\ CsMode(At(v, "mode"))
      [] command \in {"session.stop", "emergency_stop"} -> HasKeys(v, {}, {})
      [] OTHER -> CsPose(v, IF command = "head.pose" THEN {"position"} ELSE {})

(* DecodeCommand                                                           *)
CsAccepts(d) ==
    /\ CsParses(d)
    /\ HasKeys(d.root, EnvelopeKeys, {})
    /\ At(d.root, "schema_version") = String("0.1")
    /\ CsName(At(d.root, "session_id"))
    /\ CsInteger(At(d.root, "sequence"), One)
    /\ CsInteger(At(d.root, "timestamp_ms"), Zero)
    /\ \E command \in WireCommand :
          /\ At(d.root, "command") = String(command)
          /\ CsPayload(command, At(d.root, "payload"))

(* What DecodeCommand returns.  The position of a recentring is not read.  *)
CsRead(d) ==
    LET command == At(d.root, "command").text
        v == At(d.root, "payload")
        position == IF command = "head.pose" /\ "position" \in Keys(v)
                       /\ At(v, "position").kind # "null"
                    THEN {Vector(At(v, "position"), XYZ)} ELSE {}
    IN  [ command |-> command,
          sessionId |-> At(d.root, "session_id").text,
          sequence |-> At(d.root, "sequence").magnitude,
          timestamp |-> At(d.root, "timestamp_ms").magnitude,
          payload |->
            CASE command = "session.start" -> [mode |-> At(v, "requested_mode").text]
              [] command = "mode.set" -> [mode |-> At(v, "mode").text]
              [] command \in {"head.pose", "head.recenter"} ->
                   [orientation |-> Vector(At(v, "orientation"), XYZW), position |-> position]
              [] OTHER -> <<>> ]

--------------------------------------------------------------------------------
(* EncodeCommand                                                           *)

Magnitude(n) == IF n < 0 THEN -n ELSE n

(* A long is written in digits; a double with a fraction or, when large,   *)
(* an exponent, so that it never makes a long row of digits, and such that *)
(* it is read back (an older runtime that writes fifteen digits only would *)
(* round it; that is not modelled).                                        *)
LongLiteral(n) == Number(n < 0, Magnitude(n), FALSE)
DoubleLiteral(n) ==
    Number(n < 0, Magnitude(n), Magnitude(n) % One # 0 \/ Magnitude(n) > MaxInt64)

VectorDocument(vector, names) ==
    Object([i \in DOMAIN names |-> <<names[i], DoubleLiteral(vector[names[i]])>>])

PayloadDocument(dto) ==
    CASE dto.command = "session.start" -> Object(<< <<"requested_mode", String(dto.payload.mode)>> >>)
      [] dto.command = "mode.set" -> Object(<< <<"mode", String(dto.payload.mode)>> >>)
      [] dto.command \in {"head.pose", "head.recenter"} ->
           Object( << <<"frame", String("quest_local")>>,
                      <<"orientation", VectorDocument(dto.payload.orientation, <<"x", "y", "z", "w">>)>> >>
                   \o [i \in 1..Cardinality(dto.payload.position) |->
                         <<"position", VectorDocument(CHOOSE p \in dto.payload.position : TRUE,
                                                      <<"x", "y", "z">>)>>] )
      [] OTHER -> Object(<<>>)

(* A command too long for the parser is refused when the encoder decodes   *)
(* it, and would be by Python: the limits are the same, and are left out.  *)
CsDocument(dto) ==
    [ layout |-> "exact",
      root |-> Object( << <<"schema_version", String("0.1")>>, <<"command", String(dto.command)>>,
                          <<"session_id", String(dto.sessionId)>>,
                          <<"sequence", LongLiteral(dto.sequence)>>,
                          <<"timestamp_ms", LongLiteral(dto.timestamp)>>,
                          <<"payload", PayloadDocument(dto)>> >> ) ]

(* Faulty variant of CsEncodes: without the final check by the decoder.    *)
CsEncodesUnchecked(dto) ==
    /\ dto.sessionId \notin DotnetBlank
    /\ dto.sequence >= One /\ dto.timestamp >= Zero

(* The encoders check their DTO, and what they have written is decoded     *)
(* before it is returned: the second check includes the first.             *)
CsEncodes(dto) == CsAccepts(CsDocument(dto))

--------------------------------------------------------------------------------
(* DecodeEvent                                                             *)

(* DecodeCorrelation                                                       *)
CsCorrelation(root, required) ==
    LET absent == {key \in {"session_id", "sequence"} : At(root, key).kind = "null"}
    IN  IF absent = {} THEN CsName(At(root, "session_id")) /\ CsInteger(At(root, "sequence"), One)
                       ELSE ~required /\ absent = {"session_id", "sequence"}

OwnFields(type) ==
    CASE type = "gateway.state" -> {"state"}
      [] type = "neck.target" -> Angles \cup {"hold"}
      [] type = "safety.stop" -> Actions \cup {"reason"}
      [] type = "command.rejected" -> {"code", "message"}

EventKeys == {"schema_version", "event_type", "gateway_monotonic_ns", "session_id", "sequence"}

CsOwn(type, root) ==
    CASE type = "gateway.state" -> At(root, "state") \in {String(s) : s \in StateName}
      [] type = "neck.target" ->
           (\A a \in Angles : CsFinite(At(root, a))) /\ At(root, "hold").kind = "boolean"
      [] type = "safety.stop" ->
           /\ At(root, "reason") \in {String(r) : r \in ReasonName}
           /\ \A a \in Actions : CsName(At(root, a))
      [] type = "command.rejected" ->
           At(root, "code") \in {String(c) : c \in CodeName} /\ CsName(At(root, "message"))

CsAcceptsEvent(d) ==
    /\ CsParses(d)
    /\ d.root.kind = "object" /\ {"schema_version", "event_type", "gateway_monotonic_ns"} \subseteq Keys(d.root)
    /\ At(d.root, "schema_version") = String("0.1")
    /\ CsInteger(At(d.root, "gateway_monotonic_ns"), Zero)
    /\ \E type \in EventType :
          /\ At(d.root, "event_type") = String(type)
          /\ HasKeys(d.root, EventKeys \cup OwnFields(type), {})
          /\ CsOwn(type, d.root)
          /\ CsCorrelation(d.root, type = "neck.target")

CsScalar(v) ==
    CASE v.kind = "string" -> <<"text", v.text>>
      [] v.kind = "number" -> <<"number", Signed(v)>>
      [] v.kind = "boolean" -> <<"boolean", v.value>>

(* What DecodeEvent returns; a correlation is a set of at most one.        *)
CsReadEvent(d) ==
    LET type == At(d.root, "event_type").text
    IN  [ type |-> type,
          clock |-> At(d.root, "gateway_monotonic_ns").magnitude,
          correlation |-> IF At(d.root, "session_id").kind = "null" THEN {}
                          ELSE {<<At(d.root, "session_id").text, At(d.root, "sequence").magnitude>>},
          own |-> [field \in OwnFields(type) |-> CsScalar(At(d.root, field))] ]
================================================================================
