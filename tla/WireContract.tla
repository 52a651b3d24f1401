----------------------------- MODULE WireContract ------------------------------
(***************************************************************************)
(* The two codecs across the wire.  A document is on the wire, written by  *)
(* the Unity client from a DTO, by the gateway from an event, or by        *)
(* anyone; the properties say how the two ends take it.                    *)
(***************************************************************************)
EXTENDS UnityCodec

CONSTANTS
    Document,   \* what anyone may put on the wire
    Dto,        \* the commands a client may want to send
    Event       \* the events a gateway may want to send

(* An object is a sequence of members, a number a sign and a magnitude.    *)
WellFormed(v) ==
    /\ v.kind = "object" => v.members \in Seq(ToSet(v.members))
    /\ v.kind = "number" =>
          v \in [ kind : {"number"}, negative : BOOLEAN,
                  magnitude : Nat, fraction : BOOLEAN ]

ASSUME DocumentConstants == \A d \in Document : \A v \in Values(d.root) : WellFormed(v)

(* What the fields of the DTO classes can hold: a long, a double, any      *)
(* string, and the payload of the command, with at most one position.      *)
Long == (-(MaxInt64 + One))..MaxInt64
Double == (-(MaxDouble + 1))..(MaxDouble + 1)   \* the ends are the infinities

DtoPayload(command) ==
    CASE command \in {"session.start", "mode.set"} -> [mode : Text]
      [] command \in {"head.pose", "head.recenter"} ->
           [orientation : [XYZW -> Double], position : SUBSET [XYZ -> Double]]
      [] OTHER -> {<<>>}

ASSUME DtoConstants ==
    \A dto \in Dto :
        /\ dto \in [ command : WireCommand, sessionId : Text, sequence : Long, timestamp : Long,
                     payload : DtoPayload(dto.command) ]
        /\ dto.command \in {"head.pose", "head.recenter"} =>
              \A p, q \in dto.payload.position : p = q

(* What the attributes of an event can hold: no int of Python is minus     *)
(* zero, and no text is broken, as texts come from decoded commands or are *)
(* the gateway's own (encode_event would write half a surrogate pair, and  *)
(* the Unity parser refuse it).                                            *)
Holdable(v) ==
    /\ v.kind = "number" => WellFormed(v) /\ (v.negative /\ ~v.fraction => v.magnitude # Zero)
    /\ v.kind \in {"string", "enum"} => v.text \notin Broken

(* An event is of one of the four classes, with its fields; the words of   *)
(* the protocol itself are not broken either.                              *)
ASSUME EventConstants ==
    /\ Broken \cap ({"0.1"} \cup EventType \cup EventKeys \cup UNION {OwnFields(t) : t \in EventType}) = {}
    /\ \A e \in Event :
          /\ e.type \in EventType /\ DOMAIN e.own = OwnFields(e.type)
          /\ \A v \in {e.clock, e.sessionId, e.sequence} \cup {e.own[f] : f \in DOMAIN e.own} : Holdable(v)

VARIABLES
    wire,       \* the document on the wire, none at first
    author,     \* "nobody", "anyone", "client" or "gateway"
    meant       \* what the author encoded

contractVars == <<wire, author, meant>>

ContractInit ==
    /\ wire = {} /\ author = "nobody" /\ meant = {}

Quiet == author = "nobody"

AnyoneSends ==
    /\ Quiet
    /\ \E d \in Document :
           /\ wire' = {d} /\ author' = "anyone" /\ meant' = {}

(* WireCodec.EncodeCommand returned.                                       *)
ClientSends ==
    /\ Quiet
    /\ \E dto \in Dto :
           /\ CsEncodes(dto)
           /\ wire' = {CsDocument(dto)} /\ author' = "client" /\ meant' = {dto}

(* encode_event returned.                                                  *)
GatewaySends ==
    /\ Quiet
    /\ \E e \in Event :
           /\ PyEncodes(e)
           /\ wire' = {PyDocument(e)} /\ author' = "gateway" /\ meant' = {e}

(* encode_event raised something else than WireError.                      *)
EncodingRaises ==
    /\ Quiet
    /\ \E e \in Event :
           /\ PyEncodingRaises(e)
           /\ wire' = {} /\ author' = "crash" /\ meant' = {e}

(* The document has been taken; the next one has nothing to do with it.    *)
Taken ==
    /\ ~Quiet
    /\ wire' = {} /\ author' = "nobody" /\ meant' = {}

ContractNext ==
    \/ AnyoneSends
    \/ ClientSends
    \/ GatewaySends
    \/ EncodingRaises
    \/ Taken

ContractSpec == ContractInit /\ [][ContractNext]_contractVars

--------------------------------------------------------------------------------

(* No document is read as two different commands: whatever both decoders   *)
(* accept, they decode to the same values, repeated names, signs, absent   *)
(* and null positions included.                                            *)
ReadAlike == \A d \in wire : PyAccepts(d) /\ CsAccepts(d) => PyRead(d) = CsRead(d)

(* The rotations in a document.                                            *)
Rotations(d) ==
    {v \in Values(d.root) :
        HasKeys(v, XYZW, {}) /\ \A name \in XYZW : At(v, name).kind = "number"}

(* A rotation so near to 1e-12 in length that the rounding of hypot and of *)
(* the sum of squares decides.                                             *)
Borderline(v) ==
    \/ PythonNull < SquareSum(v) /\ SquareSum(v) <= DotnetNull
    \/ DotnetNull < SquareSum(v) /\ SquareSum(v) <= PythonNull

(* What the Unity encoder lets out, decode_command decodes to the command  *)
(* that was meant, unless a name of it consists of the control characters  *)
(* that only Python calls white space, or its rotation has a length of     *)
(* 1e-12 but for rounding.                                                 *)
ClientIsUnderstood ==
    author = "client" =>
        \A d \in wire, dto \in meant :
            \/ PyAccepts(d) /\ PyRead(d) = dto
            \/ ~PyName(String(dto.sessionId))
            \/ dto.command = "mode.set" /\ ~PyName(String(dto.payload.mode))
            \/ \E v \in Rotations(d) : Borderline(v)

(* Every event encode_event lets out, the Unity decoder decodes to the     *)
(* event that was meant: null identifiers as an unavailable correlation,   *)
(* each enumeration by its name, each number by its value.  The size is    *)
(* all that can stop it: an event that is too long once it is escaped is   *)
(* refused, for encode_event does not look at the limit of the parser.     *)
EventsAreUnderstood ==
    author = "gateway" =>
        \A d \in wire, e \in meant :
            /\ CsAcceptsEvent(d) <=> ~Oversized(e)
            /\ CsReadEvent(d) =
                 [ type |-> e.type, clock |-> Signed(e.clock),
                   correlation |-> IF e.sessionId.kind = "null" THEN {}
                                   ELSE {<<e.sessionId.text, Signed(e.sequence)>>},
                   own |-> [field \in DOMAIN e.own |-> CsScalar(Written(e.own[field]))] ]

(* The ways in which the decoders part: white space that is none in JSON   *)
(* after the document, names of control characters, modes counted in code  *)
(* points, minus zero, rotations of 1e-12 but for rounding, and rotations  *)
(* whose sum of squares is beyond a double.                                *)
KnownDifference(d) ==
    \/ d.layout = "oddly spaced"
    \/ \E v \in Values(d.root) :
          \/ v.kind = "string" /\ v.text \in (PythonBlank \ DotnetBlank) \cup (DotnetLong \ PythonLong)
          \/ v.kind = "number" /\ v.negative /\ v.magnitude = Zero
    \/ \E v \in Rotations(d) : Borderline(v) \/ SquareSum(v) > DotnetLimit

(* Apart from these the two decoders accept the same documents.            *)
DifferencesAreKnown ==
    \A d \in wire : (PyAccepts(d) <=> CsAccepts(d)) \/ KnownDifference(d)
================================================================================
