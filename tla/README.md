# A TLA+ model of the Valera control tower

This directory is a verification development for the repository it stands in.
It models two things:

* the VR tele-operation gateway (`robot/vr_gateway`, `robot/vr_gateway_ros`):
  the code that decides, command by command, whether a remote head may move the
  robot's neck, and that must stop in time when the client falls silent,
  misbehaves or is replaced;
* the missions (`robot/`, `scripts/`): the event log in which a task is
  recorded, the programs that write it over adapters and operators that may
  refuse, and the files that the physical demo leaves behind as evidence.

## 1. Inventory

| Part | State it keeps | Operations | Meets others through |
|---|---|---|---|
| Gateway (`gateway.py`) | state, active and used session ids, last sequence and timestamp, two monotonic times | `handle(command)`, `poll()` | events returned to the caller; calls the neck controller |
| Neck controller (`neck.py`) | reference, base, filter, last update, last target | `recenter`, `update` | called by the gateway only |
| Messages (`messages.py`) | none (frozen dataclasses) | validation | types of commands and events |
| Wire codec (`wire.py`) | none | `decode_command`, `encode_event` | JSON text to and from envelopes and events |
| Adapter, bridge, ROS node | subscription queue, poll timer | `_on_command`, timer `poll` | one executor thread serves both |
| Unity client (`unity/`, C#) | `SessionSequence` counter | strict parser, `EncodeCommand`, `DecodeEvent`, pose converter | the same JSON, from the other side |
| Task event log (`state_machine.py`) | list of events | `append`, `validate` | written by every mission |
| Missions (`sim_executor`, `adapter_sim_mission`, `hybrid_demo`, `physical_demo`) | an event log | run once | adapters, camera probe, operator |
| Adapters (`robot/adapters`) | simulated devices | probe, capture, detect, grasp | adapter mission |
| Evidence and replay | files | write, check | scripts, run by hand |
| Dashboard (`dashboard/render.py`) | a file | final status, evidence links, page | rendered from the replay file |
| Inventory and probe scripts | none | report | the operating system |

What is hard, and where it is modelled:

* **Time against traffic.** Two deadlines are evaluated only when the gateway
  is called. A command and its deadline may come due together, in either order
  of callbacks; silence must still end a session; traffic that is refused must
  not feed the watchdog.
* **Fields that are None.** Every gate of `handle` and every deadline test
  passes when the field it reads is None. The gates are right only because the
  fields are set and cleared together.
* **Clients that repeat, reorder or replace.** A second client may take over an
  active session; commands of the first keep arriving; identifiers must not be
  used twice.
* **The event stream as the only evidence.** States are announced only when
  they change, a takeover gives no `safety.stop`, and all events of a call are
  lost if one of them cannot be encoded.
* **Rate against silence.** The permitted step of the neck grows with the time
  since the last update, which is not the time since the last command.
* **Two codecs for one text.** Python and C# parse the same JSON, each with a
  parser of its own: a repeated name, a sign or a position that is absent or null
  must not become two different commands, and what one end writes the other must
  understand.
* **Numbering over an unreliable way.** The client numbers its commands, the
  gateway gates on the numbers; between them commands are lost, repeated,
  delayed and overtaken, by those of the next session too.
* **The process.** A bounded queue, a late timer, an exception in a callback, a
  restart that forgets everything.
* **Logs with several authors.** An event detected elsewhere is spliced into a
  log numbered by someone else; `append` compares with the last event only,
  `validate` looks at all; an exception in any adapter ends a mission whose
  side effects stay.
* **Files overwritten in place.** Every run of the physical demo writes the same
  five files one after the other, and may end between any two steps; the output
  check is a program of its own that sees only files. The dashboard derives its
  status from the last event and its links from where its own file lies.

`PROJECT.json` lists each of these hazards at its line, with the properties
that cover it, or why none does.

## 2. Modules

```
NeckPipeline          operators of the neck (neck.py)
  NeckController      the controller on its own, any caller
  VrGateway           the gateway (gateway.py, messages.py), contains a neck
    TeleopConsumer    the gateway and a reader of its event stream
    VrGatewayNode     adapter, ROS node and process around it
    UnityTeleop       the clients that number their commands, and the way between
TeleopSafety          the abstract permission protocol VrGateway implements

WireCodec             documents and the Python codec (wire.py)
  UnityCodec          the C# codec (StrictJsonParser.cs, WireCodec.cs)
    WireContract      one document on the wire, written by either end or by anyone

EventLog              operators of the task event log (state_machine.py)
  TaskEventLog        one log, any authors
  Missions            simulated, adapter and hybrid missions
  Dashboard           final status and links of a page (dashboard/render.py)
    PhysicalDemo      runs of the physical demo, their files and the output check
SealedLog             the abstract log TaskEventLog implements

MC*                   small instances for TLC

NeckPipelineProofs    <-  NeckControllerProofs, VrGatewayProofs
VrGatewayProofs       <-  UnityProofs (clients, wire); has the node and the consumer too
EventLogProofs        <-  MissionsProofs, PhysicalDemoProofs
TaskEventLogProofs
```

**NeckPipeline / NeckController.** `NeckState` has one field per attribute of
the Python class; `Recentered` and `UpdatedWith` are `recenter` and `update`.
The limits on the configuration are the assumption `NeckConfig`, translated from
`NeckControlConfig.__post_init__`: it does not constrain the centre or the gain,
and neither does the code. Two abstractions:

* what `_relative_angles_degrees` returns for two orientations is a constant
  function `Relative`, assumed only to be zero between an orientation and
  itself. The table in `MCNeckController` is what the Python function returns
  for five head orientations, rounded to degrees, on both sides of the 180
  degree seam and bent over backwards;
* the coefficient `1 - exp(-dt/tau)` is any value in `1..Resolution` when time
  has passed, 0 when none has, and all of it when there is no filter.

`NeckController` adds two history variables for its properties: the target and
time of the last recentring, and whether the head has been still since.

**VrGateway.** One variable per attribute of `VrGateway`, plus `now`, the
reading of the monotonic clock, and `out`, the events the latest call returned.
One action is one call. `handle` has a single thread and no await, so its body
is atomic; what is interleaved is calls and clock ticks. The disjuncts of
`Handle` partition the function by its outcome: three kinds of rejection
(`RejectMalformedStop`, `RejectExpired`, `Reject`) and one action per handler;
`HandleInvalid`, for what is not an envelope, is a disjunct of `Next` of its own.
`Refusal(c)` is the sequence of gates of `handle` followed by the handler's own
checks, in the order of the code. `Timestamp`, `Sequence`, `Mode` and
`Command` are what clients send. Not modelled: timestamps, texts and hold
actions inside events.

**TeleopSafety** says what the gateway promises, without envelopes, rejections
or a neck: one holder at a time, never the same identifier twice, engaged
within the handshake time, every order obeyed in sequence and less than a lease
after the one before, told to stop when engaged permission ends, latched
forever. Taking over from an engaged holder sends no stop, as in the code.
`PermissionContract` states that `VrGateway` implements it: phases from
the gateway's states, the signal from the kind of events returned.

**TeleopConsumer** has no source in the repository (a driver is the intended
reader): it is written from the events the gateway publishes and marked
external.

**VrGatewayNode.** `OnCommand` is the subscription callback from decoding to
publishing; `Decode` classifies a frame by what `decode_command` does with it;
`OnCommandRaises` is the exception that no one catches, which leaves
`rclpy.spin`. `OnPollTimer` is the timer callback on its fixed grid. The queue
keeps the latest `Depth` frames. `Restart` is `VrGatewayNode.__init__`. The
order in which the executor serves the two callbacks is free, but a timer that
is due is served within `Latency`.

**UnityTeleop.** Each session is one run of a client: `Send` takes the next
number of that session's counter and the client's steady clock as a stamp, and
puts the command into `channel`, from which `Drop` takes it away and `Deliver`
hands it to the gateway, once or again and in any order. `NextNumber` is
`SessionSequence.Next`, which raises after the last number. `obeyed` is the
history of what the gateway accepted, up to the latch.

**WireCodec / UnityCodec / WireContract.** A document is a root value and a
layout, that is what is around the text or wrong with it as a whole: white space
that JSON knows or does not know, trailing data, size, nesting. An object is the
sequence of its members as they were written, so that a name may be repeated. A
number is a literal: its sign, its magnitude, and whether it has a fraction or
an exponent. Magnitudes are natural numbers, counted in units of the least
positive double, of which every double and every integer is a multiple; 1, 2^63-1,
the largest double and the largest integer of 4300 digits are constants in that
order. `SquareSum`, what the tests of a rotation's length are about, is computed
exactly; at which sum Python's `hypot` and the sum of squares of C# come out as
null, or as infinite, are four more constants (`PythonNull`, `DotnetNull`,
`PythonLimit`, `DotnetLimit`), of which only one thing is assumed: that a sum
that is finite for C# is for `hypot`, which scales. So rounding is in the model,
but for one idealisation: that in each language it moves the threshold and
leaves it a threshold. A text is told apart only as far as the codecs do: blank
for one of them or both, too long for one or both, with half a surrogate pair,
and by the characters `json.dumps` makes of it (`Escaped`). A command is as long
on either end, but an event is not: `Oversized` says which events escaping makes
longer than the client's parser takes. `PyAccepts`/`PyRead` are `decode_command`,
`CsAccepts`/`CsRead` its counterpart, `CsDocument` and `PyDocument` what the two
encoders write, `CsReadEvent` how the client decodes an event. `WireContract`
lets anyone, a client or the gateway put one document on the wire.

**EventLog / TaskEventLog.** A log is a sequence of envelopes: task, sequence,
type and the failure code. Identifiers, time stamps and payloads are left out.
`Accepts` is the checks of `append`, `Valid` those of `validate`, which
are written differently; an append that raises yields `Refused`, an outcome the
missions carry to their end, because none of them catches it. `TaskEventLog` is
one log given any events in any order.

**SealedLog** says what readers take a log for: numbered facts that are only
ever added, each with a higher number, until the first terminal event closes the
log for good. `ReadersContract` states that `TaskEventLog` implements it.

**Missions.** An action is the code from one adapter call to the next. A call
answers anything the adapter's contract in `robot/adapters` permits, or raises
(`CallRaises`: the log is lost, the frame counter and the gripper are not).
Missions follow each other over one adapter runtime, whose state is `frames` and
`gripperOpen`; `returned` keeps the logs handed to callers with what the
adapters answered. `Hybrid` is the splice: the log of the simulated mission with
the event of the detection in the place of `object.found`. Tasks of another mode
are refused before anything happens and are left out.

**PhysicalDemo.** Runs of `scripts/run_physical_demo.py` with one output
directory and one task id, hence one set of file names. A picture is the number
of the run whose camera took it; a text file carries the run that wrote it and
its log. How much of it is there is its `extent`: none from the moment it is
opened (and emptied) until it is written, and the dashboard, which is longer than
a buffer, may be there in part (`FlushDashboard`): that has what the output check
looks for and lacks the end. `BreakOff` is an exception,
the operator's Ctrl-C or a killed process, between any two steps.
`OutputPasses` is `scripts/check_physical_demo_output.py`, which may be asked at
any moment.

**Dashboard.** `FinalStatus` is what the page says of a log; `EvidenceLinks`
computes the links as the code does, from the innermost directory named `data` in
the path of the page, and `Followed` is where a browser then looks.

## 3. Runs

| Run | What it shows |
|---|---|
| `neck` | limits, travel since the last recentring and bumpless recentring under any interleaving, with a centre outside the limits and a reversed axis |
| `gateway` | coherence of the session, announcement of motion loss, inert rejections, the latch, the refinement of `TeleopSafety`, and that every session of a silent client ends by polling alone |
| `consumer` | a reader of the stream is never wrong about the state, gets targets only while released, and sees them within the rate |
| `node` | bounded stopping time, encodability of every event, over queue, timer, exits and restarts |
| `node_input` | *violation*: one frame ends the process (section 6) |
| `teleop` | commands are obeyed once, in order and in their session only, and none is refused but for what happened on the way |
| `wire` | no text is two commands, each end understands what the other writes (events that are too long once escaped excepted), and the list of inputs on which they part is complete |
| `log` | logs built by `append` pass `validate`, and are sealed by their first terminal event |
| `missions` | returned logs are sealed, none refuses an event, frames are not shared, the gripper closes only after a detection |
| `missions_failures` | *violation*: a mission completes after a failed grasp or a detection without object (section 6) |
| `physical` | a check that passes has a confirmed run behind it, finished runs are judged rightly and leave a matching set of files, the dashboard tells the outcome of its run and its links reach the pictures |
| `physical_report` | *violation*: the check passes with the report of another run (section 6) |

Bounds, all named constants: `MaxTime` (the clock stops), `Horizon` (clients
fall silent after it), `Depth` (2 in place of 10), `MaxCrashes`. Timeouts are 2
and 3 ticks, so that a command can come before, at and after each deadline, and
the two deadlines differ. Two session ids suffice for takeover, mismatch and
reuse; sequences up to 3 (5 for the consumer, whose properties need a start, a
recentring, two targets and a recentring or mode change between them) suffice
for replay, gap and order. In `gateway`, clients fall silent after tick 4 and the
clock goes on to 8: a session opened at the last moment expires at 7 at the
latest (the longest timeout is 3), so that none survives merely because the
clock stopped. In `teleop` each of two sessions sends up to three commands (a
start, a recentring, and one more that may be overtaken, repeated, or late) over
a channel for two, with timeouts of 2 and 1 ticks and a clock to 2, so that either
deadline can pass. Modes are "head" and "arm": one the gateway knows and one it does not. The two
sessions are symmetric: no liveness is checked there and nothing orders
identifiers. Its view leaves out `out`, which the next call
overwrites unread, and the neck. `wire` covers about three thousand documents: the
well-formed ones of each command, with up to one edit (a value replaced by each
literal, text or other value, a member removed, added or repeated) at one level,
rotations of every pair of magnitudes, and the values that a client or a gateway
may encode. One edit suffices because the codecs check each member by itself,
but for the lengths of rotations. Its scale is small (1 is four units, the largest
double a hundred) and has a magnitude for every case: components that are null
alone and not together, squares that overflow together and not alone, lengths
that do, and a band between `DotnetNull` and `PythonNull` in which the two
disagree. Among the session identifiers are one of 65,310 letters, whose
`gateway.state` still fits the client's parser while its `safety.stop` does not,
and one of 22,000 accented letters, none of whose events fits. In
`node`, 5 ticks are the watchdog time, a timer period and the latency together:
the first moment at which `StoppedInTime` could fail. `MaxSequence` is 4: a log of
two events, a terminal one and something after it, with a gap. `MaxMissions` is
3 and `MaxFrames` 4, so that a mission can break off after its capture between
two that return. `MaxRuns` is 3: a successful run, one broken off over its files,
and one more; the camera sees the expected marker, another one, or none. The
project lies in a directory named `data` and has one of its own, which the links
of the dashboard have to tell apart.
Deadlock is checked except in the two `missions` runs, where the program stops
once its last mission has returned: `Poll`, a restart, an append that raises or
a demo started without its flag is always possible in the others.

Fairness: `WF(Tick)` and `WF(Poll)`. The timer is created on a steady clock
(`node.py`, lines 83-96), and the executor serves it, so time advances and
`poll` keeps being called whatever clients do. Nothing is assumed of clients.
The missions are finite programs and have no liveness property: an operator may
never answer.

Each property of each passing run comes with a mutant, a faulty variant of one
operator (the operators commented "Faulty variant") that TLC must catch.

## 4. Proofs

`tlapm` proves, for every value of the constants that satisfies the named
assumptions (`NeckConfig`, `MaxTimeType`, `GatewayConstants`, `NodeConstants`,
`ConsumerAssumption`, `ClientConstants`, `TextConstants`, `NumberConstants`,
`DotnetConstants`, `SquareConstants`, `DocumentConstants`, `DtoConstants`, `EventConstants`, `LogAssumption`,
`MissionAssumption`, `PhysicalAssumption`):

* `NeckControllerProofs`: `LimitsHold`, `BudgetHolds`, `RecenterIsBumpless`,
  `NeckTypeCorrect`. The invariant `IInv` adds that the last update is not
  before the last recentring nor in the future (without it the budget's time
  could shrink), and that, while the head is still, base and target agree and
  the filter is empty (without it a target equal to the preserved one could
  still be about to move). The step lemmas about the pipeline are in
  `NeckPipelineProofs`.
* `VrGatewayProofs`: `TypeCorrect`, `SessionsAreCoherent`, `NeckStaysLimited`.
  `SessionCoherence` is inductive with the types. `Gates` says what the gates
  establish for a command they let through, given that no rejection code is
  None; with coherence, `AdmittedInSession` follows: a handler other than start
  and emergency stop runs only in a session. On them rest `Refinement`
  (`Spec => PermissionContract`, every call is one step of `TeleopSafety`),
  `LatchIsPermanent`, `RejectionIsInert` and `MotionLossAnnounced`, with lemmas
  about the events each call returns, as a sequence and as a set of kinds.
  Two compositions of the gateway follow in the same module.
  *Node*: `NodeTypeCorrect`, `MotionStopsInTime`, `EventsCanBeEncoded`.
  `StoppedInTime` is not inductive: the invariant adds that the timer's next
  slot is at most a period ahead and at most `Latency` behind (`Timer`), and that
  the watchdog of an active session had not expired at the latest poll
  (`Polled`).
  *Consumer*: `StreamIsFaithful`, `CommandIsWhatWasPublished`,
  `TargetsAreReleased`, `RateIsKeptForConsumers`. `ConsumerInv` joins what the
  reader knows to the gateway's coherence; `PublishedInSession` says that the
  last target published belongs to a session begun, and never to one that has
  yet to recentre, so that a session's first recentring, which moves the target
  without limit, never lies between two targets whose rate is taken.
* `UnityProofs`, *clients*: `CommandsObeyedInOrder`, `RefusalsExplained`.
  `HistoryInv` relates the history to the gateway: the history is in order, its
  sessions are used identifiers, the latest one opened is the session in
  progress, if there is one, and its numbers are at most the last sequence. That
  does not say why a session is over, which is what explains a refusal:
  `RefusedInv` adds that commands in the channel and in the history carry
  numbers and stamps that rise together (`ClientInv`), and that for the state the
  gateway is in the history has the reason (`ReasonInv`): the stop that ended
  the latest session, or the deadline that passed since it was opened or last
  obeyed.
  *Wire*: `DecodersReadAlike`, `ClientUnderstood`, `EventsUnderstood`,
  `DifferencesKnown`, for documents with any number of members, all DTOs and all
  events. The invariant `Authored` says that what is on the wire is what its
  author wrote; the rest is about the codecs. `AtMember` and `AtUnique` say what a
  lookup by name finds (the last of several, hence the only one), `ObjectOf` what a
  literal object holds, `RootMembers`, `PoseMembers`, `VectorMembers` and
  `EventMembers` what the encoders write. `PyAcceptsToo` shows that the final
  check of `EncodeCommand` by its own decoder is all that `decode_command` needs,
  but for the names and the edge of 1e-12; `CommonDocument` goes through both
  decoders test by test. Only Python looks at the number of digits: `FewDigits`
  says that in a document the Unity decoder accepts every number is a long or a
  double, since every member is one of the known names and occurs once
  (`ChildrenAt`). `EventsUnderstood` is an equivalence: size is the only reason
  for the client to refuse an event, and what it decodes is what was meant.
* `TaskEventLogProofs`: `LogTypeCorrect`, `AppendedLogsValidate` and
  `LogIsSealed` (`LogSpec => ReadersContract`), for logs of any length. The
  invariant `LogInv` is types, `Valid` and `Ordered`: every event of the log is
  numbered below every later one. `append` compares with the last event only and
  `validate` with the neighbour, so `Ordered` is what turns "above the last" into
  the abstract log's "above all".
* `EventLogProofs` has the lemmas of the programs that write logs: a log
  numbered by position stays open until a terminal event closes it, and the
  ways of extending one (`Emitted`, `FailedWith`) keep it so.
* `MissionsProofs`: `MissionsTypeCorrect`, `MissionLogsNeverRefuse`,
  `ReturnedLogsSealed`, `FramesNotShared`, `GripperClosesOnlyOnObject`, for any
  number of missions and frames. The invariant gives the shape of the log at
  each point of the program, bounds every frame returned by the camera's
  counter, and keeps the logs already returned sealed. `HybridIsClosed` is the
  splice: the event put in has the number of the one it replaces.
* `PhysicalDemoProofs`: `PhysicalTypeCorrect`, `DemoLogsNeverRefuse`,
  `ReplaysAreSealed`, `PassIsConfirmed`, `FilesOfFinishedRun`, `CheckIsJust`,
  `DashboardIsTruthful`, `LinksLeadToEvidence`, for any markers and any number of
  runs. The invariant
  says that the log follows the script as far as the operator has confirmed it,
  that a file that can be read tells the whole story of its run (`Story`,
  `Tells`), which run's camera each picture is from (`Pictured`), and what is on
  disk once a run has ended (`EndedInv`). `LinkReaches` is about paths alone: from
  the directory of the dashboard, as many steps up as it has below the last
  `data` in its path, and then down the stored path, is the place of the picture,
  wherever the project lies and whatever its directories are called. The
  invariant `Shown` adds that the links of a page on disk are those.

The assumptions say what the code grants:

* `ClientConstants`: the payload of a command is of the kind its encoder writes,
  and a handshake asks for "head", the only mode `EncodeSessionStart` lets out.
  Commands in other modes, with any numbers, are left free.
* `NumberConstants`: the numbers the codecs compare with, in their order.
  `SquareConstants`: a sum of squares that is finite for C# is for Python.
* `DocumentConstants`: objects are sequences of members and numbers have a sign
  and a magnitude; anything else may stand anywhere.
* `DtoConstants`: the fields of the DTO classes, with a long, a double or a string
  wherever the class has one; a position is given or not.
* `EventConstants`: the fields of the four event classes. No `int` of Python is
  minus zero. No text has half a surrogate pair: `encode_event` would write one
  and the Unity parser refuse it, but session identifiers come from decoded
  commands, which `_reject_surrogates` has searched, and all other texts are the
  gateway's own. The words of the protocol are whole, too.
* `PhysicalAssumption`: directories are named by strings, and the task
  identifier, a directory under `data`, is neither `data` nor `..`
  (`scripts/run_physical_demo.py`, line 20).

Only model-checked: `SilentSessionsEnd` (liveness, and with it `ENABLED`, is
out of the prover's reach).

## 5. Not modelled, and why

* Floating point: the neck works in whole degrees. Rounding could move the
  target by parts in 10^15 at rest; the limits are exact in the code because
  `_clamp` comes last.
* The publisher's queue and DDS. An event lost there is not the gateway's.
* Camera, image processing, HTML (except for status and links), the inventory and
  probe scripts: I/O or formatting. The gateway simulation is one behaviour of
  `VrGateway`; the enterprise schemas have none.
* Two runs of the physical demo at the same time, or a camera probe that writes
  the demo's frame file during a run. The checksums of
  `evidence.py`: the model says which run's bytes a picture has, not what its
  digest is.
* The pose converter of the Unity client: an algebra of single precision
  quaternions, without state.
* How a literal is read as a number and an escape as a character: a literal has
  a magnitude, which both parsers are taken to find, and a double is written so
  that it is read back (a runtime that writes fifteen digits only would round
  what it sends).
* The size of an event to the character: texts are counted exactly, numbers at
  their longest.
* Pictures that are cut off: `imwrite` is one step, so that a run interrupted in
  it leaves the old picture or the new one, though the code could leave a torn
  one. The output check asks no more of a picture than that the file exists.
* Which object a detection is of: `adapter_sim_mission.py` (lines 66-93) goes on
  with whatever the vision adapter returns and never compares its `object_id`, so
  `GripperClosesOnObject` says no more than that there was a detection. Nothing
  opens the gripper again, so that it is about the first closing.

## 6. Disagreements between code and documentation

`node_input` finds that input can end the process. `adapter.py` line 32 says
"Decode failures never raise", and `decode_command` "Raises `WireError` for any
deviation from the v0.1 contract". A quaternion component written as an
integer too large for a float makes `isfinite` raise `OverflowError`
(`wire.py`, line 280), and one of more than 4300 digits makes the JSON decoder
raise a plain `ValueError`; `handle_command` catches `WireError` only. The
process then ends, and with it the poll timer that would have published the
watchdog's stop.

`missions_failures`: a mission completes after a failure, in two ways. The arm
adapter may answer a grasp with `grasped=False`, and `adapter_sim_mission.py`
writes that into the payload of an `object.grasped` event and goes on to
`task.completed`. And the hybrid demo splices whatever the detection returns into
a successful log, so that `object.not_found` is followed by the grasp, the
delivery and `task.completed`. The lifecycle in
`docs/office-hours-valera-enterprise-robotics-poc.md` leads from either (lines
319 and 327) to `task.failed`, and line 526 says of `object.grasped` that the
object was successfully held.

`physical_report`: a run that breaks off after its replay is written and before
its dashboard is opened leaves a replay of its own beside the dashboard of an
earlier run, and the output check passes on the two: of the dashboard it asks
only that certain words occur in it. The design document's table of failure
modes (line 649) asks for a consistent timeline and report, derived from the
log only, and `docs/architecture.md` (line 4) derives the dashboard from the
task events.

Smaller ones, left to the reader:

* The transport document says of the events after a watchdog expiry that their
  identifiers are null (`docs/vr_gateway_ros2_transport_v0_1.md`, near line 166),
  while its own sample and the code carry the identifiers of the session that
  expired.
* `wire.py` (line 7) says of the codec that it "exactly matches the merged Unity
  contract". `KnownDifference` in `WireContract` lists where the decoders part:
  white space after the document that JSON does not know, names made of control
  characters that only Python calls blank, modes whose length is counted in code
  points by one and in UTF-16 units by the other, minus zero, rotations whose
  sum of squares exceeds a double though their length does not (four components
  of 1e154), and rotations so near to 1e-12 in length that the rounding of `hypot`
  and of the sum of squares decides. `DifferencesAreKnown` shows that the list is
  complete for the codecs as they are modelled here, and `ReadAlike` that none of
  these changes the meaning of a command.
* The limit of 65,536 characters holds on both ends for what they decode
  (`wire.py`, lines 78-80, "copied from the Unity v0.1 contract"), but
  `encode_event` has none (lines 166-176), and writes every character beyond ASCII
  as six or twelve. A session identifier may be as long as a command has room for,
  so a session can be opened whose events the client then refuses to parse
  (`StrictJsonParser.cs`, line 33). `EventsAreUnderstood` has this as its
  exception. The gateway itself is not affected: it keeps its state, and its
  watchdog stops the neck.
* `encode_event` raises `OverflowError` on an integer too large for a float
  (`wire.py`, line 489), though its docstring (line 169) speaks of `WireError`.
  No event of the gateway has such a number.

## 7. Plan

1. *(done)* `NeckPipeline`, `NeckController`, `VrGateway`, `TeleopSafety`,
   `TeleopConsumer`, `VrGatewayNode`; proofs for the first four.
2. *(done)* `EventLog`, `TaskEventLog`, `SealedLog` and their proofs.
3. *(done)* `Missions`: the log with the simulated, the adapter and the hybrid
   mission. `PhysicalDemo`: the demo, its evidence, replay and dashboard, and the
   output check over repeated and interrupted runs.
4. *(done)* `UnityTeleop`: `SessionSequence` composed with the gateway through a
   channel that loses, repeats and reorders.
5. *(done)* `WireCodec`, `UnityCodec`, `WireContract`, `Dashboard`.
6. *(done)* Proofs for the node, the consumer, the clients, the missions and the
   demo.

7. *(done)* Proofs for the refusals, the links and the wire: every safety property
   of a run is a theorem.

What is left: to show that the logs of the missions and of the physical demo
implement `SealedLog`, as the log of `TaskEventLog` does; and a model of the
Unity pose converter, should it ever get a state.
