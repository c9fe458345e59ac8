---------------------------- MODULE CommandServer ----------------------------
(***************************************************************************)
(* The life of a board seen from its two sides: the application configures *)
(* TeensyCommandServer (TeensyCommandServer.h) by calls in any order, any  *)
(* number of times, and starts it; a controller is sent the schema and     *)
(* then has its lines parsed, checked for their address (ServiceLoop.h),   *)
(* dispatched (CommandDispatcher.h) and answered.                          *)
(*                                                                         *)
(* The outbound queue is not part of this module: ServiceLoop shows that   *)
(* an answer always finds room (RoomForAnswer).                            *)
(***************************************************************************)
EXTENDS SchemaBuilder, InboundParser

CONSTANTS
    Identities, CommandSpecs, TelemetryLists, StateLists, NetworkConfigs,  \* arguments of the API
    Provider, Hook,   \* function pointers other than null
    Lines,            \* lines the controller sends
    ResultCapacity,   \* kMaxResultPayloadBytes
    HandlerWrites,    \* what a handler adds to its result: sequences of <<name, kind, value>>
    BoardProcUs,      \* the literal of board_proc_us
    ResponseEnvelope, \* bytes of a response line around its result
    ResponseCapacity  \* kResponseJsonBufferBytes

\* The library's own command: no arguments, allowed during an e-stop.
CountersCommand ==
    [name |-> "get_counters", args |-> <<>>, args_null |-> TRUE, blocked_by_estop |-> FALSE,
     handler |-> "counters"]

IsList(s) == s \in Seq(Range(s))

\* The arguments of the API are what their C++ types say.
ASSUME ListAssumption ==
    /\ \A spec \in CommandSpecs : IsList(spec.args)
    /\ \A list \in (TelemetryLists \cup StateLists) \ {Null} : IsList(list)

\* The strings that the library writes into a schema, and those it is given.
LibraryTexts ==
    {"schema", "commands", "args", "blocked_by_estop", "telemetry", "state", "firmware_version",
     "type", "seq", "timestamp", "source", "target", "protocol_version", "controller",
     CountersCommand.name} \cup ValueType
ItemNames(list) == {list[i].name : i \in DOMAIN list}
ApiTexts ==
    {EmptyText}
    \cup (UNION {{id.board_id, id.protocol_version, id.firmware_version} : id \in Identities})
    \cup (UNION {{spec.name} \cup ItemNames(spec.args) : spec \in CommandSpecs})
    \cup (UNION {ItemNames(list) : list \in (TelemetryLists \cup StateLists) \ {Null}})

\* Strings have a length, lines are bytes, and "controller" is a name like others.
ASSUME TextAssumption ==
    /\ \A s \in (LibraryTexts \cup ApiTexts) \ {Null} : Len(s) \in Nat /\ Escapes(s) \in Nat
    /\ Len("controller") <= MaxNameBytes /\ Len(EmptyText) = 0
    /\ Null \notin LibraryTexts \cup {EmptyText}
    /\ \A line \in Lines : line.text \in Seq(Byte)

\* What get_counters writes, and what any handler may: a name, a kind of value and
\* a value, the strings of which have a length.
CountersResult == <<<<"counters", "literal", Token("0", 1)>>>>
IsText(s) == Len(s) \in Nat /\ Escapes(s) \in Nat
IsWrite(m) ==
    /\ m[1] # Null => IsText(m[1])
    /\ IF m[2] \in {"string", "chars"} THEN m[3] # Null => IsText(m[3])
       ELSE m[2] \in {"literal", "double"} /\ m[3] # Null /\ m[3].bytes \in Nat

\* A result has room for its braces, and the library's own member has a length.
ASSUME ResultAssumption ==
    /\ {ResultCapacity, ResponseEnvelope, ResponseCapacity} \subseteq Nat /\ ResultCapacity >= 2
    /\ IsText("board_proc_us") /\ BoardProcUs.bytes \in Nat
    /\ \A wrote \in HandlerWrites \cup {CountersResult} :
          IsList(wrote) /\ \A i \in DOMAIN wrote : IsWrite(wrote[i])

VARIABLES
    network_config_set, started,
    announced,        \* [timestamp, text] of the schema line of the session, or NoSchema
    last              \* what the line in hand led to, or NoLine

vars == <<registryVars, status, network_config_set, started, announced, last>>
facadeVars == <<network_config_set, started, announced, last>>

NoSchema == [timestamp |-> Null, text |-> <<>>]
NoReply == [kind |-> "None", code |-> "None", result |-> <<>>]

\* A line, what ran for it ("handler", "hook" or "None") with what it said and
\* wrote, the message queued in reply, and the counters incremented.
Handled(line, ran, said, wrote, reply, counted) ==
    [line |-> line, ran |-> ran, said |-> said, wrote |-> wrote, reply |-> reply,
     counted |-> counted]
Dropped(line, counted) == Handled(line, "None", "None", <<>>, NoReply, counted)
NoLine == Dropped(Null, {})

Init ==
    /\ RegistryInit
    /\ network_config_set = FALSE /\ started = FALSE
    /\ announced = NoSchema /\ last = NoLine

-----------------------------------------------------------------------------
(* Configuration *)

\* A port, a mode, and for a static address an address.
setNetworkConfig(config) ==
    /\ status' = FirstOf(<<
          <<sealed, "RegistrationSealed">>,
          <<config.listen_port = 0, "InvalidConfiguration">>,
          <<config.mode \notin {"Dhcp", "StaticIpv4"}, "InvalidConfiguration">>,
          <<config.mode = "StaticIpv4" /\ config.ip = 0, "InvalidConfiguration">>>>)
    /\ network_config_set' = (network_config_set \/ status' = "Ok")
    /\ UNCHANGED <<registryVars, started, announced, last>>

SetNetworkConfig == \E config \in NetworkConfigs : setNetworkConfig(config)

SetIdentity ==
    /\ \E id \in Identities : setIdentity(id)
    /\ UNCHANGED <<lifecycle, commands, telemetry_fields, state_fields, hookVars, facadeVars>>

RegisterOneCommand(spec) ==
    /\ registerCommand(spec)
    /\ UNCHANGED <<lifecycle, identityVars, telemetry_fields, state_fields, hookVars, facadeVars>>

RegisterCommand == \E spec \in CommandSpecs : RegisterOneCommand(spec)

enableCountersDiagnosticCommand == RegisterOneCommand(CountersCommand)

RegisterSchema(fields, list) ==
    IF list = Null THEN [status |-> "InvalidArgumentSchema", fields |-> fields]
    ELSE RegisterFields(fields, list)

registerTelemetrySchema ==
    \E list \in TelemetryLists :
       LET r == RegisterSchema(telemetry_fields, list)
       IN  /\ status' = r.status
           /\ telemetry_fields' = r.fields
           /\ UNCHANGED <<lifecycle, identityVars, commands, state_fields, hookVars, facadeVars>>

registerStateSchema ==
    \E list \in StateLists :
       LET r == RegisterSchema(state_fields, list)
       IN  /\ status' = r.status
           /\ state_fields' = r.fields
           /\ UNCHANGED <<lifecycle, identityVars, commands, telemetry_fields, hookVars, facadeVars>>

setTelemetryProvider ==
    \E provider \in {Provider, Null} :
       /\ status' = HookStatus(provider, "NoTelemetryProvider")
       /\ telemetry_provider' = IF status' = "Ok" THEN provider ELSE telemetry_provider
       /\ UNCHANGED <<lifecycle, identityVars, commands, telemetry_fields, state_fields,
                      estop_hook, controller_loss_hook, facadeVars>>

setEstopHook ==
    \E hook \in {Hook, Null} :
       /\ status' = HookStatus(hook, "NoEstopHook")
       /\ estop_hook' = IF status' = "Ok" THEN hook ELSE estop_hook
       /\ UNCHANGED <<lifecycle, identityVars, commands, telemetry_fields, state_fields,
                      telemetry_provider, controller_loss_hook, facadeVars>>

setControllerLossHook ==
    \E hook \in {Hook, Null} :
       /\ status' = HookStatus(hook, "NoControllerLossHook")
       /\ controller_loss_hook' = IF status' = "Ok" THEN hook ELSE controller_loss_hook
       /\ UNCHANGED <<lifecycle, identityVars, commands, telemetry_fields, state_fields,
                      telemetry_provider, estop_hook, facadeVars>>

\* Mutant: the server starts without sealing the registry.
start_Unsealed ==
    /\ status' = FirstOf(<<<<~network_config_set, "InvalidConfiguration">>>> \o MetadataChecks
                         \o <<<<~validateMaximumSchemaSize, "CapacityExceeded">>>>)
    /\ started' = (started \/ status' = "Ok")
    /\ UNCHANGED <<registryVars, network_config_set, announced, last>>

\* start: the registry is sealed only when everything else is in order.
start ==
    /\ status' = FirstOf(<<<<~network_config_set, "InvalidConfiguration">>>>
                         \o MetadataChecks
                         \o <<<<~validateMaximumSchemaSize, "CapacityExceeded">>,
                              <<sealed, "RegistrationSealed">>>>)
    /\ lifecycle' = IF status' = "Ok" THEN "Sealed" ELSE lifecycle
    /\ started' = (started \/ status' = "Ok")
    /\ UNCHANGED <<identityVars, commands, telemetry_fields, state_fields, hookVars,
                   network_config_set, announced, last>>

\* promoteAcceptedConnection: a session opens with the schema line; without one
\* it is torn down again.
PromoteConnection ==
    /\ started /\ last = NoLine
    /\ \E t \in Timestamps :
          announced' = IF SchemaLine(t).ok
                       THEN [timestamp |-> t, text |-> SchemaLine(t).w.out]
                       ELSE NoSchema
    /\ UNCHANGED <<registryVars, status, network_config_set, started, last>>

-----------------------------------------------------------------------------
(* The address check of ServiceLoop *)

\* extractSourceTarget parses a copy of the line into a pool of its own, which
\* the strings of a long line do not fit (copy_fits).
GateValid(line) ==
    /\ line.shape = "object" /\ line.copy_fits
    /\ getString(line.source) /\ getString(line.target)
    /\ Len(line.source) <= MaxNameBytes /\ Len(line.target) <= MaxNameBytes

validControllerTarget(line) ==
    line.source = "controller" /\ line.target = identity.board_id

-----------------------------------------------------------------------------
(* CommandDispatcher *)

BoardErrorCode == {"MISSING_FIELD", "INVALID_TYPE", "UNKNOWN_COMMAND", "INVALID_ARGUMENT",
                   "INTERNAL_ERROR", "ESTOP_ACTIVE"}

Response(code, result) == [kind |-> "CommandResponse", code |-> code, result |-> result]

\* Mutant: arguments that are not declared are ignored.
validateArgs_ExtraIgnored(registered, args) ==
    FirstOf(FlattenSeq([i \in 1..Len(registered.args) |->
        LET spec == registered.args[i]
        IN  <<<<spec.name \notin DOMAIN args, "MISSING_FIELD">>,
              <<spec.name \in DOMAIN args /\ ~argsGet(args[spec.name], spec.type),
                "INVALID_TYPE">>>>]))

\* The declared arguments in order, then the ones that are not declared.
validateArgs(registered, args) ==
    LET declared == {registered.args[i].name : i \in 1..Len(registered.args)}
    IN  FirstOf(FlattenSeq([i \in 1..Len(registered.args) |->
            LET spec == registered.args[i]
            IN  <<<<spec.name \notin DOMAIN args, "MISSING_FIELD">>,
                  <<spec.name \in DOMAIN args /\ ~argsGet(args[spec.name], spec.type),
                    "INVALID_TYPE">>>>])
            \o <<<<DOMAIN args \ declared # {}, "INVALID_ARGUMENT">>>>)

\* Mutant: a refused command is not counted as an error.
enqueueError_Uncounted(line, ran, said, wrote, code) ==
    Handled(line, ran, said, wrote, Response(code, <<>>), {"commands_received"})

\* An error response; two of the codes have a counter of their own.
enqueueError(line, ran, said, wrote, code) ==
    Handled(line, ran, said, wrote, Response(code, <<>>),
            {"commands_received", "commands_error"}
            \cup (IF code = "UNKNOWN_COMMAND" /\ ran = "None" THEN {"unknown_commands"} ELSE {})
            \cup (IF code = "INVALID_ARGUMENT" THEN {"invalid_arguments"} ELSE {}))

\* The result object as the handler leaves it.
WrittenBy(wrote) ==
    FoldLeft(LAMBDA w, m : AppAdd(w, m[1], m[2], m[3]).w, ObjectWriter(ResultCapacity), wrote)

\* appendResultWithBoardProcUs: the library's own member goes in last.
WithBoardProcUs(result) ==
    SubSeq(result, 1, Len(result) - 1)
    \o (IF Len(result) = 2 THEN <<>> ELSE <<Comma>>)
    \o Pair("board_proc_us", <<BoardProcUs>>) \o <<Closing>>

buildOkLine(result) == Bytes(result) + ResponseEnvelope < ResponseCapacity

\* Mutant: a result whose writes failed is sent as it is.
ResultComplete_FailureIgnored(w) == close(w).ok /\ buildOkLine(close(w).w.out)

\* Every write of the handler succeeded, and the line can be built.
ResultComplete(w) ==
    /\ ~w.failed
    /\ close(w).ok /\ ~close(w).w.failed
    /\ buildOkLine(close(w).w.out)

\* get_counters writes its snapshot; the application's handlers write what they
\* like and report success or any error.
HandlerRuns(registered) ==
    IF registered.handler = "counters"
    THEN {[said |-> "OK", wrote |-> CountersResult]}
    ELSE [said : {"OK"} \cup BoardErrorCode, wrote : HandlerWrites]

dispatch(line) ==
    IF findCommand(line.command) = {}
    THEN last' = enqueueError(line, "None", "None", <<>>, "UNKNOWN_COMMAND")
    ELSE \E i \in findCommand(line.command) :
           LET error == validateArgs(commands[i], line.args)
           IN  IF error # "Ok"
               THEN last' = enqueueError(line, "None", "None", <<>>, error)
               ELSE \E run \in HandlerRuns(commands[i]) :
                      LET w == WrittenBy(run.wrote)
                      IN  last' =
                          IF run.said # "OK"
                          THEN enqueueError(line, "handler", run.said, run.wrote, run.said)
                          ELSE IF ~ResultComplete(w)
                          THEN enqueueError(line, "handler", "OK", run.wrote, "INTERNAL_ERROR")
                          ELSE Handled(line, "handler", "OK", run.wrote,
                                       Response("OK", WithBoardProcUs(close(w).w.out)),
                                       {"commands_received", "commands_ok"})

-----------------------------------------------------------------------------
\* handleEstop: the hook runs; only a board it made safe acknowledges.
handleEstop(line) ==
    \E safe \in BOOLEAN :
       last' = Handled(line, "hook", IF safe THEN "OK" ELSE "FAILED", <<>>,
                       IF safe THEN [kind |-> "EstopAck", code |-> "None", result |-> <<>>]
                       ELSE NoReply,
                       {"estop_received"} \cup IF safe THEN {} ELSE {"estop_apply_failed"})

handleHeartbeat(line) ==
    last' = Handled(line, "None", "None", <<>>,
                    [kind |-> "HeartbeatAck", code |-> "None", result |-> <<>>],
                    {"heartbeat_received"})

\* routeValid: commands are addressed through the gate, the others by themselves.
routeValid(line) ==
    IF ~validControllerTarget(line) \/ (line.type = "command" /\ ~GateValid(line))
    THEN last' = Dropped(line, {"invalid_targets"})
    ELSE CASE line.type = "command"   -> dispatch(line)
           [] line.type = "estop"     -> handleEstop(line)
           [] line.type = "heartbeat" -> handleHeartbeat(line)

\* processLine: a command that is malformed but has a seq and a controller_ts is
\* handed to the recoverable_command_error route, which the facade leaves null.
processLine(line) ==
    LET outcome == parse(line)
    IN  IF outcome.kind = "Valid" THEN routeValid(line)
        ELSE last' = Dropped(line,
                IF /\ outcome.kind = "StructurallyInvalid"
                   /\ line.type = "command" /\ outcome.has_ts
                   /\ GateValid(line) /\ ~validControllerTarget(line)
                THEN {"invalid_targets"} ELSE outcome.counted)

ReceiveLine ==
    /\ announced # NoSchema /\ last = NoLine
    /\ \E line \in Lines : processLine(line)
    /\ UNCHANGED <<registryVars, status, network_config_set, started, announced>>

\* releaseLine: the framer may hand out the next line.
ReleaseLine ==
    /\ last # NoLine
    /\ last' = NoLine
    /\ UNCHANGED <<registryVars, status, network_config_set, started, announced>>

\* The application calls the API between two calls of service().
Configure ==
    /\ last = NoLine
    /\ \/ SetNetworkConfig
       \/ SetIdentity
       \/ RegisterCommand
       \/ enableCountersDiagnosticCommand
       \/ registerTelemetrySchema
       \/ registerStateSchema
       \/ setTelemetryProvider
       \/ setEstopHook
       \/ setControllerLossHook
       \/ start

Next ==
    \/ Configure
    \/ PromoteConnection
    \/ ReceiveLine
    \/ ReleaseLine

Spec == Init /\ [][Next]_vars

-----------------------------------------------------------------------------
\* Types: the registry stays within its capacities, and the server has started
\* exactly when the registry is sealed (start, commitSeal).
ServerTypeOK ==
    /\ lifecycle \in {"Mutable", "Sealed"} /\ started = (lifecycle = "Sealed")
    /\ Len(commands) <= MaxCommands
    /\ Len(telemetry_fields) <= MaxFields /\ Len(state_fields) <= MaxFields
    /\ identity_set \in BOOLEAN /\ network_config_set \in BOOLEAN
    /\ last.reply.code \in BoardErrorCode \cup {"OK", "None"}

\* A session is told the truth, for as long as it lasts: the schema line it was
\* sent is well-formed JSON for exactly the commands, arguments and fields the
\* dispatcher works from, each under a name of its own, whatever calls the
\* application made before and makes after start().  (Judged between two lines:
\* nothing of it changes while one is in hand.)
AnnouncementTrue ==
    announced # NoSchema /\ last = NoLine =>
        /\ announced.text = Append(SchemaDocument(announced.timestamp), LineEnd)
        /\ UniqueNames(commands)
        /\ \A i \in DOMAIN commands : UniqueNames(commands[i].args)
        /\ UniqueNames(telemetry_fields) /\ UniqueNames(state_fields)

\* A board that has started can send its schema at any time: start() refuses a
\* registry whose schema would not fit the line at some later timestamp.
SchemaAlwaysFits ==
    started /\ last = NoLine => \A t \in Timestamps : SchemaLine(t).ok

-----------------------------------------------------------------------------
\* A message with everything its type needs, in well-formed UTF-8.
Complete(line) ==
    /\ line.shape = "object" /\ WellFormedUtf8(line.text)
    /\ {line.source, line.target} \cap {Absent, WrongType} = {}
    /\ \/ line.type = "estop"
       \/ line.type = "heartbeat" /\ line.seq = "ok"
       \/ /\ line.type = "command" /\ line.seq = "ok"
          /\ {line.controller_ts, line.command, line.args} \cap {Absent, WrongType} = {}

\* The controller sent it, to this board.
Addressed(line) == line.source = "controller" /\ line.target = identity.board_id

\* A command with everything that an error response needs.
Recoverable(line) ==
    /\ line.type = "command" /\ line.shape = "object" /\ WellFormedUtf8(line.text)
    /\ line.seq = "ok" /\ line.controller_ts \notin {Absent, WrongType}

\* A complete message from the controller to this board has its effect: an
\* e-stop runs the hook, a heartbeat is acknowledged, a command that fits the
\* gate's copy is answered.  Nothing else runs application code or is answered,
\* but that a recoverable command to this board may be refused with an error.
ActsOnlyWhenAddressed ==
    last.line # Null =>
        LET line == last.line
            acts == last.ran # "None" \/ last.reply # NoReply
            message == Complete(line) /\ Addressed(line)
        IN  /\ message /\ (line.type = "command" => line.copy_fits) => acts
            /\ acts => \/ message
                       \/ /\ Recoverable(line) /\ Addressed(line)
                          /\ last.ran = "None" /\ last.reply.code \in BoardErrorCode

\* Kinds of JSON value that an argument type announced in the schema admits.
Admits == [int |-> {"int"}, float |-> {"int", "bigint", "fraction"},
           bool |-> {"bool"}, string |-> {"string"}]

\* The call matches the command's announced signature.
Conforms(c, args) ==
    /\ DOMAIN args = {c.args[i].name : i \in DOMAIN c.args}
    /\ \A i \in DOMAIN c.args : args[c.args[i].name] \in Admits[c.args[i].type]

\* A handler runs exactly for calls that match what was announced, and the
\* refusal of a complete command names a defect the call really has.  (Which
\* code a number beyond the range of a double deserves is left open.)
AnswerMatchesAnnouncement ==
    last.reply.kind = "CommandResponse" /\ Complete(last.line) =>
        LET args == last.line.args
            found == {c \in {commands[i] : i \in DOMAIN commands} : c.name = last.line.command}
        IN  /\ (last.ran = "handler") = (\E c \in found : Conforms(c, args))
            /\ last.ran # "handler" /\ (\A n \in DOMAIN args : args[n] # "infinite") =>
                 CASE last.reply.code = "UNKNOWN_COMMAND" -> found = {}
                   [] last.reply.code = "MISSING_FIELD" ->
                        \E c \in found : \E i \in DOMAIN c.args : c.args[i].name \notin DOMAIN args
                   [] last.reply.code = "INVALID_TYPE" ->
                        \E c \in found : \E i \in DOMAIN c.args :
                            /\ c.args[i].name \in DOMAIN args
                            /\ args[c.args[i].name] \notin Admits[c.args[i].type]
                   [] last.reply.code = "INVALID_ARGUMENT" ->
                        \E c \in found : \E n \in DOMAIN args :
                            n \notin {c.args[i].name : i \in DOMAIN c.args}
                   [] OTHER -> FALSE

\* What a handler asked to have in its result, but for the requests that are
\* refused without further effect: the library's own member, null names and
\* null terminated strings.
Requested(wrote) ==
    FoldLeft(LAMBDA kept, m :
                IF m[1] \notin {Null, "board_proc_us"} /\ ~(m[2] = "string" /\ m[3] = Null)
                THEN Append(kept, m) ELSE kept,
             <<>>, wrote)

Members(wrote) ==
    [i \in DOMAIN wrote |-> Pair(wrote[i][1], <<ValueToken(wrote[i][2], wrote[i][3])>>)]

\* Everything requested has a value that JSON can represent, and fits.
Representable(wrote) ==
    /\ \A i \in DOMAIN wrote : wrote[i][3] # Null
    /\ \A i \in DOMAIN wrote : wrote[i][2] = "double" => wrote[i][3] # NonFinite
    /\ Bytes(Object(Members(wrote))) <= ResultCapacity
    /\ Bytes(Object(Members(wrote))) + ResponseEnvelope < ResponseCapacity

\* A handler that reports success is answered with all it wrote, once, followed
\* by board_proc_us, or with INTERNAL_ERROR when that cannot be sent: never with
\* part of it.  A handler's error is passed on as it is.
OkReplyIsComplete ==
    last.ran = "handler" =>
        LET asked == Requested(last.wrote)
        IN  IF last.said # "OK" THEN last.reply = Response(last.said, <<>>)
            ELSE IF ~Representable(asked) THEN last.reply = Response("INTERNAL_ERROR", <<>>)
            ELSE last.reply = Response("OK",
                    Object(Append(Members(asked), Pair("board_proc_us", <<BoardProcUs>>))))

\* Commands and heartbeats with a seq that are otherwise malformed.
MalformedWithSeq(line) ==
    line.type \in {"command", "heartbeat"} /\ line.seq = "ok" /\ ~Complete(line)

\* No line is counted under two headings, and a received command is counted
\* under exactly one result.  Every line is counted under a heading, malformed
\* commands and heartbeats with a seq apart, of which this says nothing.
CountedOnce ==
    last.line # Null =>
        LET headings == {"invalid_json", "invalid_targets", "commands_received",
                         "estop_received", "heartbeat_received"}
        IN  /\ \A g, h \in last.counted \cap headings : g = h
            /\ ~MalformedWithSeq(last.line) => last.counted \cap headings # {}
            /\ "commands_received" \in last.counted =>
                 \E r \in {"commands_ok", "commands_error"} :
                    last.counted \cap {"commands_ok", "commands_error"} = {r}

\* A command from the controller to this board that is a JSON object with a
\* usable seq and controller_ts but otherwise malformed is answered.
RecoverableErrorAnswered ==
    last.line # Null /\ Recoverable(last.line) /\ Addressed(last.line) /\ last.line.copy_fits
    => last.reply.kind = "CommandResponse"

=============================================================================
