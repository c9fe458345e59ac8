--------------------------- MODULE CommandRegistry ---------------------------
(***************************************************************************)
(* What the application registers before the server starts                 *)
(* (core/CommandRegistry.h): the board's identity, its commands with their *)
(* arguments, the telemetry and state fields, the provider and the hooks.  *)
(* Every operation reports a status; the registry is sealed when the       *)
(* server starts, and every later registration is refused.                 *)
(***************************************************************************)
EXTENDS BoundedJsonWriter

CONSTANTS
    MaxNameBytes, \* kMaxCommandNameBytes, kMaxBoardIdBytes and the like: one limit for all
    MaxCommands,  \* kMaxRegisteredCommands
    MaxArgs,      \* kMaxArgsPerCommand
    MaxFields     \* kMaxTelemetryFields, kMaxStateFields

ASSUME LimitAssumption == {MaxNameBytes, MaxCommands, MaxArgs, MaxFields} \subseteq Nat

VARIABLES
    lifecycle, identity_set, identity,
    commands, telemetry_fields, state_fields,
    telemetry_provider, estop_hook, controller_loss_hook,   \* Null until set
    status        \* what the last call of the API reported

identityVars == <<identity_set, identity>>
hookVars == <<telemetry_provider, estop_hook, controller_loss_hook>>
registryVars == <<lifecycle, identityVars, commands, telemetry_fields, state_fields, hookVars>>

\* A C string without characters.
EmptyText == ""

ValueType == {"int", "float", "bool", "string"}
IdentityParts == <<"board_id", "protocol_version", "firmware_version">>

RegistryInit ==
    /\ lifecycle = "Mutable" /\ identity_set = FALSE
    /\ identity = [board_id |-> EmptyText, protocol_version |-> EmptyText,
                   firmware_version |-> EmptyText]
    /\ commands = <<>> /\ telemetry_fields = <<>> /\ state_fields = <<>>
    /\ telemetry_provider = Null /\ estop_hook = Null /\ controller_loss_hook = Null
    /\ status = "Ok"

-----------------------------------------------------------------------------
\* Checks are <<failed, code>> pairs: the first that fails decides the status.
FirstOf(checks) ==
    LET failing == {i \in DOMAIN checks : checks[i][1]}
    IN  IF failing = {} THEN "Ok" ELSE checks[Min(failing)][2]

\* What is reported of a string that must be copied into fixed storage.
copyRequired(s) ==
    IF s \in {Null, EmptyText} THEN "Missing"
    ELSE IF Len(s) > MaxNameBytes THEN "TooLong"
    ELSE "Ok"

sealed == lifecycle = "Sealed"

\* copyStatus and stringFailureCode: the status each refusal stands for.
NameChecks(name, missing_code) ==
    <<<<copyRequired(name) = "Missing", missing_code>>,
      <<copyRequired(name) = "TooLong", "CapacityExceeded">>>>

\* Each part is copied in turn, and cleared when it is refused: a call that
\* fails at the second part has already replaced the first.
setIdentity(id) ==
    LET refused == {i \in 1..3 : copyRequired(id[IdentityParts[i]]) # "Ok"}
        reached == IF refused = {} THEN 3 ELSE Min(refused)
        Stored(i) == IF i \in refused THEN EmptyText ELSE id[IdentityParts[i]]
    IN  IF sealed
        THEN status' = "RegistrationSealed" /\ UNCHANGED <<identity, identity_set>>
        ELSE /\ identity' = [p \in DOMAIN identity |->
                   LET i == CHOOSE k \in 1..3 : IdentityParts[k] = p
                   IN  IF i <= reached THEN Stored(i) ELSE identity[p]]
             /\ identity_set' = (identity_set \/ refused = {})
             /\ status' = FirstOf(NameChecks(id.board_id, "InvalidName")
                                  \o NameChecks(id.protocol_version, "InvalidConfiguration")
                                  \o NameChecks(id.firmware_version, "InvalidConfiguration"))

findCommand(name) == {i \in 1..Len(commands) : commands[i].name = name}

\* The checks of one argument: its type, its name, and that it is new.
ArgumentChecks(args, i) ==
    <<<<args[i].type \notin ValueType, "InvalidArgumentSchema">>>>
    \o NameChecks(args[i].name, "InvalidArgumentSchema")
    \o <<<<\E j \in 1..(i - 1) : args[j].name = args[i].name, "DuplicateRegistration">>>>

\* registerCommand's early returns.  Every caller passes
\* blocked_by_estop_specified; args is null where args_null.
CommandChecks(spec) ==
    <<<<sealed, "RegistrationSealed">>,
      <<spec.handler = Null, "InvalidConfiguration">>,
      <<Len(spec.args) > MaxArgs, "CapacityExceeded">>,
      <<Len(spec.args) > 0 /\ spec.args_null, "InvalidArgumentSchema">>,
      <<Len(commands) >= MaxCommands, "CapacityExceeded">>>>
    \o NameChecks(spec.name, "InvalidName")
    \o <<<<findCommand(spec.name) # {}, "DuplicateRegistration">>>>
    \o FlattenSeq([i \in 1..Len(spec.args) |-> ArgumentChecks(spec.args, i)])

\* A command is stored whole or not at all.
registerCommand(spec) ==
    /\ status' = FirstOf(CommandChecks(spec))
    /\ commands' = IF status' = "Ok"
                   THEN Append(commands, [name |-> spec.name, args |-> spec.args,
                                          blocked_by_estop |-> spec.blocked_by_estop,
                                          handler |-> spec.handler])
                   ELSE commands

\* Mutant: fields can still be registered after the registry is sealed.
FieldChecks_AfterSeal(fields, field) ==
    <<<<Len(fields) >= MaxFields, "CapacityExceeded">>,
      <<field.type \notin ValueType, "InvalidArgumentSchema">>>>
    \o NameChecks(field.name, "InvalidName")
    \o <<<<\E i \in DOMAIN fields : fields[i].name = field.name, "DuplicateRegistration">>>>

\* registerField's early returns.
FieldChecks(fields, field) ==
    <<<<sealed, "RegistrationSealed">>,
      <<Len(fields) >= MaxFields, "CapacityExceeded">>,
      <<field.type \notin ValueType, "InvalidArgumentSchema">>>>
    \o NameChecks(field.name, "InvalidName")
    \o <<<<\E i \in DOMAIN fields : fields[i].name = field.name, "DuplicateRegistration">>>>

\* registerTelemetrySchema and registerStateSchema: field by field up to the
\* first that is refused; the ones before it stay.
RegisterFields(fields, specs) ==
    FoldLeft(LAMBDA r, field :
                LET code == FirstOf(FieldChecks(r.fields, field))
                IN  IF r.status # "Ok" THEN r
                    ELSE IF code # "Ok" THEN [r EXCEPT !.status = code]
                    ELSE [r EXCEPT !.fields = Append(@, field)],
             [status |-> "Ok", fields |-> fields], specs)

\* setTelemetryProvider, setEstopHook, setControllerLossHook.
HookStatus(hook, missing_code) ==
    FirstOf(<<<<sealed, "RegistrationSealed">>, <<hook = Null, missing_code>>>>)

\* validateMetadataForSeal's early returns.
MetadataChecks ==
    <<<<~identity_set, "InvalidConfiguration">>,
      <<telemetry_provider = Null, "NoTelemetryProvider">>,
      <<estop_hook = Null, "NoEstopHook">>,
      <<controller_loss_hook = Null, "NoControllerLossHook">>>>

=============================================================================
