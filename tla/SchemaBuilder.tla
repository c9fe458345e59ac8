---------------------------- MODULE SchemaBuilder ----------------------------
(***************************************************************************)
(* The schema line that opens every session (core/SchemaBuilder.h): the    *)
(* registered commands, fields and identity, written member by member into *)
(* a fixed buffer.                                                         *)
(***************************************************************************)
EXTENDS CommandRegistry

CONSTANTS
    SchemaCapacity,   \* kSchemaJsonBufferBytes = kBoardTxMaxLineBytes
    Timestamps,       \* timestamps, as literal tokens
    WidestTimestamp   \* the timestamp with the longest literal

\* The arguments of a command are the deepest object of a schema.
ASSUME SchemaAssumption ==
    /\ MaxDepth >= 5 /\ SchemaCapacity \in Nat
    /\ \A t \in Timestamps \cup {WidestTimestamp} :
          t.bytes \in Nat /\ t.bytes <= WidestTimestamp.bytes

\* One call of the writer: Field and End nest, Text and Literal are members.
Call(op, name, value) == [op |-> op, name |-> name, value |-> value]
Field(name) == Call("field", name, EmptyText)
End == Call("end", EmptyText, EmptyText)
Text(name, value) == Call("text", name, value)
Literal(name, value) == Call("literal", name, value)

Apply(w, call) ==
    CASE call.op = "field"   -> beginObjectField(w, call.name)
      [] call.op = "end"     -> endObject(w)
      [] call.op = "text"    -> addString(w, call.name, call.value)
      [] call.op = "literal" -> addLiteral(w, call.name, call.value)

\* A chain of calls joined by ||: the first that fails ends it.
Chain(w, calls) ==
    FoldLeft(LAMBDA r, call : IF r.ok THEN Apply(r.w, call) ELSE r,
             [ok |-> TRUE, w |-> w], calls)

Flag(b) == IF b THEN Token("true", 4) ELSE Token("false", 5)

\* A list of registered names with their types: arguments or fields.
TypedNames(list) == [i \in 1..Len(list) |-> Text(list[i].name, list[i].type)]

CommandCalls(c) ==
    <<Field(c.name), Field("args")>> \o TypedNames(c.args)
    \o <<End, Literal("blocked_by_estop", Flag(c.blocked_by_estop)), End>>

\* writeSchemaObject, with writeCommands and writeFields.
SchemaObjectCalls ==
    <<Field("schema"), Field("commands")>>
    \o FlattenSeq([i \in 1..Len(commands) |-> CommandCalls(commands[i])]) \o <<End>>
    \o <<Field("telemetry")>> \o TypedNames(telemetry_fields) \o <<End>>
    \o <<Field("state")>> \o TypedNames(state_fields) \o <<End>>
    \o <<Text("firmware_version", identity.firmware_version), End>>

EnvelopeCalls(timestamp) ==
    <<Text("type", "schema"), Literal("seq", Token("1", 1)), Literal("timestamp", timestamp),
      Text("source", identity.board_id), Text("target", "controller"),
      Text("protocol_version", identity.protocol_version)>>

\* buildSchemaLineWithTimestamp: a byte is kept for the line's newline.
SchemaLine(timestamp) ==
    LET start == reserveTailBytes(NewWriter(SchemaCapacity), 1).w
        open  == beginObject(start)
        built == Chain(open.w, EnvelopeCalls(timestamp) \o SchemaObjectCalls \o <<End>>)
    IN  IF open.ok /\ built.ok THEN appendNewline(releaseTailReserve(built.w))
        ELSE [ok |-> FALSE, w |-> built.w]

\* Mutant: the size is checked with the timestamp of the moment.
validateMaximumSchemaSize_Narrow ==
    \E t \in Timestamps : SchemaLine(t).ok

\* The registry fits whatever the time of the session will be.
validateMaximumSchemaSize == SchemaLine(WidestTimestamp).ok

-----------------------------------------------------------------------------
(* What a controller expects to read: the document the registry stands for. *)

String(s) == <<Quoted(s)>>

TypedNamesObject(list) ==
    Object([i \in 1..Len(list) |-> Pair(list[i].name, String(list[i].type))])

CommandObject(c) ==
    Object(<<Pair("args", TypedNamesObject(c.args)),
             Pair("blocked_by_estop", <<Flag(c.blocked_by_estop)>>)>>)

SchemaDocument(timestamp) ==
    Object(<<Pair("type", String("schema")),
             Pair("seq", <<Token("1", 1)>>),
             Pair("timestamp", <<timestamp>>),
             Pair("source", String(identity.board_id)),
             Pair("target", String("controller")),
             Pair("protocol_version", String(identity.protocol_version)),
             Pair("schema", Object(<<
                Pair("commands", Object([i \in 1..Len(commands) |->
                    Pair(commands[i].name, CommandObject(commands[i]))])),
                Pair("telemetry", TypedNamesObject(telemetry_fields)),
                Pair("state", TypedNamesObject(state_fields)),
                Pair("firmware_version", String(identity.firmware_version))>>))>>)

\* No two members of an object share a name, and every name is there.
UniqueNames(list) ==
    /\ \A i \in DOMAIN list : list[i].name \notin {Null, EmptyText}
    /\ \A i, j \in DOMAIN list : list[i].name = list[j].name => i = j

=============================================================================
