# Teensy command server: a TLA+ verification project

The repository is the firmware library of a Teensy 4.1 board that serves one
controller over TCP: newline-delimited JSON in both directions, a fixed-capacity
single-threaded C++ core (`src/src/core`), a QNEthernet platform layer
(`src/src/platform/qnethernet`) and a facade (`src/src/TeensyCommandServer.h`).
This directory models that core, checks it with TLC and proves parts of it with
TLAPS.  Paths below are relative to the repository root unless they start with
`src/src`.

## The system

| part | state it keeps | operations | correct when |
|---|---|---|---|
| service loop `ServiceLoop.h` | none of its own; locals of a pass | `service()`: poll, next line, telemetry due, safety due, drain one, process one line, drain one, tear down | teardown requested anywhere is carried out in the same pass; nothing crosses from one controller's session to the next; answers are lost only with their session |
| session driver `SessionDriver.h`, `SessionState.h` | state machine, active and replacement handle, pending teardown | `poll`, `nextLine`, `releaseLine`, `sendActiveLine`, `requestTeardown`, `applyPendingTeardown` | one controller at a time; loss hook exactly once for each; no accepted connection is leaked; losses and newcomers are noticed |
| outbound scheduler `OutboundScheduler.h` | 4 critical entries, 1 telemetry slot, a record of the board-local e-stop | enqueue, replace telemetry, drain one by priority, cancel all at session end | bounded; the record agrees with the queue |
| estop handler `EstopHandler.h` | pending state and reason of the board-local e-stop | `requestEstopTriggered`, `handleEstop`, `service`, `onOutboundOutcome` | every accepted event is delivered exactly once, across failed sends and sessions |
| outbound writer `OutboundWriter.h` | telemetry failure streak | `sendLine` under a deadline | every send ends; teardown exactly when due; lines stay separate |
| line framer `LineFramer.h` | active line, pending line or accumulator, discard flag | `append`, `acquireLine`, `releaseLine`, `closeSession` | equals splitting the stream at newlines |
| connection table `QNEthernetNetworkServer.cpp` | slots with generations, interface, listening socket, one pending client | `progress`, `begin`, `hasPendingConnection`, `accept`, `transport`, `abort`, `close` | a handle reaches its own connection or none; no slot is leaked; the board comes back to listening |
| telemetry scheduler `TelemetryScheduler.h` | time of the last frame, first-frame flag, sequence number | `service`, `onSessionInactive` | a frame at once and then each period; refused members leave no trace, increasing numbers, each frame accounted for |
| facade `TeensyCommandServer.h`, registry `CommandRegistry.h` | identity, commands, fields, hooks, lifecycle | configuration calls, `start` | what is sealed at `start()` is what every session is told; a schema always fits |
| schema builder `SchemaBuilder.h` | none | `buildSchemaLine`, `validateMaximumSchemaSize` | announces the registry, no more and no less |
| inbound parser `InboundParser.h` | the last document | `parse` | only complete messages to this board are acted on |
| dispatcher `CommandDispatcher.h`, heartbeat handler `HeartbeatHandler.h` | the line being built | one call per line | a handler runs exactly on calls that match the announcement; results are sent whole or not at all |
| JSON writers `BoundedJsonWriter.h`, `ObjectWriter.h` | buffer, nesting, separators, tail reserve | `begin…`, `add…`, `end…`, `close` | a failed call leaves no trace and the output can still be closed |
| counters `Counters.h`, `DiagnosticsCommand.h` | 24 counters | increments, `get_counters` | no line counted twice |

**Interaction.**  `loop()` calls `TeensyCommandServer::service()`, which calls
`ServiceLoop::service(driver)`.  The loop calls handlers through a table of
routes that the facade fills; handlers queue lines in the scheduler; the
scheduler sends through the driver, the driver through its writer, the writer
through the transport.  Outcomes of sends and cancellations travel back through
the `outbound_outcome` route to the estop handler.  A failure anywhere becomes a
pending teardown in the driver, which the loop applies after cancelling the queue.

**What is hard.**  There are no threads, but the network changes between any two
steps of a pass, and the application runs inside a pass (provider, handlers,
hooks) and may call `requestEstopTriggered` there.  Sessions are superseded while
their queue is full of messages.  A schema send may fail inside a promotion that
is itself part of a teardown.  The board-local e-stop has two records in two
objects.  Every resource is bounded, the clock is 32 bits wide, handles are
recycled.  Applications may make configuration calls in any order, repeat them and
ignore their failures, and may overfill the buffers they are handed.
`PROJECT.json` lists the hazards at their lines.

## Modules

| module | models | notes |
|---|---|---|
| `Connection` | connection identities of `NetworkServer.h` | constants only |
| `OutboundScheduler` | `OutboundScheduler.h` | action fragments over `critical`, `telemetry`, `estop_triggered_state` |
| `EstopHandler` | `EstopHandler.h` on top of the scheduler | `ChannelSpec`: the two objects under any caller that makes the calls in the pairs the loop makes |
| `EstopDelivery` | abstract promise of the event | accept one, deliver that one |
| `SessionDriver` | `SessionDriver.h`, `SessionState.h`, with framer and writer abstracted to lines | also holds the network environment |
| `ServiceLoop` | `ServiceLoop.h` as wired by the facade; composes the three above | one action per step of a pass, named by `pc` |
| `ControllerSession` | abstract promise of the driver | serve one, stop, run the hook once |
| `ConnectionSlots` | connection table under any caller | handles kept for ever in `issued`, to be presented again at any time |
| `NetworkServer` | the driver's use of that table, interface bring-up, retry timer, listening socket | extends `ConnectionSlots`; the table's own specification is one of the properties |
| `LineFramer` | `LineFramer.h` and the read loop, byte by byte | two specifications: a caller that heeds `append()`'s result, and `readAvailable()` |
| `OutboundWriter` | `OutboundWriter.h` and the clock, byte by byte | |
| `BoundedJsonWriter` | `BoundedJsonWriter.h`, `ObjectWriter.h` as operators on a writer record | output is a sequence of tokens with their lengths in bytes |
| `TelemetryScheduler` | `TelemetryScheduler.h` with clock, provider and the telemetry slot | extends `BoundedJsonWriter` |
| `CommandRegistry` | `CommandRegistry.h` | each check in the order of the code; a failed call keeps what it had stored |
| `SchemaBuilder` | `SchemaBuilder.h` | the list of writer calls, applied to a writer; next to it the document it should be, written declaratively |
| `InboundParser` | `InboundParser.h` | UTF-8 by lead-byte ranges, against a reference that decodes code points |
| `CommandServer` | facade, gate and routing of `ServiceLoop.h`, `CommandDispatcher.h`, `HeartbeatHandler.h`, e-stop handling, `DiagnosticsCommand.h` | composes the four above; one session, one line at a time |
| `ServiceLoopProofs`, `NetworkServerProofs`, `OutboundWriterProofs`, `TelemetrySchedulerProofs`, `LineFramerProofs`, `CommandServerProofs` | theorems, each about the module it is named after | `ServiceLoopProofs` also holds those of `EstopHandler`, `NetworkServerProofs` those of `ConnectionSlots`, `CommandServerProofs` those of `CommandRegistry`, `SchemaBuilder` and `InboundParser` |
| `BoundedJsonWriterProofs`, `FoldInduction` | lemmas about the writer's operators; induction over sequences | used by the three proof modules about data |
| `MC*` | TLC instances | |

The two views of the service loop divide the work: `ServiceLoop` keeps the order of
steps, queues, sessions and failures, and reduces a line to its kind; `CommandServer`
keeps the content of lines, the registry and the answers, and reduces a session to
"a schema was sent".  They meet in what a line may do: `ActsOnlyWhenAddressed`
shows that a line that is not a complete message to this board runs nothing and is not
answered, which is how `ServiceLoop` treats it.  The property would also allow an error
response to a recoverable command, as the documents want it (finding 5); the code sends
none.

Variables carry the names of the fields they stand for.  History variables
(`accepted`, `delivered`, `introduced`, `hook_runs`, `owed`, `issued`,
`released`, `acquired_lines`, `results`, `elapsed`, `dangling`, `claims`, `cancelled`,
`sent_seq`, `unserved`, `wrapped`, `last`) decide nothing the
code decides; they appear in guards only for the bounds named below, to present old
handles again (`issued`), and in `Tick` (see "Fairness").
Operators whose name ends in an underscore and a word and that are commented as
mutants are deliberately wrong versions of the definition that follows them; each
shows that a property can fail.

### From code to model

* A pass.  `pc` names the next step.  `Poll` and `PollAccept` are `poll()`;
  `Promote` is `promoteAcceptedConnection`, a step of its own because the network
  moves while the schema is being sent; `Cancel` then `Apply` are
  `cancelRouteAndApply` followed by `applyPendingTeardown`.  `resume` says where
  the pass continues after a nested promotion or teardown, because a failed
  schema in `poll()` continues with `nextLine` while one in a teardown ends the pass.
* A message is its kind, the connection it was produced for (a ghost: the code
  does not store it, which is why isolation has to be shown) and the reason.
* In `ServiceLoop` an inbound line is its kind (`command`, `estop`, `heartbeat`,
  `other`) and its connection.  `other` stands for everything that earns no answer;
  the runs leave that kind out because an e-stop whose hook fails also earns none, so
  the same steps are taken.  Lines appear when they are read; a peer that has closed
  with unread bytes (`closing`) yields at most one more read, of up to two lines.
* In `CommandServer` a line is a record of its fields, each present with a good value,
  absent or of a wrong type (`shape` says whether it is JSON and an object at all,
  `text` is a piece of its bytes for the UTF-8 check, `copy_fits` whether the gate's
  second parse, which copies strings into a pool of fixed size, has room).  What
  ArduinoJson accepts is not modelled.
* JSON output is a sequence of tokens; names, strings and literals are single tokens
  with a length.  `Escapes` says how many bytes escaping adds.  The two `addString` of the
  code are told apart (`string`, `chars`): only the one with a length takes a null value for
  a failure of the writer.  `Quoted` is what the
  writer makes of a string, so a reader of the output can tell it from the input.
* A send succeeds or fails at the network's choice, but succeeds only on a
  connection that is up.  The byte-level reasons are in `OutboundWriter`.
* Left out because they do not influence behaviour: the teardown reason (never
  read), counters that no property is about, hook time budgets, log output.
* Left out because they cannot arise as the facade wires the objects: a nested
  send (`Busy`), an event or ack that overflows its buffer (board id and reason
  are bounded so that every such line fits), a missing transport, `requestShutdown`,
  a full cancellation batch (it has one entry more than the queue).
* Timers: in `ServiceLoop` the retry of network start-up and the telemetry period
  are choices (a retry or a frame may or may not be due); `NetworkServer` and
  `TelemetryScheduler` have them with their clocks, `OutboundWriter` its deadline.
* In `NetworkServer` a pass is cut where the TCP stack can run, so that each step
  makes one call on the table; its clock stops once the board has listened, because
  nothing reads it afterwards.
* In `ServiceLoop`, `first_frame_due` also stands for `!session_active_`: the code
  changes them together
  except inside `TelemetryScheduler::service`, which sets both in one call.

## Runs

| run | checks | bounds |
|---|---|---|
| `service_loop` | session isolation both ways, teardown within the pass, connections and answers accounted for, room for every answer (so the handlers' queue-full teardown is never taken for an inbound line, only for the board-local event), records of the event agree, events delivered once and in order; the loop implements `ChannelSpec`, `EstopDelivery` and `ControllerSession` | 3 controllers: one served, one held as replacement, one waiting; commands and e-stops, whose ack can leave the event queued when a session ends; 2 queue entries, so that the queue fills; 2 requests of the event with 2 reasons, so that another follows a requeued one; streak limit 1 |
| `service_loop_liveness` | e-stop delivery, loss detection, newcomers | 2 controllers, e-stops and heartbeats, no symmetry |
| `telemetry_starvation` | violated: finding 1 | 1 controller, the code's capacity of 4 |
| `network_server` | old handles reach nothing, no slot leaks, the driver keeps to the table's specification, the board comes back to listening | 2 slots (the code's number), generations up to 4: every slot is used up; a clock that wraps at 6 with a retry interval of 3, started anywhere, so that attempts meet the wrap at every distance |
| `line_framer` | framer equals the reference | all streams of up to 7 bytes over 2 letters and newline, lines of at most 2 bytes, chunks of at most 4: covers exact-limit and oversized lines, three lines in a chunk, session ends everywhere. A run ends when its stream is used up, so deadlock is not checked |
| `framer_driver` | violated: finding 2 | as above |
| `outbound_writer` | teardown rule, every send ends | 2-byte lines, deadline 2, a clock that wraps at 5, streak limit 2, 4 sends in a session |
| `writer_glue` | violated: finding 3 | deadline 1, so that no wrap is involved |
| `writer_wrap` | violated: finding 4 | as `outbound_writer` |
| `command_server` | the announcement equals the registry as started, the schema always fits, which lines have an effect, answers against the announcement, whole results, counts | good and bad arguments of every configuration call, in every order and repeated; 2 commands, 3 fields; a schema buffer (330 bytes) that some registries fit with every timestamp, some with a short one only and some not at all; 732 lines: every good message with any two fields wrong, and byte sequences on both sides of every UTF-8 boundary; results that fit, that fit the result but not the line, and that do not fit. The view drops `status`, which nothing reads |
| `unanswered_command` | violated: finding 5 | as above |
| `telemetry` | refused members leave no trace and whole payloads become whole frames, success is queued, frames accounted for, numbers increase, none late | a payload buffer that members fill in two or three calls, literals that never fit, strings with and without a length, escaped and null; a clock that wraps within a few periods. `PassTicks` (the time between two calls of `service()` in a session) is such that the counter cannot come round unseen, 49.7 days on the board |

Connections are interchangeable, and so are reasons: `service_loop` uses symmetry and
checks safety
only (`ChannelSpec`, `EstopDelivery` and `Sessions!Spec` have no fairness).  The bounds
`MaxRequests`, `MaxSends`, `StreamBytes`, `MaxAdds` and `MaxAttempts` are guards of the
model and limit nothing in the code.  In `ServiceLoop` a connection number is used
once per behaviour, which bounds the number of sessions by the number of controllers;
in `NetworkServer` sessions go on until the generations are used up.

**Fairness.**  `ServiceLoop` assumes weak fairness of `ServicePass` only: the
sketch calls `service()` from `loop()` for ever and no step blocks (each send ends:
`SendEnds`).  Nothing is assumed of the network or the application; the liveness
properties about lasting sessions say so in their hypothesis.  `OutboundWriter`
assumes that the processor executes and the clock ticks, not that the transport
takes a byte; a tick is not allowed to overtake a send that has seen its full
deadline pass but not yet looked at the clock, because the code looks again far
sooner than the 2^32 ms in which the real clock comes round.  `NetworkServer` assumes
that passes go on and the clock runs while it is read, and of the network that an
attempt to listen that is made again and again succeeds some time (strong fairness of
`ListenSucceeds`): without that no retry helps.  That link, address and interface
are there is the hypothesis of `KeepsListening`, not an assumption.

## Findings

1. **Telemetry can be starved** (`telemetry_starvation`).  A pass drains one
   message, critical first, then processes a line.  If a command is ready in every
   pass, the response of the previous one is always waiting, and the telemetry
   slot is overwritten for ever.  `backlog.md:1634` requires the opposite.
2. **Bytes are lost between reads** (`framer_driver`).  `readAvailable()` drops
   what `append()` did not consume.  It needs one 64-byte read that completes two
   lines and starts a third, which consecutive heartbeats and e-stops reach.
   Contract section 10.4 names this case.
3. **A dropped telemetry frame may leave a fragment** (`writer_glue`): the next
   line, critical ones included, is glued to it.  Contract lines 515 and 660.
4. **The deadline fires early when `millis()` wraps** (`writer_wrap`), once in
   49.7 days: widening to 64 bits before the subtraction defeats the wrap-safe
   difference that `.agents/skills/fixed-capacity-cpp/SKILL.md:35` prescribes.
5. **Recoverable command errors are not answered** (`unanswered_command`).  The
   service loop hands a command with a usable `seq` but a missing or mistyped field to
   the route `recoverable_command_error`, which the facade never sets: the line is
   dropped, without a counter.  Contract lines 594-595 and `backlog.md:1636`.

### Disagreements that no run states

The five findings are the disagreements between code and documents that decide most.
The following are smaller.  No property takes a side in them: each one named below is
limited to the cases on which code and documents agree, so it holds of the code as it is
and would still hold if the code were brought into line.

* *Overflowed telemetry.*  A provider that ignores a refused `add` and returns true has a
  frame without the refused member queued: `buildAndQueue` does not ask whether the writer
  failed (`TelemetryScheduler.h:61`).  `backlog.md:1908-1909`: "**provider failure**
  (returns false / overflows the writer): drop the frame, `telemetry_dropped`++, send
  nothing"; so too `.agents/skills/fixed-capacity-cpp/SKILL.md:42-43`.  A handler that does
  the same gets `INTERNAL_ERROR`, as it should.  `FrameIsWhatProviderWrote` and
  `SuccessIsQueued` speak only of frames whose writer did not fail.
* *Telemetry early at the wrap.*  The period is measured as in finding 4, so a frame is due
  at once when `millis()` wraps, against the same `SKILL.md:35-36`.  `DueOnTime` says that
  no frame is late, and that none is early unless the counter has wrapped.
* *Uncounted lines.*  Heartbeats and commands that are JSON objects with a `seq` but
  otherwise malformed are dropped without a counter.  `backlog.md:1594-1595`: "malformed
  e-stop and heartbeat messages are dropped and counted", and line 1642 again.
  `CountedOnce` says of these lines only that they are not counted twice.
* *Infinite arguments.*  A number beyond the range of a double for a `float` argument is
  refused with `INVALID_TYPE`; `SKILL.md:34` says "reject NaN/Inf as `INVALID_ARGUMENT`".
  `AnswerMatchesAnnouncement` says that the handler does not run and leaves the code open.
* *The gate's copy.*  The gate's second parse copies every string into a pool sized for a
  normal command, where the parser works in place.  A valid command long enough to exhaust
  the pool is dropped as `invalid_targets` (`copy_fits`; `ServiceLoop.h:327`), which
  contract lines 108-111 keep for other targets.  `ActsOnlyWhenAddressed` does not ask for
  an effect of these commands.
* *Cancelled telemetry.*  The frame that a session end discards (`clearForSessionEnd`) is in
  no counter.  `FramesAccounted` counts it in a history variable, `cancelled`.
* *Identity.*  `setIdentity` that fails after an earlier one succeeded has overwritten or
  emptied part of the identity, and `start()` accepts what is left
  (`CommandRegistry.h:77`).  `AnnouncementTrue` speaks of the identity as stored.
* *Processing time.*  `board_proc_us` is a 64-bit difference of a widened 32-bit counter and
  is about 2^64 for a command during which `micros()` wraps (`CommandDispatcher.h:85`).  Its
  value is one token here.
* *Interface bring-up.*  `beginInterfaceIfNeeded` calls the interface's `begin` once; if it
  fails the board stays in `NETWORK_STARTING` for ever, while `backlog.md:1149-1153` speaks
  of retrying initialization.  `KeepsListening` starts from an interface that has started.

## Proofs

TLC's runs fix small constants; the theorems below hold for every value of the constants
that satisfies the assumptions named with them.  Each proof module states its inductive
invariant as a conjunction of named parts, proves that `Init` establishes it and that each
action preserves it (a lemma per action), and derives the properties from it.

**The board-local e-stop** (first part of `ServiceLoopProofs`): `ChannelTypeCorrect`,
`ChannelConsistent` (capacity and agreement of the two records), `ChannelExactlyOnce`,
`ChannelImplementsDelivery`.  `IInv` is the type invariant, the safety invariants and
`ReasonStored` (a pending event has a reason that is one of `Reasons`).  Exactly-once is
not inductive alone: that a drained or cancelled entry is *the* outstanding event needs
that there is at most one entry and that it carries the stored reason, which is
`RecordsAgree`, and `RecordsAgree` needs the handler never to queue a second one.

**The service loop** (`ServiceLoopProofs`).  `Inv` is `IInv` and `DInv`.  `DInv` says what
holds at each `pc`: `StateDetermined` and `StepDetermined` tie the driver's state, its
handles, `teardown_pending` and `resume` to the step of the pass, and without them neither
isolation nor the end of a teardown is inductive (a promotion runs from two places, and
whether the queue is empty there depends on which).  On top of them:
`OutboundIsolated`, `InboundIsolated`, `TeardownWithinPass`, `NoSessionLeaked`,
`AnswersKept` (the owed answers are counted in the queue by cardinality, so lemmas say what
`Append` and the removal of one entry do to a count), `InboundNeverSaturates` (at
`processLine` the drain before it has left room, for every capacity of at least one).
Three refinements are proved step by step: `LoopUsesChannel` (each step of the loop is a
step of `ChannelSpec` or leaves its variables alone), hence `LoopRecordsAgree`,
`LoopExactlyOnce` and `LoopImplementsDelivery`; and `LoopImplementsSession` (`ConnectionsFresh`
is needed to see that a newly served controller was not served before).

**The connection table and the board** (`NetworkServerProofs`).  For the table under any
caller: `SlotsTypeCorrect`, `HandlesSafe`, `LiveHandlesResolve`.  `SInv` adds to them that
every handle issued for a slot has a generation not above the slot's (and below it once the
client is gone, or the slot is retired), and that clients are numbered up to `clients`.  For
the table as the driver uses it: `BoardUsesTable` (a refinement; it makes the former hold of
the board, `BoardHandlesSafe`), `BoardHoldsLiveHandles` and `BoardLeaksNoSlot`.  `NInv` adds
`PassDetermined` (which handles the driver holds at each step) and `HeldHandlesLive`: that no
slot leaks needs that each teardown finds the connection it aborts.

**The outbound writer** (`OutboundWriterProofs`): `WriterTypeCorrect`, `TeardownIsDue`, and
`DeadlineExact`, which no run checks: the writer's unsigned comparison is right for every
deadline and every pair of clock widths, except across a wrap, where it is early (finding
4).  `WInv` relates the streak counter to the results of this session's sends
(`StreakCounts`) and the clock's readings to the time elapsed (`ClockReading`).

**The telemetry scheduler** (`TelemetrySchedulerProofs`): `TelemetryTypeCorrect`,
`FramesFaithful` and `SuccessQueued` (of writers that did not fail), `NoFrameLost`,
`NumbersGrow`, `FramesOnTime` (never late, and early only across a wrap).  The core of
`TInv` is `PayloadClaimed`: while the provider runs, the payload writer holds an opening brace
and exactly the claimed members, its length is that of its text, and a byte is reserved.  It
rests on `BoundedJsonWriterProofs`: what an add, a refused add and `close` do to a writer
(`AddMemberAttempts`, `AppAddAttempts`, `CloseFinishes`) and what `Object` is of one member
more (`ObjectText`).

**The line framer** (`LineFramerProofs`): `FramerTypeCorrect`, `FramerSplits`,
`FramerCounts`: for every stream, however it is cut into reads, what is handed out is the
stream split at newlines without the lines that are too long, and the counter has their
number.  The invariant `Framed` describes the buffers by the part of the stream behind them:
the text since the last newline, or a discard flag when that is too long already.
`ByteFramed` shows one more byte to keep it; `ChunkFramed` lifts that over the fold that
`append` is.

**The command server** (`CommandServerProofs`).  The state to reason from is the registry:
`RegistryOK` (every command, argument and field has a name of its own and a known type, the
capacities are kept, and the registry is sealed exactly when the server has started) and
`IdentityOK` (three parts, none longer than a name may be, also after a `setIdentity` that
stopped half-way).  `RegistryStep` shows every step to keep `RegistryOK`, to leave a sealed
registry alone, and to start the server only with a schema that was found to fit:
`RegistrySound`, `SealedIsFrozen`.  The checks of the code are lists of conditions of which
the first that holds gives the status; lemmas say what such a list, a concatenation of two
and a flattened list of lists can end in (`FirstOfDecides`, `ChecksConcat`, `ChecksFlatten`).

* *Lines.*  `LedTo` lists the records a line can lead to, and `LineLedTo` shows `processLine`
  to lead to one of them.  `ServerTypeCorrect`, `LinesCountedOnce` (no line under two
  headings, and under one unless it is malformed with a `seq`) and `AnswersMatch` are read
  off that list; the last also needs `VerdictAnnounced`: `validateArgs` finds no defect
  exactly when the call matches the announced signature.
* *UTF-8.*  The scan reads its verdict off a table over positions, filled from the end; the
  definition by code points is a table filled from the start.  One step of the scan is one
  encoding (`ScansOne`, by cases on the rows of lead bytes), and both tables say that the
  positions between two encodings lead from one end to the other: `Utf8Exact`.  With the gate
  and the address check this gives `ActsOnMessages`.
* *The schema.*  `Adds(calls, members, k)` says that a chain of writer calls, made in whatever
  object is open with k levels to spare, appends exactly these members if they fit and fails
  otherwise.  It holds of single calls, of one chain after another, of a chain between
  `beginObjectField` and `endObject` (one member, whose value is the object), and of
  the loops over arguments, fields and commands (`AddsMember`, `AddsCat`, `AddsObject`,
  `AddsList`, `AddsFlatten`).
  So `SchemaLineExact`: the line is the document, and it is built exactly when the document and
  its newline fit the buffer.  `SchemaFits` follows with the invariant `StartedFits` (what
  `start()` measured stays true) and `WidestIsLongest` (no timestamp makes a longer document);
  `AnnouncementsTrue` with `AnnouncedOK` (what the session was told stays true).
* *Results.*  `WrittenBy` and `Requested` are two loops over the same calls of a handler: what
  the writer makes of them, and what was asked for.  `InStep` relates them after every call:
  the writer has failed exactly when a value without a text was asked for (a number that is
  not finite, a null string with a length) or the object of
  all requests so far does not fit, and until then it holds that object.  A failure is final
  because one request more never makes the object shorter (`HoldsLess`, from `MoreBytes`);
  that later, smaller members may still be added to a failed writer does no harm for the same
  reason.  `ResultExact` reads off that the result is complete exactly when the requests are
  representable, `BoardProcUsLast` that the library's member is one more at the end of the
  object, and `RepliesComplete` follows by the cases of `LedTo`.

**Induction over data.**  The library's induction theorems take an operator as parameter.
`FoldInduction` states induction for a *set* of positions instead (`SetInduction`: a
set that holds the first position and, with each, the next, holds them all), from the least
element of the rest, and derives from it that `FoldLeft` has a trace of intermediate results
(`FoldExists`, `FoldTrace`, `TraceUnique`).  An invariant of a fold is then proved as a set of
positions at which the trace satisfies it.

**Assumptions** are those on constants: positive capacity, slot count, generation limit,
streak limit and nesting depth; sizes, periods and deadlines in `Nat`, with a clock wide
enough for the deadline or period measured on it (`ClockAssumption`, `WriterAssumption`);
`NoConn`, `NoReason` and `NoHandle` outside their sets; literals that are tokens with a
length, and a telemetry line buffer that has room for the largest payload and its envelope
(`TokenAssumption`, `LineAssumption`), as the constants of `Limits.h` have.  Of
`CommandServer`: limits in `Nat` (`LimitAssumption`); the argument and field lists that the
application passes are lists (`ListAssumption`); the strings the library writes have a length
and a number of escapes, "controller" is no longer than a name may be, and lines are bytes
(`TextAssumption`); the writer nests deep enough for a schema, and no timestamp is wider than
the widest (`SchemaAssumption`); a result buffer has room for two braces, and what a handler
writes is a list of names, kinds and values, the strings with a length (`ResultAssumption`).
TLC evaluates them in every run.

**Only model-checked.**

* Liveness: `EstopReachesController` and the other properties of `service_loop_liveness`,
  `SendEnds`, `KeepsListening`.  The prover does not handle fairness.
* The violations, which are counterexamples.

## Not modelled

What ArduinoJson accepts as JSON, and the digits of numbers: external, and without
influence on control beyond the outcomes modelled.  The text of log messages and
status messages.  Hook time budgets, `tx_failures` and the ack-sent counters:
increments that nothing reads.  `requestShutdown` and `discardPartialLine`, which
nothing calls.  Escaping of the board id in response lines: its length is part of
`ResponseEnvelope`, so the case of an id of 48 characters that all need escaping, whose
compact `INTERNAL_ERROR` response might not fit either, is outside the bounds.  The
host tools, sketches and tests, and the vendored ArduinoJson.

## Plan

The modules cover the firmware, and every safety invariant and action property that a run
checks is a theorem.  What remains model-checked is out of the prover's reach (liveness) or a
counterexample.
