# IO module: specifications and proofs

This directory holds TLA+ specifications of the IO module of the Fleet protocol, the TLC configurations that
check them on small instances, and proofs of their main properties for all instances, checked with TLAPS.
`tlc -config X.cfg M` runs one check, `tlapm M.tla` checks the proofs of one module.

## The system

The repository builds two shared libraries and ships a small Python server. The libraries have no `main` and
start no threads; they are loaded by programs that are not part of the repository, and called back through the
C interfaces of the Fleet protocol.

| Component | Source | State | Operations |
|---|---|---|---|
| Command polling | `source/external_server_api.cpp` 258-355 | `command_vector`, `last_command_timestamp`, `mutex` in the context | `wait_for_command`, `pop_command`, `command_ack` |
| Context life cycle | same, 18-137 | the context itself, the settings of the API client | `init`, `destroy` |
| Device registry | same, 203-256 | `devices` in the context; role and name buffers | `device_connected`, `device_disconnected` |
| Forwarding | same, 139-201 | the identification set in the API client | `forward_status`, `forward_error_message` |
| Device managers | `source/module_manager.cpp`, `source/bringauto/modules/devices/` | none: functions from buffers to buffers | `send_status_condition`, `generate_command`, `aggregate_status`, `aggregate_error`, `generate_first_command`, `status_data_valid`, `command_data_valid` for Opta, Mega, Uno, Button |
| Documents | `DeviceStatus.hpp`, `DeviceCommand.cpp`, `SerializationUtils.cpp`, ... | none | reading and writing of statuses, commands, error numbers |
| Memory | `source/memory_management.cpp` | heap | `allocate`, `deallocate` |
| Device table | `source/device_management.cpp` | none | `get_module_number`, `is_device_type_supported` |
| Unused classes | `ConfigParameters`, `DeviceError`, `deserialize_device_id` | | no caller |
| Python server | `server.py` | connection state, session, last status, command counter | MQTT handshake, answers to statuses, example commands |

How they interact:

- The *external server* loads the first library. It calls `init` once, then `device_connected`,
  `forward_status` and so on as things happen, and in a thread of its own `wait_for_command`, and `pop_command`
  until no command is left. The library talks to the *fleet HTTP API* through `FleetApiClient` (another
  repository); that API stamps and stores messages of all modules and answers polls.
- The *module gateway* loads the second library. It keeps, per device, the current status, the command to
  answer statuses with, and (while the external server is away) an error message, and it calls the library to
  decide and to transform.
- A command travels fleet API, `wait_for_command`, `command_vector`, `pop_command`, external server, module
  gateway, `command_data_valid`, `generate_command`, device. A status travels the other way.

What makes it hard:

- The polling. One variable, `last_command_timestamp`, stands for "no poll yet" (0), "polled, nothing there"
  (1) and "newest stamp seen"; the next poll asks for the stamp after it. Messages arrive while the request
  runs and while the loop works. A payload that does not parse ends the loop half way. Requests throw, or fail
  by a return code nobody reads. A restart begins at 0 again and must recognise the backlog.
- Forwarding. The identification of a device and its status are given to one API client in two steps that no mutex
  joins, so that forwards of two threads may mix.
- Ownership. Roles and names are plain buffers in a vector, allocated in two steps that may each fail.
- Comparison with what was kept. A status that is held back replaces the kept one all the same, so a
  difference the condition overlooks is gone for good. Counts go through 8-bit, 32-bit and signed integers.

What makes each part correct:

- *Polling*: no command executed twice, none lost, but for the named gaps; only the backlog of a start discarded; `back()` never called
  on an empty vector; nobody blocked by a bad payload.
- *Registry*: every entry owns two live buffers; an entry per connect that was not undone; leaks known.
- *Forwarding*: a status goes out under its own device, unless forwards overlap.
- *Device managers*: aggregation loses nothing; nothing new is held back; presses are counted once.
- *Commands*: a device gets only what can be read, with the actions that were posted.
- *Python server*: answers under the session of the status they answer; each command for the device of its status;
  a gateway that waits is heard as long as nothing was lost.
- *init*: the outcome depends on the values only, and a refused configuration leaves nothing behind.

## Modules

| Module | Models | Extends |
|---|---|---|
| `CommandDelivery` | abstract: what becomes of each command | |
| `CommandApi` | polling and popping, with the context's life and crashes | |
| `CommandApiProofs` | its invariant, properties and refinement | `CommandApi` |
| `CommandPath` | composition: a command from the fleet API to what the gateway keeps for a device | `CommandApi`, instance of `CommandRelay` |
| `CommandPathProofs` | its invariant and properties | `CommandPath`, `CommandApiProofs` |
| `SharedContext` | several command threads on one context, with its mutex | instance of `CommandDelivery` |
| `SharedContextProofs` | its invariant, properties and refinement | `SharedContext` |
| `IoMessages` | status documents, error numbers, integer widths | |
| `IoCommands` | command documents | `IoMessages` |
| `StatusAggregation` | the status functions of the device managers under the gateway | `IoMessages` |
| `StatusAggregationProofs` | the round trip of a status, its invariant and properties | `StatusAggregation` |
| `CommandRelay` | the command functions of the device managers, and the path of a command | `IoCommands` |
| `CommandRelayProofs` | the round trip of a command, its invariant and properties | `CommandRelay` |
| `DeviceApi` | device registry and forwarding | |
| `DeviceApiProofs` | ownership, leaks, registry counts, identification | `DeviceApi` |
| `ContextInit` | `init` | |
| `ContextInitProofs` | its invariant and properties | `ContextInit` |
| `PyServer` | `server.py` with a module gateway over MQTT | |
| `PyServerProofs` | sessions, command numbers, and the flow of statuses without faults | `PyServer` |
| `MC*` | small instances for TLC | the module they are named after |

### CommandApi

State: the clock and stamps of the fleet API (`now`, `ts`), the context (`context`, `last` for
`last_command_timestamp`, `vec` for `command_vector`), the locals of a running `wait_for_command` (`parse`,
`none`, `batch`) and where the command thread is (`pc`). History variables record what became of each command.

Actions: `WaitForCommand` is the entry up to the request; `GetCommandsThrows`, `GetCommandsReturns` and
`GetCommandsFails` are the three ways the request ends; `SkipForeign`, `DiscardStale`, `QueueCommand` and
`RejectMalformed` are the ways through one turn of the loop; `WaitReturns` is the end. The call is split there
because the fleet API goes on taking messages and the process may die in between. `PopCommand` and `PopFails`
are `pop_command`; `InitContext`, `Destroy`, `Crash` the life of the context; `Post` and `Tick` the fleet API.
One thread calls, so the mutex needs no variable here; `SharedContext` has it.

`command_ack` returns OK and touches nothing. `timeout_time_in_ms` is never read by the code, so the model has no
durations: a call may return at any time. `con_variable` is notified by `forward_status` and waited on by nobody.

Things the model shows that a reader should know:

- Commands leave the vector from the back, so two commands of one poll are handed over newest first.
- Commands are lost in three gaps, all of them at the mark, which `NoCommandLost` names and shows to be all there are:
  1. A command that is posted with the stamp of a message already fetched is never asked for (`TooLate`; the history
     `late` records what was posted that way).
  2. A bad payload ends the loop after the mark has taken its stamp (278-280, 296), and the next poll asks for later ones
     (271). A command of the same stamp that stood behind it in the reply is lost, even if both were posted before the
     request and the reply is in order (`CutOff`; the history `skipped` records such rests of replies).
  3. If replies are not in stamp order, the mark may have passed any message that the aborted loop had not reached
     (`CutOff` too); with ordered replies it is the second gap only.
- A poll that is aborted by a bad payload leaves the commands it queued in the vector; they are popped after a
  later poll that returns OK, behind newer ones, and until then they wait.
- `commands.second`, the return code of `getCommands`, is never read. If the first request of a context fails
  that way, it counts as an empty backlog, and the next poll executes commands that earlier runs have dealt
  with. The variable `blind` marks this, and the properties that fail for it (`FetchedOnce`, `QueuedOnce`,
  `StaleNeverOverrules`) exclude exactly it: they do not catch this fault. `SharedContext` bounds what it can do.

### SharedContext

The external server may run several command threads on one context. `Lock` is the first line of
`wait_for_command`; the mutex stays with `holder` while the request runs and through the loop, and every way out of
the call gives it back (`GetCommandsThrows`, `RejectCommand`, `WaitReturns`). `pop_command` is two steps, `CopyBack`
and `PopBack`, and takes no mutex. `Stop` is the caller's, which joins its threads before `Destroy`. What a single thread
makes of a reply is left to `CommandApi`: here every message is a command of the module, its number gives its stamp, and
the payloads of those in `Malformed` do not parse. A request ends in the three ways it has there; `GetCommandsFails` is the
failure that shows only in the return code nobody reads.

Three history variables tell what has become of a command: `handed` over, `dropped` (met in the backlog of a new context,
refused, or queued when the context was destroyed), or neither yet; `answered` says that a poll of this context has come
to its end. With them `KeepsPromise` says that many threads on one context deliver commands as a single one does, that is,
as `CommandDelivery` has it: `TakeCommand` in a first poll is its `DropStale` or nothing, in a later one its `Accept`;
`RejectCommand` its `Reject`, the first `WaitReturns` its `Serve`, `PopBack` its `Deliver`, `Destroy` its `Restart`.

An unseen failure of a context's first request breaks "nothing is delivered twice": the backlog passes for empty, and the
next poll queues what was dealt with before. The model states this as what it is instead of leaving it out. Such a step
empties `handed` and `dropped`, and `CommandDelivery` has a step of its own for it, `Forget`, open to a module that is
`Forgetful` and only while it is starting. So `KeepsPromise` and `QueuedByOne` say that this one step is all that can make
commands come back: no later failure does, nor any interleaving, and what is handed over after it is not queued again
until it happens again. Where failed requests throw (`FailedReplies = FALSE`) the module is not `Forgetful`, and both
hold without exception.

`Conflict` says when two threads are about to touch the same field and one of them to write it. That is undefined
behaviour, so from the first race on the model stands still (`Undefined`), and no property claims anything about
what follows. A thread whose next command will not parse does not write the vector (`Queues`): it returns at line 296. The state in which two threads race belongs to the model, which is what lets `OnlyPopRaces` say who
can be in it: `wait_for_command` never races with itself, `pop_command` races with anything that touches the vector.
The use that is safe follows: any number of threads may poll; only one may pop, and nobody may poll meanwhile.

### CommandPath

`CommandApi` and `CommandRelay` joined by `wire`, the connection from the external server to the gateway, which keeps
the order and survives a restart of the external server. `HandOver` is `PopCommand` with the caller's forwarding;
`GatewayTakes` is the relay's `CommandPosted` for the head of the wire, `GatewayDrops` the same for a device the gateway
does not know. Every other step is one of `CommandApi` or of the device's life.

It answers which of several commands a device is left with. Commands of different drains never overtake each other
(`StaleNeverOverrules`), also across a restart. Commands of one drain do: they leave newest first, the gateway
replaces what it keeps with whatever arrives, and so the oldest stays (`OldestOfDrainStays`). The model shows this as what
the code does; neither code nor README promises an order.

### StatusAggregation and IoMessages

A document is what the code looks up in it: sequences of entries with numbers, states and a flag for entries
that make nlohmann::json throw. `Decode` and `Encode` are `deserializeFromBuffer` and `serializeToBuffer`; numbers
are narrowed as by `uint8_t` and `uint32_t` arguments, entries with foreign numbers are ignored and the last of
several entries wins. `StatusAggregation` has one action per outcome of the gateway's handling of a status: invalid,
first, passed on, held back, out of memory. For an unknown device type every function returns NOT_OK, so no status of
such a device is ever valid and nothing happens; the four types are modelled. The gateway's part (keep the current status, collect the error
message while the external server is away) is external and written from how the functions are meant to be used.

When `aggregate_status` runs out of memory, a valid status is gone. `lastRead` is the last valid status that replaced the
current one, so it does not count that one; `pressed` counts the presses of every valid status, and `lost` those that
went this way, so `NoPressHeldBack` shows where every press has gone. `ErrorCountsMissed` says what the error number is in
every range: exact while it fits an int, then the narrowed number, and, once that is negative, unchanged for good, since
`aggregate_error` takes it for a message it cannot read. The comparison is with `missed`, however large that is.

### CommandRelay and IoCommands

The gateway keeps one command for a device: `generate_first_command` at first, later any that
`command_data_valid` accepts; `generate_command` copies it as the answer to each status. Posted commands are read
and written again on their way (`Popped`); those of `server.py` arrive as they are. Each device type starts from the first
command its own manager writes. `outputs` is external: the device sets its outputs as the answers tell it.
`OutputsAsPosted` compares them with the document that was posted, not with the one that arrived: every output it sets
or clears in the last entry for it is on or off, after any number of repetitions. Where the last entry toggles, nothing is
claimed: `generate_command` sends it again with every status, so the output flips with each.

### DeviceApi

`heap` is the set of allocated buffers, and an entry of `devices` names its two. `device_connected` has three
outcomes (`DeviceConnected`, `ConnectWithoutRole`, `ConnectWithoutName`), `device_disconnected` two. `destroy`
deletes the context and not the buffers its vector points to. Without a context all functions return at once
(`ContextIncorrect`). Forwarding is two steps of a thread, `ForwardStatus`, which sets the identification in the API
client, and `StatusSent` or `SendThrows`; any number of threads forward at once, as nothing keeps them apart.
`forward_status` and `forward_error_message` differ in the kind of message only. The history `during` records whose
forwards began since a thread's own did: `MixedUpOnlyByOverlap` says that a status can go out under the identification of
one of those and of no other. Calls that touch the vector come one at a time, as the external server has to see to.
A device is its five fields: two that agree in all of them are one for the code.

### ContextInit

The loop over the configuration, one action per turn, in any order: `ReadSetting`, `SkipKey`, `RejectConfig`. Values
are five classes, chosen so that every check of the code is passed by one and failed by another; a number that does not
fit an int is one of them, since it is no number to `stoi` and yet a name to the pattern of names. A setting
without a value is `"garbage"`.

### PyServer

State: the globals of `server.py` under their names, the process (`up`, `subscribed`), the messages under way in both
directions, and what the gateway knows. `on_message` has six ways through it: `ConnectExpected` and
`handle_connect` in state 0; `ConnectIgnored` in states 1 and 2; `FirstStatus` in state 1 and `LaterStatus` in
state 2, which share `HandleStatus` (`handle_status`, then `send_command`); and `UnreadableStatus`, where `json.loads`
throws and the process ends. `Start`, `Stop` and `Reconnect` are the life of the process and of its link.
`ConnectIgnored` stands for everything that is no status: the gateway's `commandResponse` is ignored likewise (132-142), and
as it changes nothing the model does not send it. A stop between the two messages of one status is the action followed by a loss and a `Stop`.

The gateway and the broker are external: qos 0, so a message arrives at most once, in order, or not at all; one session
per connect; messages of other sessions are not believed. `disturbed` marks that, since the server was started, a
message was lost, the link broke or the gateway did not wait. After that the server may be deaf for good: in
states 1 and 2 it ignores every connect, and after a reconnection it has no subscription (the only `subscribe` is on
line 150, and line 149 asks for a clean start). `DeafOnlyAfterFault` says that it never is before.

## Checks

| Run | Shows | Bounds |
|---|---|---|
| `command_api` | nothing fetched twice; only the backlog discarded; what strands in the vector; no pop on an empty vector; the mark only grows; the invariant of the proofs, with types, double queueing and the three gaps; every posted command is settled in the end or falls into a gap | 2 commands, 1 malformed one, 1 foreign message; stamps 2 to 4; one restart; replies in any order |
| `command_path` | with replies in order and failures that throw: nothing lost but for the gaps, pops newest first, which command stays with a device, the polling implements `CommandDelivery` | 3 commands (interchangeable), 1 malformed; stamps 2 to 4; one restart |
| `shared_context` | who races; nothing queued twice by many threads, which implement `CommandDelivery` up to the first race, with the forgetting that unseen failures cause; a stop is completed | 3 threads, 3 commands, one malformed; any number of contexts |
| `status_aggregation` | what is kept, passed on and counted, per device type | 3 statuses; 2 inputs or outputs; bytes of 4, words of 8 values |
| `command_relay` | what arrives at a device can be read, is what was posted, and sets the outputs so | 7 posted documents; bytes of 8, words of 16 values |
| `device_api` | buffer ownership, leaks, registry counts, under which identification statuses go out | 3 devices differing in one field; 2 threads that forward; 5 buffers |
| `context_init` | outcome, leaks and indeterminate settings | every configuration over 5 keys and 5 values; 2 calls |
| `py_server` | sessions, command numbers, nothing unaccounted, when the server is deaf; the handshake completes after every restart of the server | 2 devices; 3 starts, 6 connects, 3 statuses per session; any loss |
| `relay_first_command`, `relay_action_types`, `relay_example_command` | disagreements with the README, below | as `command_relay` |
| `status_error_message` | a disagreement with the README, below | as `status_aggregation` |

Why the bounds are enough to be of interest: two commands, a bad one and a foreign one are what it takes to have
one command before and one behind a bad one in a reply, and a foreign message that moves the mark; three stamps allow two
messages on one stamp, a bad one and a good one of one reply among them, and one on either side; one restart gives a second context with a backlog. Three statuses
give a first one, a current one and a new one, and words of eight values make presses overflow with them. Five
buffers are two entries and a role without a name, or one entry and leaks; two threads are one whose forward is under way
and one that begins; buffers and threads are interchangeable, so the run uses their symmetry. Three commands
and three stamps let a drain hold two commands with one of an earlier drain, before a restart or after it; the three
well-formed commands differ in nothing but their names, so that run uses their symmetry too, and its properties are about
steps and states, for which that is sound. Three threads are one that polls, one that waits for the mutex and one that
pops. Six connects are two for each start of the server: one it may have to give up, and one more. All
counters are bounded in the guards of the actions of the environment, never of the code.

`context_init` ends when `init` has returned a context and no call is left, so it does not check for deadlock; every
other passing run does.

Every property is paired with a change to one definition that a plausible bug would make, which TLC finds to
violate it; these variants stand before the definitions they change, marked "Mutant".

### Fairness

Three runs assume fairness. In `command_api`, the command thread of the external server loops for ever, so the steps
it takes by itself are weakly fair, and so is a new `init` after a stop. A request that is repeated for ever is
answered in the end: `GetCommandsReturns` is strongly fair, since any number of requests may throw or fail before.
Nothing is assumed of posts, of the clock, of failing allocations or of crashes.

In `shared_context`, threads are scheduled, a request ends by itself, with a reply or an exception, and a mutex that is
free is taken in the end: the steps of each thread are weakly fair, and so is the `destroy` that follows the join.
Nothing makes a request end in time: `timeout_time_in_ms` is not read, so `StopCompletes` may take as many requests as there
are threads, one after the other. It is claimed for runs without a race.

In `py_server`, `loop_forever` handles each message, the broker delivers, the gateway connects, reports once it may and
gives up on an answer that is no longer under way, and somebody starts the server again: all weakly fair.
`HandshakeCompletes` has the premise `[]~disturbed`: the server may stop and be started again, with the messages lost
that such a stop loses, but no message is lost to a server that runs and its link does not break. Without the premise the
property is false, since the server may then be deaf for good.

### Disagreements found

- The first command of an Arduino numbers outputs by `OutputIndexes`, from 0
  (`arduino_opta_module_manager.cpp:93`), where statuses and the README number them from 1: it names output 0 and never
  output 4, and for the Uno never outputs 4 to 7 (`relay_first_command`).
- `DeviceCommand` accepts any number as an action type (`DeviceCommand.cpp:44`), the README names three
  (`relay_action_types`).
- The example command of `server.py:20` has keys that `DeviceCommand` does not know, so the gateway's library refuses
  it, although the README presents it as a command for an Opta (`relay_example_command`).
- `src/README.md:59` says that status errors are not defined for this module; `aggregate_error` of every device writes an
  error message (`arduino_opta_module_manager.cpp:64-88`: the sum of the presses that were missed)
  (`status_error_message`).

## Proofs

`CommandApiProofs` proves, for any messages, any stamps and bounds: `IndInv` is inductive (`IndInvHolds`), hence
`TypeOK`, `PopHasCommand`, `FetchedOnce`, `QueuedOnce`, `NoCommandLost`, `OnlyBacklogDiscarded`, `NewestFirst`,
`StrandedOnlyByFailure` and `MarkOnlyGrows`. `NothingQueuedTwice` says two things: that `QueuedOnce` holds, whose second half
excepts a context with an unseen failure, and that there is no exception if failures throw; `StaleIsNoThreat` of
`CommandPathProofs` has the same two halves. And, assuming that failures throw (`~FailedReplies`), that the module
implements `CommandDelivery` (`CommandApiRefines`). None of the properties is inductive by itself: that a poll
fetches nothing twice depends on where the mark stands relative to everything handled so far. `IndInv` says that
all handled commands lie behind the mark once the context has answered a poll (`HandledBehindMark`); that during the
first poll of a new context they are behind it or still in the reply; that a reply holds everything between the
mark and what was posted since (`ReplyComplete`); that the mark tells whether a poll was answered (`CallState`);
and that a loop that has found a command has queued one (`VectorState`). There is one lemma per action.

`CommandPathProofs` builds on it. A step of the path is a step of `CommandApi` or none (`PathIsApi`), so `IndInv` and the
refinement carry over (`PathKeepsPromise`). `PathInv` adds that what a reply still holds is newer than everything handed
over (`BatchAhead`), and that the front of the vector, which leaves last, is older than all its drain has handed over, and
is then at the end of the wire or kept by the gateway (`OldestLeavesLast`). `OldestOfDrainStays` follows, and
`StaleNeverOverrules` is a part of it.

`SharedContextProofs` proves `TypeOK`, `OnlyPopRaces`, `PopTakesWhatItCopied` and `QueuedByOne` for any number of threads and
commands. Its invariant says that exactly the thread inside `wait_for_command` holds the mutex (`MutexInv`); that the
locals of that thread agree with the context, which nobody else has changed (`CallInv`); that a thread whose poll has
queued something finds nobody popping (`PopInv`: somebody would have raced with it); that a poll has come to its end once
the mark has moved and nobody is in the first poll of the context (`AnswerInv`); and that whatever was handed over or
dropped lies behind the mark and a reply ahead of it, except that the first poll of a new context gets everything once
more (`MarkInv`). From it `SharedContextRefines` shows that every step is one of `CommandDelivery` or none, one lemma per
action: the command that is queued or refused is a posted one because it lies ahead of the mark (`ParsedIsFresh`), the one
that is popped is the one that was copied, and a command of the backlog that was settled before does not show. No
hypothesis on failures is needed, where `CommandApiRefines` needs `~FailedReplies`: here the promise itself depends on
`FailedReplies`, and an unseen failure of a first request is a `Forget` (`FailsRefines`); without such failures it is the
same promise.

`StatusAggregationProofs` proves all five properties of `StatusAggregation` for any device sizes, any documents and any
integer widths. The invariant adds to the properties that the kept status, if there is one, is a real status of the
device. A lemma carries it through `aggregate_status`: a written status reads back as the same object, for any number of
inputs and outputs that fit a byte (`RoundTrip`). The error number needs arithmetic modulo the word that the provers do not
find by themselves: a number narrowed and added to reads as the sum narrowed (`CountOn`, on `Division`, `Remainder` and
`ModAdd`).

`CommandRelayProofs` proves all four properties of `CommandRelay`: `TypeOK`, `GivenIsReadable`, `PostedActionsKept` and
`OutputsAsPosted`. The last is not inductive, since a command posted again may be the one the device got before another:
`RelayInv` has the outputs follow the last answer instead (`OutputsAsGiven`). Its round trip lemma (`CommandRoundTrip`)
shows that numbers narrowed once stay as they are.

`DeviceApiProofs` proves all properties of `DeviceApi` for any number of devices, threads and buffers. `CountInv` holds them
together: that an entry owns two buffers of its own (`EntriesOwnTheirBuffers`) is what makes a `destroy` or a
disconnect add exactly two to the leaks or free exactly two, and the cardinalities of `LeaksAccounted` come out.
`SentUnderOverlapping` follows from an invariant of the API client alone: what is set while a thread sends is the
identification of the forward that began last, which is in that thread's `during`.

`PyServerProofs` proves `AnsweredUnderOwnSession`, `CommandAnswersItsStatus` and `CommandNumbersGrow` for any devices and
any losses. Its invariant orders the messages: a connect that is under way is newer than whatever the server or the
gateway has heard, and only connects come behind it (`ConnectIsNews`); hence a server that has answered one sees
statuses of its session only (`OneSession`), and the numbers of its commands agree with the statuses it has handled
(`CommandsKnown`). All that is needed of the broker is that messages keep their order while any of them disappear
(`Thins`), so a loss, a broken link, an ignored message and a restart share one lemma (`ThinInv`).

Two more invariants stand on that one. `NumbersInv` bounds every number: statuses under way are numbered in their order and
below what the gateway has sent, responses below it as well, and the statuses handled fit the session. `TypeOK` follows, with
its bounds. `QuietInv` is about a server that runs and has met no fault since its start: it is subscribed, a connect under
way is the one the gateway waits for, and, once it has a session, the gateway is in that session and what it waits for is
coming (`Patient`); what waits for the server are the last statuses sent, numbered without a gap (`StatusesInFlow`); and
the responses under way answer exactly the others that are not answered yet, each once and in order (`ResponsesInOrder`,
`ResponsesComplete`). `DeafOnlyAfterFault` follows because a gateway whose answer is not coming cannot be in a session;
`EveryStatusAccounted` because the last three make its two counts the lengths of two intervals of numbers. Counting alone
is not inductive: that a response moves the gateway's count by one, whatever its number, depends on their order.

`ContextInitProofs` proves all properties of `ContextInit`, with its `TypeOK`, for any set of configurations and any number
of calls. The invariant says of the loop that the keys met so far were accepted and their settings have their values, and
the settings of the others are fresh (`LoopSoFar`), and of a refusal that some key has a bad value (`NullForBadValue`): so
the outcome is that of the whole configuration, in whatever order the loop meets it (`OutcomeFromValues`). `TypeOK` is only
proved and not part of the run.

The assumptions are those the modules name: sets of commands are subsets of the messages, the malformed ones are those
`DeviceCommand` cannot read (`PathAssumption`) or any of the numbered commands (`SharedAssumption`), widths are positive, the numbers of inputs and outputs fit a byte, the
button has no outputs, documents have the types the code asks for, a device is the record of its five fields.

Every safety property that a passing run checks is a theorem. Only model-checked: liveness (`EveryCommandSettles`,
`StopCompletes`, `HandshakeCompletes`), which is out of the prover's reach.

## Not modelled

- The inside of `FleetApiClient`, of the external server and of the module gateway: other repositories, modelled
  from how this code uses them.
- `device_management.cpp`, two pure functions over constants; `ConfigParameters`, `DeviceError` and
  `deserialize_device_id`, which no code uses (`ConfigParameters` fills the value from the key's buffer).
- What `server.py` prints, and messages that are no `ExternalClient` at all (they end the process like a `Stop`).
- Exceptions that leave the C interface (`emplace_back` or `createBufferAndCopyData` without memory,
  `KeyValueConfig` on a malformed configuration, after the context has been allocated).
- The buffer `command_buff` of `wait_for_command` (293-294), which is allocated for every command and never
  deallocated: no property depends on it.
- What a race does to the context: it is undefined behaviour, and `SharedContext` ends there. A thread that polls the
  context while another one destroys it is left out too: the C interface makes joining first the caller's task.
- Devices and forwarding together with the command half: they share the API client, whose identification only the
  forwards set and only the forwards need; `ContextInit` ends where the others begin.

## Plan

Done so far, in this order: `CommandDelivery`, `CommandApi` and its proofs; `IoMessages`, `StatusAggregation` and their
proofs; `DeviceApi`; `IoCommands`, `CommandRelay` and their proofs; `ContextInit`; `PyServer`; `CommandPath` and
`SharedContext` with their proofs; the counting properties of `DeviceApi` and the safety of `PyServer` and of
`ContextInit`, proved; the refinement of `CommandDelivery` by `SharedContext`, checked and proved.

Next:

1. `ExternalServer`: composition of `ContextInit`, `CommandApi` and `DeviceApi` under one life cycle, with an abstract
   specification of the whole.
2. A gateway that is restarted in `CommandPath` and `StatusAggregation`, as it is in `PyServer`.
3. Proofs: an abstract specification of the device registry that `DeviceApi` implements, and of the status path that
   `StatusAggregation` implements.
