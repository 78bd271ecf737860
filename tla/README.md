# TikStudio Event Queue Lab: TLA+ specifications

These modules model the event queue lab from the boundary of TikFinity to the
queue: the adapter that decodes and converts frames, the host that runs everything
on one thread, the pipeline coordinator that owns the payloads, the core that
queues the emissions, the priority policy, and two tools that call them. TLC checks
the modules on small instances (`MC*.tla`, `*.cfg`); TLAPS proves the theorems of the
eight modules `*Proofs.tla` for every value of the constants.

## Inventory of the system

Producers (TikFinity adapter, simulator, tools) -> **Host** (mutex-protected
command FIFO, one owner thread) -> **Pipeline coordinator** (payloads, bindings,
chat batches, pending ready) -> **Core** (the queue). Calls go downwards only;
what comes back are results: statuses, at most one ready emission, and the list
of lifecycle events (terminals). Of the runtime the Host is the only part with more than one
thread; everything below it runs on the owner thread.

| Component | State | Operations | Correct when |
|---|---|---|---|
| Core (`TikStudioEventQueueSystem`) | records, two lazily cleaned heaps of keys, in-flight locator, identity and sequence counters, flow settings | Enqueue, UpdateFlowSettings, UpdatePendingScheduling, Pump, Confirm, CancelInFlight, ProcessDueExpirations, GetNextWakeTime | one emission in flight at most; the best that waits is handed out and never one that is due; each emission ends exactly once with the right reason; snapshots stay frozen; identities and keys are never reused |
| Coordinator (`FTSEventPipelineCoordinator`) | the core, ten payload repositories, binding registry, chat batch index, one pending ready emission | Submit* (10), Begin*Processing, Complete*Processing, Pump, ProcessDueExpirations, UpdateFlowSettings, GetNextWakeTime | each live emission has one binding and one payload; ready is derived, never an authority; a terminal removes binding, payload, index entry and matching ready together; a chat message joins the pending batch of its user or opens a new one |
| Host (`TSEventExecutionHost`) | coordinator, mutex, command FIFO, command sequence | Post* (any thread), RunOneCycle (owner thread) | commands are processed in posting order; a command that fails stays in front; a completion rejected for good is consumed; no wake-up is lost |
| Priority policy | none | Evaluate | no product or sum overflows, and the order in which saturated terms are added does not matter; more attributes never mean less priority |
| Families, settings | none | Decide | an input maps to the decision its family documents |
| TikFinity adapter | none | decode, convert | a frame is accepted only if it is complete and in range; the error names the first thing that is wrong; nothing that was sent is changed on the way |
| Seven event probe, with its checklist | checklist under a mutex, two atomic flags | callback of the socket's thread, main loop | every message is counted once and before the report; the exit code is true; the probe ends |
| Scenario runner | simulated clock, next input, handler at work, next wake-up | one run of a scenario | relies on what a cycle returns and on nothing else, and comes to its end |
| Console, simulator, TikFinity client | none | none yet | placeholders |

### Hard behaviours

- **Lazy indexes.** Updates push new keys and leave the old ones in the heaps;
  selection and expiration pop only stale *fronts*. Nothing is ever searched for.
- **Time.** Expiration is noticed only when an operation runs. An emission that
  is due still occupies its slot, still waits, and must be neither handed out nor
  renewed.
- **Limits.** Counters end at zero and stay there, scores saturate, and an
  expiration that saturates or lands on the last instant means "never".
- **Prepare and commit.** Each mutation is built on a copy and swapped in by a
  `noexcept` commit after the caller's callback agreed. A throw before the swap
  leaves no trace.
- **The host's cycle.** Posts interleave with every point of a cycle; a cycle may
  throw after it committed the expirations it started with; what it throws
  decides whether the command at the front is consumed.
- **Chat accumulation.** Two readings of the clock in one submission, between
  which a batch may fall due; an index that caches the expiration the core owns.
- **Numbers on the way.** 64 bits unsigned or signed on the wire, signed 64 bits when
  decoded, signed 32 bits in the queue, and products of them in the priority.
- **Two threads of the probe.** Frames arrive while the main thread stops and reports.
- **Several authorities.** Core, bindings, payloads, chat index and ready
  notification change in one commit, and each validates the others first: a
  single missed removal would make every later operation throw.

`PROJECT.json` lists each hazard at its line, with the properties that cover it.

## Modules

| Module | What it is |
|---|---|
| `EventQueueTypes` | constants, value types, saturated arithmetic, the two orders of the queue |
| `EventScheduler` | abstract specification: what the queue promises its callers |
| `EventQueueCore` | `TikStudioEventQueueSystem`, one action per public operation, its properties, and the refinement of `EventScheduler` |
| `MCEventQueueCore` | settings and inputs of the TLC instances |
| `EventQueueCoreProofs` | the inductive invariant of `EventQueueCore` |
| `EventQueueCoreStepProofs` | what each step of `EventQueueCore` does: its action properties, and that it implements `EventScheduler` |
| `EventDelivery` | abstract specification: what the pipeline promises producers and handlers |
| `EventPipeline` | `FTSEventPipelineCoordinator` composed with `EventQueueCore`: it extends the core, and its actions conjoin the core's |
| `EventPipelineProofs` | the inductive invariant of `EventPipeline`, that it is a user of the core, and that it implements `EventDelivery` |
| `MCEventPipeline` | settings and inputs of the pipeline's TLC instances |
| `EventService` | abstract specification: what the host promises the threads that post; extends `EventDelivery` |
| `EventHost` | `FTSEventExecutionHost`, composed with `EventPipeline` and through it with the core |
| `EventHostProofs` | the invariants of `EventHost`, and that it implements `EventService` |
| `MCEventHost` | settings and commands of the host's TLC instances |
| `ScenarioRunner` | the scenario runner's engine, composed with `EventHost` |
| `ScenarioRunnerProofs` | the invariants of a run, and what its clock may pass over |
| `MCScenarioRunner` | settings and users of its TLC instance |
| `UserPriority` | `FTSCommonUserPriorityPolicy`, with the width of its arithmetic as a constant |
| `UserPriorityProofs` | lemmas and theorems about `UserPriority` |
| `MCUserPriority` | users and settings of its TLC instance |
| `TikFinityDecoder` | pure operators: the decoder of frames, with the contract of the seven events as tables |
| `TikFinityAdapter` | the converters, and a sender who corrects what a rejection names |
| `TikFinityAdapterProofs` | lemmas and theorems about the decoder and the converters |
| `MCTikFinityAdapter` | frames of its TLC instance |
| `SevenEventProbe` | the probe's two threads and the checklist, over `TikFinityDecoder` |
| `SevenEventProbeProofs` | lemmas and theorems about `SevenEventProbe` |
| `MCSevenEventProbe` | frames of its TLC instance |

### How EventQueueCore corresponds to the code

| Variable | Code |
|---|---|
| `settings` | `FImpl::Settings.Flows`; `Settings.Pump` is fixed at construction and is the two constants `bPumpAfter...` |
| `now` | what `NowProvider` answers; it moves between operations (`Tick`). `steady_clock` is monotonic |
| `nextIdentity` | `NextEmissionId` and `NextSequence`, which are allocated and advanced together |
| `records` | `Records` |
| `priorityIndex`, `expirationIndex` | the two `priority_queue`s, as sets of keys |
| `inFlightEmissionId` | `InFlightEmissionId` |
| `reply` | the result structure of the last operation |

The actions are the public operations with everything they call: `Enqueue` and
`Confirm` contain their automatic pump, `PumpAt` contains the expiration pass
that precedes the selection.

Abstractions, each with its reason:

- **A heap is a set of keys.** The code only ever sees a heap's front, which the
  comparator determines except when two keys of one emission tie. Then the
  order is unspecified, and `AfterPops` allows each outcome: popping until a
  current key is in front removes every key ahead of it and perhaps keys that tie.
- **Identity.** `EmissionId` and `Sequence` advance together from 1, so one number
  stands for both. `CreatedAt` and `bProtectedFromEviction` are written and never
  read; they are dropped.
- **Prepare and commit are one step.** Since the commit is a `noexcept` swap, an
  operation whose preparation or callback throws is no step at all.
- **`ObservedAt`.** The coordinator passes the time it has just captured; the
  model passes `now`.
- **Settings given to the constructor** are not validated by the code. The module
  allows any TTL, as admissions reject negative ones, and assumes
  (`CoreAssumption`) that policies are members of the enum.
- `SetPendingRevisionForTesting` is a hook for the tests and is left out. The
  aging and eviction settings have no implementation.

`EventScheduler` hides indexes, revisions and settings: emissions are live or
not, one may be out, the others wait until they are overdue or the best. The
refinement maps `live` to the envelopes and policies of `records`, `used` to the
identities handed out and `answer` to the parts of `reply` a caller acts on.
It is where the answers as a whole are checked: which emission, which events and
in which order, which wake-up time. What the scheduler leaves open, and the core
decides, is which requests are refused.

### How EventPipeline corresponds to the code

| Variable | Code |
|---|---|
| `payloads`, `nextHandle` | the ten `TTSPayloadRepository` objects, by flow; handle 0 is "exhausted" |
| `bindings` | `BindingRegistry`, by emission |
| `chatPendingBatches` | `ChatPendingBatchIndex`, by user |
| `pendingReadyEmission` | `PendingReadyEmission` |
| `outcome` | the result structure of the last operation, or `LogicError` |

| Action | Code |
|---|---|
| `SubmitDecision(flow)` | `SubmitGift` and the other eight that turn each input into one emission, with the core's `Enqueue` inside |
| `ThrowAfterInsert(flow)` | an exception after the provisional payload was stored: the rollback erases it, the handle is gone |
| `SubmitChat(input)` | `SubmitChat`: declined, refused by a full batch, appended (`Accumulate`, with `UpdatePendingScheduling` inside), or a new batch (`OpenBatch`) |
| `BeginProcessing(flow)` | the ten `Begin*Processing` |
| `CompleteProcessing(id, succeeded, flow)` | the ten `Complete*Processing`, with `Confirm` or `CancelInFlight` inside |
| `PumpPipeline`, `ProcessPipelineExpirations` | `Pump`, `ProcessDueExpirations` |
| `PassToCore` | `UpdateFlowSettings`, `GetNextWakeTime`, and the clock |

The coordinator's part of an operation is written over `reply'`, the answer the
core is about to give, as the code runs it in the core's prepare callback.

Abstractions:

- **A validation is a guard.** A callback that throws leaves everything as it was,
  so the step does not exist. That would hide a validation that fails for ever:
  `OperationsNeverThrow` states with ENABLED that none does. One effect of an
  exception survives, the handle used up; that is `ThrowAfterInsert`.
- **One reading of the clock stands for the two of `SubmitChat`.** If the batch is
  due at the first it is due at the second, and an append looks only at the first.
- **A chat message is the bytes it costs**; user data are their bytes and the
  priority adjustment the policy derives from them. Byte sums do not saturate.
  `bIsCommand` is an input: the prefix matching is not modelled. Payloads of other
  families are copied unread, so they are all alike.
- **The family follows from the flow** (`IsSupportedFamilyFlowPair`). The priority
  adjustment kept in the chat payload is left out; the core's score is modelled.
- **`TerminalPendingHandling`** lasts only inside a commit; it is not a state.

`EventDelivery` knows live events with a stage (Waiting, Ready, Processing) and a
payload. The refinement maps a binding in Processing, the ready notification, and
anything else to those stages, and `payload` through the handle: that a handler
gets what was submitted, in order and complete, is a claim about repositories,
bindings, counters and index together. What `EventDelivery` leaves open is which
event becomes ready and when the waiting ones end; `EventScheduler` says that.

One behaviour a reader may not expect: when the batch of a user is due, not yet
processed, and an emission is in flight, a further message of the user makes
`SubmitChat` throw ("Expired Chat predecessor was not terminalized"), as no pump
runs in that admission. So does a message that would renew a batch whose record has
no revision left. `SubmitChatThrows` is that step, which changes nothing but perhaps
the handle, and `ChatIsAnswered` says that it is possible in these two cases and in
no other. The host retries the command, and its next cycle starts with the
expirations, so the first case passes; the second lasts until the batch ends.

### How EventHost corresponds to the code

| Variable | Code |
|---|---|
| `postedCommands`, `nextPostedCommandSequence` | the deque and the counter under `PostedCommandsMutex` |
| `stage` | how far the owner's `RunOneCycle` has got |
| `result` | the `FTSEventHostCycleResult` under construction, and then what its caller keeps of it: `threw`, `wake`, `more` |
| `signal` | a `Post*` that answered TRUE, so that its thread wakes the owner, since the last cycle began |
| `handed` | history: the last dispatch that reached the caller |
| `failures` | failures of the machine so far, bounded by `MaxFailures` |

| Action | Code |
|---|---|
| `Post` | `PostCommand`, by any thread, between any two stages |
| `BeginCycle` | the expirations at the head of the cycle |
| `FindNoCommand`, `ProcessPostedCommand` | the lease of the front and `ProcessPostedCommand`, with the whole operation of the coordinator inside |
| `Acknowledge`, `Reject` | `AcknowledgeCommandLease`, after success or before a rejected completion is thrown on |
| `FindNothingReady`, `BeginPendingDispatch` | `TryBeginPendingDispatch`, before and after the pump |
| `PumpOnce`, `FindNextWakeTime`, `ReturnResult` | the rest of the cycle; the mailbox is read once more at the end |
| `CycleThrows` | an allocation or the clock throws inside a stage |

- **Stages.** The owner gives the mutex up between lease, acknowledgement and the
  last reading of the mailbox, and the clock moves all the time. Everything between
  two of these points is one step, since nobody else touches the coordinator.
- **Failures** strike only where the code calls something that can throw for want
  of memory or through the clock: the expirations, the command, the dispatch, the
  pump and the dispatch after it. They leave the state as it was before the
  operation (the coordinator commits last) except for a handle. The wake-up time
  and the copies at the end of the cycle are taken never to throw.
- **The caller** is no part of the program. `IsAwake` says what it can go by: a post
  that answered TRUE, a last cycle that threw or said that commands are left, a
  wake-up time that has come. The checks of the owner thread's identity are
  preconditions of the actions.
- The events of the expirations of a cycle (`TSEventExecutionHost.cpp:423`) are committed before the
  command of the same cycle runs; when that throws, they are lost to the caller. No
  document promises otherwise, so no property says anything of it.
- A cycle that updates flow settings neither dispatches nor pumps, and asks for no
  cycle afterwards (documented in
  `docs/history/PROJECT_CONTEXT_BASELINE_8afa3b.md:714`). After a cycle that failed for
  want of memory it may therefore leave an emission ready beside a sleeping owner, until
  something else wakes it. `WorkConserving` says what remains: a cycle that may dispatch
  never leaves work, whatever failed before it, and as long as the machine has not failed
  there is none between any two cycles, settings changes included.

`EventService` knows one line of commands for all threads, and the deliveries of
`EventDelivery`. A command is served at the step in which the coordinator answers it;
its acknowledgement is a stutter. The refinement says that every command has its
effect once and in the order of the line, however often it is tried.

**Finding** (`host_poison`). `CompleteProcessing` throws an unclassified
`logic_error` for any completion while an emission is ready, before it checks whether
the completion can be valid at all (`TSEventPipelineCoordinator.cpp:1848`); the host
then keeps the command in front and never reaches the dispatch that would clear
the ready emission. `PROJECT_CONTEXT.md:250` says: "Una completion definitivamente
rechazada se consume y no puede envenenar el FIFO." After one dispatch that failed
for want of memory, a completion delivered twice stands in front for ever. Without a
failure of a dispatch, `host_live` shows that every command is consumed.

### How ScenarioRunner corresponds to the code

The variables are the members of the runner with their names; `scenario` is the
validated and ordered scenario, `phase` the place in `Run` and its helpers, and
`eventful` and `bAnythingDue` are locals of theirs. One thread does everything, so
there is no step of the clock by itself: `SelectNextEvent` sets it to the next event. The
actions follow `Run`: choose the next offset, complete, bring the inputs one at
a time, maintain only if neither was due, each with the cycles it takes. A check of
the runner that fails, and an exception of a cycle, end in the phase `Failed`. What
the dialogue, the provider and the reporter read and print is left out: the scenario
is any that the validation lets through, over small offsets.

### How UserPriority corresponds to the code

The arithmetic is that of the code, operator by operator, with
`MaxPriorityAdjustment` for the largest `int64`. Three attributes have a level, three
are marks, and the rank is the best when lowest; the terms are added in the order of
`Evaluate`. The breakdown is reduced to its total. Invalid settings throw (-1).

### How the TikFinity modules correspond to the code

- **A JSON value is its type and a number**: an integer, the length of a text, 0 or
  1 for a Boolean. An integer beyond 64 bits is a fraction for the parser, as it is for
  the library. The number keeps what the decoder and the converters look at: the
  width, the sign, whether a text is empty.
- **The decoder is a list of checks in the order the code makes them**; the result is
  the first that fails, with its path as key, index and member. The tables of
  `TikFinityDecoder` are the functions `Decode<Kind>`.
- **The converters** are lists of requirements, again in order, and `Input` is what
  they copy, with the cast to 32 bits written out (`Int32`).
- **The sender is environment**: `SendAgain` corrects the one place a rejection names.
  No caller in the repository does that; it is what the path is for, and it makes
  the order of the checks and the indexes visible. The converters have no caller yet
  but the vertical integration tests; `Receive` is what those do.

### How SevenEventProbe corresponds to the code

`ix::WebSocket` is external: one thread calls back, one message at a time, and
`stop()` joins it. A callback is two steps, what happens under the lock (decode,
observe, or read the snapshot that `CONNECTED` shows) and what comes after it (print, ask
to stop), because the main thread may run in between. `bInternalFailure` and
`bStopRequested` are stored in one step: the main thread reads the first only after the
join. Exceptions come from the decoder, from `Observe` and from any printing, that of a
new connection included (`FailToDecode`, `ReceiveText`, `FailToPrint`). The handler of an
exception prints as well: nothing catches what that throws, so it leaves the thread of
the socket and terminates the program without a report (`ThrowFromHandler`). Printing the
report may fail too, and ends in 3 (`FailToReport`). `received`, `failed` and `threw` are
history: the messages, those whose decoding threw, and whether any callback caught an
exception. `ReportIsFinal` compares the exit code with `threw`.
Parsing the arguments, starting the network and the text of the report are left out.

## Runs

| Run | Instance | Shows |
|---|---|---|
| `core_auto` | one flow, automatic pumps on (the productive defaults), three identities, two revisions, TTL 2 | invariant, action properties and refinement |
| `core_manual` | one flow, pumps off, two identities, TTLs of 1, 2 and none, scores that fall, fairness | the refinement when several emissions wait together and pumps are explicit; an overdue emission is eventually told |
| `core_requests` | two flows, invalid flows, disabled flows, negative TTLs, unknown policies, overrides, expectations, full flows, one TTL that runs out | every status is reached, expired and exhausted requests included, and rejections change nothing; snapshots survive settings changes |
| `pipeline_chat` | two users chat, gifts arrive; productive pumps, appends renew | the coordinator's authorities agree with the core; no validation fails; every message is answered; refinement of `EventDelivery` |
| `pipeline_limits` | two users, pumps off, appends that do not renew, commands only, tight byte limit, a flow that closes | the same validations when the batches of both users wait, and that no batch grows after its expiration although the core is not asked |
| `host_cycles` | chat and gifts, completions that fit and that do not, settings updates, four commands, one failure anywhere | the mailbox, no lost wake-up, no expiration overslept, no dispatch lost, nothing left waiting beside an idle handler, between cycles too until the failure; refinement of `EventService` |
| `host_live` | the same with three commands, no failure of a dispatch, fairness | every command is consumed |
| `host_poison` | gifts and a completion delivered twice, one failed dispatch | **violated**: the finding above |
| `scenario` | two users, up to four messages at five offsets, batches of two, TTL 3, processing 2 | the runner's checks never fail, its validated timeline holds the run, time passes over nothing, it ends with nothing left |
| `user_priority` | four bits, users at, below and beyond every limit, settings that saturate, invalid ones | the total is the exact sum cut off once; a gain never costs |
| `tikfinity_frames` | frames of the seven kinds, wrong in one place, in two around a list, or everywhere | what is decoded and converted is what was sent; paths lead to the first fault |
| `seven_event_probe` | a frame of each kind, rejected, nameless, unknown and binary ones, errors, close, exceptions of decoding, observing, printing and reporting, deadline | counters, report, end, and the exit code: 4 if and only if a callback threw |

Bounds of the core. `MaxIdentity = 3` lets one emission be out while two wait and tie,
and reaches exhaustion. `MaxRevision = 2` lets a key go stale, and reaches
exhaustion. `MaxTime = 4` is the sentinel and `MaxNow = 3` the last instant the
clock reaches, so that a TTL of 2 gives expirations that pass, saturate (from
instant 3) and land on the sentinel (from instant 2). Scores between -1 and 1
saturate with a weight of 1. `core_manual` has two identities, enough for two that
wait together with expirations in either order. `core_requests` trades time and
identities for inputs; its clock reaches 1, which the TTL override of 1 makes an expiration. Deadlock is checked; `GetNextWakeTime` can always run.

The pipeline's runs keep `MaxIdentity = 3` and `MaxRevision = 2`, so a user can
have a batch in processing, a second one waiting and an event of another flow or
user beside it, and a batch renews once before its revisions run out. `MaxHandle
= 2` is reached before the identities, through one rejection or exception.
`MaxNow = 3` and a TTL of 2 let a batch fall due, renew and fall due again;
`MaxTime = 6` keeps the sentinel out of reach of chat, which the core's runs
cover. Batches hold one user part of one byte and messages of one byte, so three
messages fit by count in `pipeline_chat` and two by bytes in `pipeline_limits`.
Both use the VIEW `CoordinatorState`, which hides `reply` and `outcome`: no guard
and no invariant reads them, only steps do, and TLC checks action properties and
refinements on every step it generates.

The host's runs post at most as many commands as there are sequences: four let a
completion follow its input while another input waits behind a command that throws, and
the sequences run out; three suffice for the same with liveness. Two identities let a
chat batch wait beside a gift in processing. `MaxNow = 2` lets a batch fall due
between two stages of a cycle. One failure at a time is enough to have every stage
fail in every state, as the state after a failure is again an ordinary one. Where the
last sequence is given, further posts throw, which is no step; the owner can always
run a cycle, so deadlock is checked.

`scenario` has the offsets 0 to 4 with processing 2 and TTL 3: a message may arrive
before, at and after the expiration of the batch of its user, and at the instant of a
completion. `MaxNow = 12` holds the timeline of four inputs; identities,
revisions, handles and sequences suffice for them, as in the program. Users of
different priority make the queue overtake. The run ends, so deadlock is not checked.

`user_priority`: the largest adjustment is 7, so products (3 * 3) and sums of two or more
terms saturate. `tikfinity_frames` puts the largest 32-bit integer at 3 and the
largest 64-bit integer at 7, and tries every field with nothing, null, another type,
zero, -1, and both sides of each limit; a sender who corrects needs at most one frame
per field. It ends when the frame is decoded, so deadlock is not checked.
`seven_event_probe` counts new kinds freely and at most one other message: the other
messages differ only in the counter they advance. The probe ends, so deadlock is not checked.

Fairness, and why the code justifies it:

- `core_manual`: `ProcessDueExpirations` runs again and again. `RunOneCycle` calls it
  first in every cycle, before it looks at the commands.
- `host_live`, `host_poison`: the owner takes its next step as long as it is awake
  (`IsAwake`): its caller runs a cycle when it is told to, and a cycle does not stop
  half-way. Nothing says that anybody posts, nor that time passes.
- `scenario`: the one thread of the runner goes on.
- `tikfinity_frames`: the sender sends again while he is rejected. This is
  environment, and only `CorrectedIsDecoded` needs it.
- `seven_event_probe`: a callback returns, and the main thread goes on once it is asked
  to stop. No frame and no deadline is assumed to come.

## Proofs

No theorem bounds a constant: any number of flows, users, identities, revisions, handles,
sequences and instants. The assumptions are the `ASSUME`s of the modules, which TLC
evaluates in every run: ranges are non-empty, `None` is no value of a type, settings
and inputs have their types. What a theorem needs beyond them is its hypothesis.

Every component is proved the same way: an inductive invariant, one lemma per operation
that says what it does in terms a caller understands, and then the action properties and
the refinement from these two.

**The core, `EventQueueCoreProofs`.**

- `InductiveInvariant`: `Spec => []IInv`, where `IInv` is `TypeOK`, records filed
  under their own identity (`RecordsKeyed`), a coherent in-flight locator
  (`InFlightCoherent`), complete indexes (`IndexesComplete`), and keys that speak of
  no future identity or revision (`KeysFromPast`);
- `TypeCorrect`, `OneInFlight`, `NoEmissionLost`: its parts that matter by themselves;
- `KeysStayStale`: `Spec => StaleKeysStayStale`, no stale key ever becomes current.

Why `IInv` is inductive and its parts are not: completeness of the indexes
survives a pop only because what is popped is not current, and currency compares
the key with the record filed under the key's identity, which is `RecordsKeyed`.
An admission keeps old keys stale only because no key names the identity about to
be given, and an update only because no key has the revision about to be
reached: `KeysFromPast`. The proof is organised around the state an operation
*prepares*, as the code is: `PreparedInv` is the invariant of records, heaps and
locator taken as values; `AdmissionPrepares` and `CompletionPrepares` establish it
for what `Enqueue` and `Confirm` prepare, and `PumpInvariant` takes it through the
expiration pass and the selection, whoever called the pump.

**The core's steps, `EventQueueCoreStepProofs`.** `DueKeysExact` is the fact everything rests on: in a
prepared state the current keys that are due, in a heap full of stale ones, are those of
exactly the emissions that wait and are due, one key each. `PumpOutcome` follows: `PumpAt` of
a prepared state removes the due, tells them in the order of their keys, and hands out a
best one of the rest if and only if nothing is out and any is left. `StepShape` splits
`Next` into what a step can be (nothing changes, one is rescheduled, the due leave, one is filed or
completed, with or without a pump), and the four theorems go through these kinds:
`SnapshotsStayFrozen`, `SelectionsAreBest`, `DueStaysDue`, and `TerminalsExact`, which
rests on three lemmas: `StepSettles`, the events of an answer are a bijective listing of what left;
`InFlightLeaves`, what was in flight leaves by its completion only, with the reason of the
operation named in the answer; and `StepInOrder`, the completion leads and the expirations
follow as they fell due.

**The scheduler, in `EventQueueCoreStepProofs`.** `Refinement`: `Spec => ImplementsScheduler`. Each action has a lemma that
names its abstract step: `AdmissionMaps`, `AnswerMaps`, `RescheduleMaps`, `PumpMaps`,
`ExpireMaps`, `NextWakeMaps`, `TickMaps`; a request that is refused, or answered without
change, maps to the refusal (`RefusalMaps`). The events of a pass map to a sorted listing of the overdue
(`ExpirationsMap`), again by `DueKeysExact`.

**The pipeline, `EventPipelineProofs`.**

- `PipelineConsistent`: `PipelineSpec => []PipelineInv`;
- `PipelineUsesCore`: `PipelineSpec => Spec`, hence `CorePromisesHold`: the four action
  properties above, `StaleKeysStayStale` and the refinement of the scheduler hold of the
  queue inside the pipeline;
- `GrowthStopsAtDue`: `PipelineSpec => GrowthBeforeDue`;
- `ValidationsHold` and `ChatValidationsHold`: in every state of the invariant, what the
  coordinator validates before it commits holds, whatever the core answers.

The three matches of the invariant are stated over values
(`CommitBindings`, `CommitReady`, `CommitBatches`), so that an operation can be proved in the two halves the
code has: an admission files a binding, a payload and perhaps an index entry
(`AdmissionMatches`), and the commit of the core's answer removes what ended and closes
what became ready (`CommitPreserves`). What an answer says of the records it leaves
(`PumpCommits`, `ExpirationCommits`, `CompletionCommits`, `FilingCommits`) comes from the
lemmas about the core's steps. The invariant needs two things that its other parts do not
say: a chat payload is within its limits, and no other payload has a user or messages
(`FitsFlow`), or the index could hold a batch under the wrong user; and an envelope is
never `None` (`PipelineAssumption`), or a notification could not be told from none.

The two theorems about validations are what `OperationsNeverThrow` and `ChatIsAnswered` rest on, said
of a step of the core instead of with ENABLED. There are as many terminal events as
emissions that left, so none is told twice (`EventsOnce`), and each finds its binding in the state its reason
calls for, its payload and its place in the index (`EntriesValid`, `ReadyValid`); a completion
leads its answer, and the rest of it only expired (`CompletionAccepted`); an admission is new to the registry
(`AdmissionAccepted`). A chat batch that is open is the one emission of its user that waits, with the
expiration the core has, so its renewal is not rejected for a mismatch
(`OpenBatchGrows`), and one whose time has come is in the way only if the admission does
not pump (`PredecessorEnds`). They assume that `None` is no reason, and for chat `MaxNow < MaxTime`.

**The deliveries, in `EventPipelineProofs`.** `PipelineImplementsDelivery`: `PipelineSpec => ImplementsDelivery`, if
`MaxNow < MaxTime`. A commit, whatever operation it belongs to, advances the deliveries
(`CommitAdvances`): what ended leaves, what became ready changes its stage, the rest keeps
stage and payload. The admission, the append, the dispatch and the completion are then one
step each. The hypothesis is about the clock: at the instant that stands for
"never", a batch that never expires is neither open, as `IsBatchOpen` compares instants, nor
due, so the user could open a second one beside it. `steady_clock` never gets to
`time_point::max()`.

**The host, `EventHostProofs`.**

- `AcknowledgesWhatItLeased`: `HostSpec => []LeaseIsFront`, so the `terminate()` of
  `AcknowledgeCommandLease` is out of reach; `SleepsOnlyIfEmpty`: `HostSpec => []NoLostWakeup`;
  `HostConsistent` adds the types of the owner's state;
- `HostKeepsPipeline`: `HostSpec => []PipelineInv`; `HostUsesCore`: `HostSpec => Spec`;
- `DispatchReachesCaller`, `SleepsNoLongerThanDue`, `CyclesConserveWork`: the three promises
  of a cycle, `[]NoDispatchLost`, `[]WakeCoversExpirations`, `[]WorkConserving`;
- `HostImplementsService`: `HostSpec => ImplementsService`, if `MaxNow < MaxTime`.

The invariant of the mailbox (`MailboxInv`) is inductive without a word about the
coordinator: a lease is still in front when it is acknowledged because posts append and
nobody else acknowledges, and a wake-up is lost nowhere because the owner forgets `signal`
only when it begins a cycle, before it reads the mailbox, and reads it again as the last
thing it does. A step of the owner is one call of the coordinator or none
(`CycleOfPipeline`), so its invariant carries over; `PipelineSpec` itself does not, because
the clock of the host ticks without an answer of the coordinator. The promises need
strengthening to be inductive: `DispatchInv` says that at most one emission is in
processing, the dispatch given last; `WakeInv` that the wake-up asked for covers the waiting from
the moment it was asked for until the next cycle begins; `WorkInv` that the pump, or the
dispatch after it, leaves the coordinator busy (`Busy`) for the rest of the cycle, and `RestInv`
that it stays so between cycles and until a command takes effect, as long as no stage has
failed: expirations take work away, and a command that is refused or throws changes nothing
(`ExpirationsRest`, `PerformRests`). The service's
line is the mailbox without a command already answered (`ServiceWaiting`): the command
leaves it in the step that answers (`CommandServed`), the acknowledgement stutters, and a
cycle that throws changes neither.

**The scenario runner, `ScenarioRunnerProofs`.**

- `RunnerTakesNothingAmiss`: `RunnerSpec => []RunnerInv`, none of the runner's checks of a
  cycle fails, and no cycle throws;
- `RunFitsTimeline`: `RunnerSpec => []RunWithinTimeline`;
- `RunLeavesNothing`: `RunnerSpec => []NothingLeftBehind`;
- `TimePassesOverNothing`: `RunnerSpec => TimePassesInOrder`.

The runner is a caller of the host: each of its steps posts, takes a step of a cycle, moves the
clock between cycles, or leaves the host alone (`CallerStep`, `CallerAdvances`). So the host's invariants carry
over (`CallerInv`), though `HostSpec` does not: the runner sets the clock further than by one.
What it takes for granted is then the conjunction of

- `CommandInv`: at most one command is in the mailbox, and a completion that is expected is
  either that command or answered in the cycle under way;
- `HandlerInv`: what is in processing is what the handler works on, what the cycle has just
  handed out, or what the completion just posted names. Between cycles something waits only
  beside a handler at work, which is `WorkInv` of the host;
- `WakeTimeInv`: after a cycle nothing that waits is due, so the wake-up it asks for lies ahead,
  and there is one only if something waits. Hence no cycle is fruitless;
- `LoadInv`: what is still to be handled, one processing each, fits between the present and the
  last arrival plus a processing for every input posted; and no record has been rescheduled
  more often than inputs were served, so a renewal never runs out of revisions;
- `TimeInv` and `EndInv`: clock and inputs agree, and the run ends only with nothing to do.

`InputAnswered` and `CompletionEnds` show that the coordinator answers what is posted: of the
two cases in which a message throws, `WakeTimeInv` and `LoadInv` exclude one each.
`RunnerAssumption` says what this needs: the clock counts milliseconds in a finer period
(`MaxNow < MaxTime`), and there are no more inputs than revisions, as
`ValidateAndOrderScenario` refuses more than an `int64` counts. No allocation fails
(`FailureStages = {}`); in the program such an exception ends the run.

**The priority, `UserPriorityProofs`.** From `PriorityAssumption` (users and settings
have integer attributes, the largest adjustment is any natural number), the quotient
test of `SaturatingMultiplyNonNegative` is exact (a product is cut
off if and only if it is larger), a chain of saturating sums is the sum cut off
once, whatever the order, and so

- `TotalIsAlwaysClampedSum`: `PrioritySpec => []TotalIsClampedSum`;
- `GainNeverLoses`: `PrioritySpec => GainNeverCosts`, as the exact sum is monotone in
  every attribute and a cut-off keeps an order.

Both rest on `IsEvaluation`, that the total is the evaluation of the user and settings
that are kept, which is inductive by itself.

**The TikFinity adapter, `TikFinityAdapterProofs`.** For all frames, with lists of any
length:

- `DecodesExactlyWellTyped`: `AdapterSpec => []DecodesWellTyped`;
- `ConvertersFindEnvelope`: `AdapterSpec => []DecodedIsConvertible`;
- `InputsAreFaithful`: `AdapterSpec => []InputSaysWhatWasSent`.

`ExchangeConsistent` is the invariant: whatever a sender corrects, his frame stays one, and
result and conversion are those of the frame. The rest is about operators. `FirstFault` is
the first check of a list that fails, written with a CHOOSE that leaves no choice, as what a
recursion over a list returns is out of the provers' reach; `FirstFaultProperties` says that
it accepts if and only if all checks do. The decoder's part follows from it element by
member (`ElementAccepts`, `FieldAccepts`, `DataAccepts`), the converters' from what a concatenation of
requirements asks (`RequirementsConcat`, `FamilyAsks`): every number of the contract is among
those whose width its family checks, which is what `Int32` needs to change nothing. The tables
of the contract are taken as the sets of what they hold (`ContractHolds`, `MembersHold`).

The proofs showed that two properties were written too wide. A frame may hold a list its
event does not have, and `DecodesWellTyped` asked the elements of such a list to be of a type
all the same; `InputSaysWhatWasSent` likewise spoke of the members of both lists. Both now
speak of what the contract of the event has, as the decoder does. The instance for TLC
has no such frame, which is why it did not notice.

**The probe, `SevenEventProbeProofs`.**

- `DecodedIsObservable`: whatever the decoder accepts, `Observe` takes without throwing, for
  every frame;
- `EveryMessageCounted`: `ProbeSpec => []MessagesAccountedFor`;
- `ReportIsAboutEverything`: `ProbeSpec => []ReportIsFinal`.

`ProbeConsistent` is the invariant: types, the counters against the history, what a callback
under way still owes (`CallbacksEnded`), a flag that remembers the exceptions of callbacks
and is set by nothing else (`FailureRemembered`), and a report that stays as it was (`ReportKept`). The report is about everything only because the
socket is stopped, and so the callback joined, before the flag is read and the snapshot is
taken. `MessagesAccountedFor` sums seven counters, written out: what a fold adds up to cannot be
proved with these provers.

**Model-checked and not proved.**

- Liveness, and whatever speaks of ENABLED, is outside the prover: `DueEventuallyTold`,
  `EveryCommandConsumed`, `ScenarioEnds`, `EndsOnceDone`, `CorrectedIsDecoded`; `OperationsNeverThrow`
  and `ChatIsAnswered`. Of the last two, what the steps need is proved (`ValidationsHold`,
  `ChatValidationsHold`); that such a step then exists is left to TLC.
- `CorrectionAdvances`: that the sender who corrects his frame gets further each time needs
  the place of each key in the contract, and that what he meant is itself in order.

## Plan

1. *(done)* `EventQueueTypes`, `EventScheduler`, `EventQueueCore`, its runs and the
   inductive invariant.
2. *(done)* `EventDelivery`, `EventPipeline` and its runs.
3. *(done)* `EventService`, `EventHost` and its runs, `ScenarioRunner` on top of it.
4. *(done)* `UserPriority` with its proofs, the TikFinity modules, the probe.
5. *(done)* The proofs: core, scheduler, pipeline, deliveries, host, service, probe, adapter,
   runner.
6. *(done)* What the coordinator validates, without ENABLED.

## Not modelled

- Console, simulator and TikFinity client are placeholders without behaviour; aging and
  eviction are declared in the settings and implemented nowhere.
- The scenario runner's dialogue, provider and reporter, the formatter of mapped events,
  and the probe's arguments and printing only read and lay out text.
- The JSON parser and `ix::WebSocket` are libraries, modelled as far as the code in
  `src/` relies on them.
- The prefix matching that makes a comment a command is an input (`bIsCommand`), and
  the validation of the chat settings is left out: the settings are valid.
- The core's constructor takes flow settings without the checks of `UpdateFlowSettings`
  (`TikStudioEventQueueSystem.cpp:527` would throw for ever on a policy outside its
  enum); the modules assume policies of the enum.
