# Formal specification of the Chalice agent runtime

TLA+ modules, TLC runs and TLAPS proofs for the core of this repository: the durable
runtime in `packages/durable` (task scheduler, conversation runs, JSONL storage, observation),
the in-memory agent in `packages/agent` and the session router in `packages/server`. Paths
below are relative to the repository root.

| Module | What it specifies | Code |
|---|---|---|
| `TaskRecords` | task records and what settling makes of them | `packages/durable/src/types.ts`, `harness/scheduler.ts` |
| `TaskLifecycle` | contract: how commits may change task records | what `TaskScheduler` and `Generation` implement |
| `TaskScheduler` | the scheduler of one Harness over the Session line | `harness/scheduler.ts`, `session/session.ts`, `harness/util.ts` |
| `Turns` | contract: the fate of the requests of a conversation | what `Generation` implements |
| `Generation` | one conversation: submissions, the generation task, `pi.live` | `harness/generation.ts`, `submissions.ts`, `live.ts` |
| `AtomicStorage` | contract: what a Storage backend promises | `packages/durable/src/types.ts` |
| `JsonlStorage` | the JSONL backend: commit, reclamation, recovery | `storage/jsonl/storage.ts`, `storage/memory.ts`, `env/node.ts` |
| `DocumentStream` | contract: what the readers of a document are shown | `packages/durable/src/types.ts` |
| `Observation` | states and watches of a document | `session/observation.ts`, `session/session.ts`, `session/transaction.ts`, `packages/chord/src/services/state.ts` |
| `AgentLoop` | the Agent and its loop: queues, turns, tool batches | `packages/agent/src/agent.ts`, `agent-loop.ts` |
| `SessionRouter` | sessions shared by the clients of a server, removal, shutdown | `packages/server/src/session-router.ts`, `server.ts` |

`MC*.tla` hold values of constants for TLC; `*Proofs.tla` hold theorems and their proofs.
In each module an operator introduced by a comment "Mutant:" is a deliberately wrong
variant of the definition below it. Nothing uses it: it is substituted, one at a time, to
show that the property it belongs to (`mutants` in `PROJECT.json`) can fail.

## 1. Inventory

### Durable runtime (`packages/durable`)

**Session line and commits** (`session/session.ts`, `session/transaction.ts`). State: the
job queue, `#closing`, `#poison`, committed state in Storage. A job runs a callback that
reads committed state and stages writes in a Transaction, then makes one Storage commit and
publishes it. Jobs never overlap; everything outside the line (handlers, registry changes,
`close`) happens between a callback and its commit. Hard: the commit may be rejected, or may
fail without saying whether it happened, which poisons the Session; whatever was read before
the commit may be stale after it.

**Task scheduler** (`harness/scheduler.ts`). State: the mirror `#live` of live records, one
slot and one invocation object per running task, the drain loop (`#draining`, `#dirty`,
`#enabled`), `#failedMigrations`, waiters, invocations to join. Operations: `open`,
`resume`, `submit`, `abort`, `waitForTask`, `waitForIdle`, `#seal`, `join`, and internally
the passes that reserve tasks, the steps of an invocation and the commits of its handler.
Hard: passes, steps, handler commits, aborts and close meet on the line in any order; a
process dies between any two of them; the registry replaces or loses a definition while its
handler executes. Correct when: one handler per task; dependencies, marks and memos survive
restarts; the handler matches the version of its record; a mark stops the run and settles;
no wakeup and no waiter is lost; close completes and nothing outlives it.

**Conversation runs** (`harness/generation.ts`, `submissions.ts`, `live.ts`). State:
submissions and transcript entries, the document `pi.live` (which run owns which inputs, and
what is presented of its generation), the generation task's checkpoint (prepare, request,
retry, poll). Operations: `submit`, `wait`, the phases of the task, the throttled flushes of
a streamed response, the abort handler, `settleSubmission` by a host. Hard: a caller repeats
a request it lost the answer to; a flush is still on the line when the response ends; the
process dies around any commit; the clock is set back between polls. Correct when: each
request is admitted and settled once, one input is open at a time, every open input has a
run and every run ends, and the presentation shows the attempt the task is at.

**JSONL storage** (`storage/jsonl/storage.ts`). State: a main file of markers, a sidecar per
object, the decoded tables. A commit appends to the sidecars, then appends the marker that
publishes it, then reclaims sidecar records that nothing needs. Opening cuts torn tails,
confirms every record a marker names, drops unnamed tails and reclaims. Hard: process death,
power failure and failed file operations at any point of all three. Correct when: it reads
back exactly the committed batches, never calls its own directory corrupt, and does not grow
without need.

**Observation** (`session/observation.ts`). State: per reader the value it was shown last, the
frames that are pending, whether a microtask is queued or a listener runs, and its end. A
reader is a state (Chord replays every frame) or a watch (one asynchronous listener, a
bounded queue). Operations: acquire, publish, start, deliver, stop, cancel, close. Hard:
commits publish while a listener runs, a watch is being acquired or has overflowed; writers
use other versions of the definition; the owner leaves at any moment. Correct when: each
reader sees the committed values in order, from operations that fit what it has, catches
up, and ends once.

**Others.** Memory storage (the tables JSONL storage decodes into; modelled as far as it does),
SQLite storage (one SQL transaction per commit), forks of a Session, the registry of definitions, prompt/context/configuration documents, the execution environment.

### Agent (`packages/agent`)

**Agent and agent loop** (`agent.ts`, `agent-loop.ts`). State: the transcript, the steering
and follow-up queues, the active run and its AbortSignal, `pendingToolCalls`; inside the loop
its own context, the messages it has drained, and the batch of tool calls. Operations:
`prompt`, `continue`, `steer`, `followUp`, clear, `reset`, `abort`; the loop alternates
requests with sequential or parallel batches and polls the queues between turns. Hard:
callers and tools act at every await of the loop; hooks and listeners may throw anywhere.
Correct when: every message handed over is delivered once and in order, every call is
answered in order, both transcripts agree at each request, and every run settles.

**Others.** An earlier harness with its own sessions, compaction and scheduler
(`harness/`), the file mutation queue, a proxy that translates a wire stream.

### Server (`packages/server`)

**Session router** (`session-router.ts`, used by `server.ts`). State: per client a chain of
operations and the attachment its requests are routed to; per session the handle that hosts
it, an opening under way, and the attachments; the clients that are disconnecting. Operations:
attach, detach, call, disconnect, remove, the death of a host, shutdown. Hard: only the
operations of one client exclude each other, and a handle may fail to close; at every await another client, a removal, the
host or the shutdown may change what was checked before. Correct when: a session has one
handle, a route leads to the handle that hosts the session, a lease is kept for admitted
calls and given back after the client has gone, and a shutdown ends with nothing left open but what
could not be closed.

**Others.** Connections, handshakes and transports.

### Around them

`packages/ai` (model providers), `packages/coding-agent` (sessions, modes, extensions API),
`packages/chord` (service calls, replicated state, JSON deltas, facets), `packages/client` and
`protocol` (one connection to a server), `packages/tui`, `codemode`,
`telemetry`, `evals`, `session-backends` (SQLite), and the extensions under `Chalice/`
(UndoRedo, SubAgents, PermissionModes, HashlineEditing, CodeIndex, Memory, and so on).

### How the parts interact

A host calls the Harness. `Submissions.submit` and the scheduler's abort are jobs of the
Session line; so are reservations, steps, and the commits handlers make through their
runtime. After each commit the Session publishes the change, and the scheduler
(`#observe`) and the submissions (`#observe`) update their mirrors and resolve their
waiters from it: this is why the code on the line may read the mirrors instead of Storage.
The generation task is an ordinary task of the scheduler; its handler asks the provider and
commits. A commit ends in `Storage.commit`, which JSONL storage implements over files. The
Agent of `packages/agent` is independent of the durable runtime: it keeps everything in
memory and calls the provider itself. Readers of documents subscribe to the same publications
as the mirrors, and deliver them in microtasks of their own. The server knows sessions only
as handles it opens, leases and closes.

`PROJECT.json` lists every component with its status, and every hazard found so far with the
line where it bites and the properties that watch it.

## 2. Models

### TaskScheduler

A job of the line is split at its commit: the action of its callback fills `staged`; `SettleOk`
or `SettleFails` ends it together with all that awaits it (`Continuation`). In between, any
action that needs no line may happen. A queued job is recorded in the state of whoever
queued it and jobs are served in any order, which includes the code's FIFO order; where the
order matters (a commit queued before or after the step of its own invocation) it is kept
(`out` is `"ahead"` or `"behind"`).

| Variables | Code |
|---|---|
| `durable`, `poisoned`, `job`, `staged` | records in Storage, `#poison`, the job on the line, its Transaction |
| `live`, `slot`, `inv` | `#live`, `#invocations`, the `Invocation` objects |
| `enabled`, `dirty`, `drain`, `stalled` | `#enabled`, `#dirty`, `#draining`; `stalled`: the last pass failed and nothing has woken the loop since |
| `failed`, `registry` | `#failedMigrations`, what the registry resolves |
| `sess`, `closing`, `closePc`, `joined` | the Session's state, how far `close()` is, what `join()` waits for |
| `waiter`, `idler`, `abortPc`, `joins` | callers in `waitForTask`, `waitForIdle`, `abort` |

Actions: `Open` (mirror, and give records left `running` back), `Crash`, `Swap` (registry
change), `Close`, `Join`, `CloseStorage`; `DrainTurn`, `ReserveBegin` and one
`VisitBlocked`/`VisitReserve` per candidate of a pass (with migration and orphaning);
`Start`, `StepEnds`, `StepContinues`, `StepWrites`, `Dispatch`, `HandlerCommit`,
`CommitNothing`, `CommitWrites`, `HandlerReturn`, `Finally` of an invocation; `Create`,
`ResumeCall`, `WaitForTask`, `WaitBegin`, `WaitForIdle`, `AbortTask`, `AbortNothing`,
`AbortMark` of callers; `Refuse`, `SettleOk`, `SettleFails` of the line. A handler is free:
it may commit, memoise, leak a commit it does not await, return, throw, or never come back.
Sleeps and document watches only give a handler a reason to return, so they add nothing to
that freedom; time is not modelled.

### Generation

One conversation, its callers and its generation tasks, over a scheduler reduced to what a
handler can see of it: `Reserve`, `AbortTask`, a gate on commits (`Gated`), stop and reopen.
A provider response is its stop reason and the number of characters it has streamed; the
three numbers of a stream are what has arrived (`text`), what is pending for the next flush
and what is in flight on the line. Simplifications: whether a task's definition is gone is
decided when the process reopens (the scheduler run covers it at any moment, and handover to
a replacement too); cancelling a deferred response is part of the abort handler, since it
changes only the provider; a provider defers only while poll times remain below the bound
`MaxTime`; a rejected commit appears as `HandlerThrows` or `FlushFails`; a caller without a
request id is one with an id of its own. Hosts that append to a busy conversation or create
a generation task of their own break a contract the documentation states
(`packages/durable/docs/pico-v5.md:3007`) and are left out.

### JsonlStorage

Files are sequences of lines with perhaps a torn one. The content of a write is the number of
the `commit()` call that made it, so a record that outlived a failed commit and was mistaken
for a later one would be seen. The operations of a batch on each object are those the transaction
layer can produce. Two writes to one live task in one batch are not made by the Session, but
the backend's own tests do so, and the model does. Every append can be cut short anywhere
(`CutShort`). Where power may be lost, `risk[f]` is what a power failure may leave of a file
instead of what is shown, and a flush empties it. A rename or a removal is taken to be in
order with the flush of the file it concerns; the temporary file of a reclamation is read by
nobody and is folded into `ReplaceSidecar`; an absent file is an empty one. Without fsync
nothing is promised under power loss (`packages/durable/docs/pico-v5.md:2967`), so power is
lost only in settings with fsync, and `JsonlAssumption` says so. The counter that mints ids is
not modelled.

The decoded state of an object is its status and the set of revisions that can be read:
`AppliedToTask` and `AppliedToDocument` are what the memory backend makes of the events of one
commit, and the running backend and recovery share them. Recovery is a step per file
operation (`TrimTorn`, `TruncateTail`) and per round of its loops: `Decode` checks the order of the lines,
`ReplayMarker` confirms the records of one marker and applies what `EventsOf` makes of them,
`ReplayEnds` and `OpenEnds` determine what is cut off and what is reclaimed. `job.pos` counts
the markers replayed. A failure may come between any two of them.

`log` is a history variable: the batches whose marker is in the main file. With it and the
decoded tables the module implements `AtomicStorage` (`ImplementsStorage`), where a
directory that recovery calls corrupt is mapped to a view no contents can equal.

### AgentLoop

A `setting` chosen at the start says how many messages are sent, in which modes queues and
tools run, and what the environment may do. `pc` is the await the loop stands at, and callers and tools act at each of them. Messages are
numbered, so that loss, duplication and reordering show; tool calls are numbered in the order
they are issued. `MessagesAreKept` claims order and delivery at most once always, but that nothing is lost and
that one-at-a-time steering is spaced only as long as nothing throws: what the loop has taken from the queue is
lost with a run that fails (finding 1), and when a listener throws while the failure message is recorded, the next
run polls another message without an assistant message between the two. Not modelled: `declareToolChanges`, a context replaced by a hook, the partial
messages of a stream, and a host that writes the Agent's state directly.

### Observation

Documents are not modelled as trees: the committed values of an incarnation are numbered, and
a frame is a value with either the operations from the value before it, in the shape of one
version of the definition (`exact`), or a replacement. Readers replay what they are handed, and
get `Broken` from operations that do not fit the value and version they have: this is what
handing the operations of a commit to a reader of another version, or dropping the oldest frame of a
full queue, would lead to. `Change` and `Retire` are commits that publish; `Upgrade` is one that
stores the record in a newer version and publishes nothing; `Recreate` begins another
incarnation. `Attach` is the part of `watchDoc` and `documentState` that runs on the line, `HandOver`
the part that runs when the line has answered: in between a commit may publish, the Session
close, the caller be cancelled or its invocation end (the scheduler's `#watchDoc`).
A state takes all pending frames in one microtask, `StateTurn`, and a listener of it may
dispose of it on any of them (`Before(o, k)` is the value the k-th frame meets); a watch calls its listener (`WatchTurn`), which returns or throws
later. The flags of a reader that has ended are reset, since nothing reads them.

### SessionRouter

`queue[c]` is the client's chain of operations, `step[c]` the await its head stands at, `hold`
and `mine` its local variables. `att` are the attachments with their lease and release:
`releaseAttachment` waits for the calls it has seen (`owed`), then for the lease, and is joined by
whoever asks for it again. `handle` are the handles the host has returned, `removal` and `closing`
how far `removeSession` and `close` have got. The host is an environment: it may
refuse to open, to lease, to take a lease back or to close a handle, and a session's host may die at any
moment. `terminated` is optional (`types.ts:54`): a handle may be mute (`mute` in the budget), and one
that is not is told of its end (`Terminated`) before or after `close()` returns. `st` of a handle
says whether it serves, and whether a `close()` of it has failed (`"unclosed"`); it goes on serving then.
A removal gives such a handle up (`RemoveEnds`); the shutdown keeps it hosted and fails (`KeepsHandle`); one
that is acquired while the server drains is left open (`LeavesHandle`). `taken` says whether a removal has given
the handle up; no action reads it.

Two exceptions in the properties are states the code reaches. A removal lists the attachments, then
awaits their release and `close()` (`session-router.ts:77-82`): a client that attaches in between keeps its route to
the handle that was given up, if `terminated` is missing or resolves only after that (`RoutesAreLive`). The
handles of the worker manager refuse clients while they stop (`session-worker-manager.ts:363`) and tell of their end
in time (`:392`); the interface asks neither. And the shutdown reports a late handle it cannot close
(`packages/server/test/conformance.test.ts:479`) only if the acquisition is still under way when the router lists its
openings (`:110`); `Server.close()` refuses clients earlier and awaits listeners and connections in between, so that
`ShutdownEnds` claims a report only of sessions that are still hosted.

A session is taken to be removed by one request at a time (the session service of
`packages/coding-agent/src/experimental/services/server.ts` serialises removals). That service also makes requests to attach wait for one another, so that one of them
may reach the router after its connection was lost: `late` in the budget allows that, and it
has a run of its own (finding 3). Sending a route to its client is part of the step that sets it.

### Contracts

`TaskLifecycle` has one action, a commit that changes each record by one legal change:
created, reserved only when its dependencies have settled (unless marked), given back,
advanced, memoised once, marked, terminated. `TaskScheduler` implements it with `rec <- durable`,
`Generation` with its tasks as records of a single version. `Turns` has one value per
request id (none, open, done, unanswered, written) and admits an input only when none is open; `Generation`
implements it with `turn <- the state of the request's last submission`. `AtomicStorage` has
the log of committed batches and what is read: a commit is whole or absent, and a power failure takes
a tail of the log. What is read is said of the whole log at once (`Amounts`: whether the object has ended,
and the writes that no later one replaces), not applied batch by batch as the backend does. `DocumentStream` has the committed
values per incarnation, what each reader was shown last, and its end: a reader starts at the latest
value, moves forward in its incarnation (a watch either to the next value or over more than the queue
holds), and ends once. `Observation` implements it with `shown` and `end` of each reader.

## 3. Runs

Distinct states are those TLC reports; every run takes less than three minutes with two workers.

| Run | Instance | What it shows | States |
|---|---|---|---|
| `TaskScheduler_failures` | one task, two invocations, two competing memos; a rejected commit, an abort; callers of `waitForTask` and `waitForIdle`, close, reopen | `TypeOK`, `LiveMirrorsDurable`, `WaitersAreServed`, `MarkStopsRun`, `ImplementsLifecycle` | 532,462 |
| `TaskScheduler_chain` | two tasks, the second after the first; a definition and a newer one, two checkpoints, up to their symmetry; one registry change, one crash, one abort | `OneHandlerPerTask`, `HandlerMatchesVersion`, `RunFollowsDependencies`, `AbortReturnsAfterRun`, `NoLostWakeup`, `SchedulerOutcomeWaits` | 1,431,938 |
| `TaskScheduler_ends` | one task with fairness, two checkpoints; an abort, and a definition that is lost or replaced at its own version, or a crash; or close and reopen, leaked commits, a poisoned line | `StorageClosesLast`, `AbortSettles`, `CloseCompletes` | 43,271 |
| `Generation_stream` | one caller with fairness; two characters, one retry, poll times up to 3, two stops, one abort | `TypeOK`, `PresentationMatchesTask`, `TranscriptMatchesRun`, `RunMovesForward`, `PartialIsKept`, `WaitsEnd` | 219,517 |
| `Generation_turns` | three callers, two request ids, one id used as two types; one stop, abort and withdrawal; a definition that may be gone | `RunOwnsOpenInputs`, `PreparedFromTail`, `WaitersSeeOutcome`, `ImplementsTurns`, `ImplementsLifecycle` | 447,194 |
| `JsonlStorage_recovers` | a task and a current-only document, two crashes, no fsync; or a current-only and a rewindable document, fsync, a power failure, a crash; three commits and one failed file operation | `SidecarsStayLean`, `ImplementsStorage` | 450,145 |
| `Observation_readers` | a state or a watch with fairness; two versions, six values, a queue of two | `ImplementsStream`, `ReadersCatchUp`, `WatchesEnd` | 63,043 |
| `AgentLoop_runs` | two requests, two calls, with fairness; three messages, both execution modes, clear, reset, hooks, abort; or two messages, aborts, hooks and listeners that throw | `MessagesAreKept`, `ResultsFollowCalls`, `ContextIsTranscript`, `ContinueIsHonoured`, `RunSettles` | 451,992 |
| `AgentLoop_lost` | two messages, listeners and hooks that throw | violates `SteeringIsKept` (finding 1) | |
| `AgentLoop_stray` | the same, two calls | violates `ExecutingArePending` (finding 2) | |
| `SessionRouter_shares` | two clients, two sessions, up to three attachments and a call, with fairness; fourteen mixtures of losses, detaches, removals, deaths, failures (of `close()` too), mute handles and shutdown | `OneHandle`, `CallsKeepLease`, `RoutesAreLive`, `LossReleases`, `ShutdownEnds` | 244,257 |
| `SessionRouter_late` | one client that is attached after its loss | violates `LossReleases` (finding 3) | |

**Why these bounds.** A second invocation of a task is enough to overlap, replace or outlive
the first, a second task to wait for the first, and a second checkpoint for a handler to make progress,
without which a running task is never handed over to a replacement (`MustHandOver`). Checkpoints are only
compared, so they are interchangeable where no liveness is checked. One event of each
kind at any moment covers each pair of kinds that share a run; a second crash (JSONL) or stop
(Generation) covers a failure during recovery. Two memos are needed to compete, two characters
to have one flushed and one in flight, poll time 3 for a poll after a poll that was itself set back. Three commits are a
write, the base that makes it superfluous and a commit after recovery. Three messages are one to start
a run and two in a queue; two calls are enough for order and for a call beside one
that fails. Six values are one to open at, two to fill the queue, one to overflow it and two to
follow; readers do not act on each other, so one is attached at a time (`OneReader`). Two
clients are enough to share a session, two sessions to switch between, and three attachments to
come back to one; each mixture of the router's budget pairs two or three kinds of events (four where a shutdown meets a
removal and two failures, so that each of them fails to close the handle).
Rejected commits, crashes and a poisoned line are
in separate scheduler runs, as are memos and migrations (an abort is combined with each of a
rejected commit, a crash and a registry change, also under fairness with the last two): their product is out of reach. The
registry starts with either definition, so that one change upgrades, downgrades or loses it. Deadlock is checked in the scheduler runs and not
in the others, where callers, retries and commits are bounded and the system stops when they
are used up.

**Fairness.** Promises settle and microtasks run, so internal steps are weakly fair. The
line serves every queued job but others may come first, so jobs in the scheduler are strongly
fair; of one invocation only that some job of it is served. Storage settles. An abort handler returns and a run handler returns once signalled:
this is the contract of `packages/durable` handlers, and `close` hangs without it. No
unsignalled handler is obliged to return, and no host to submit, abort, close or reopen.
In `Generation` the provider's response ends and a reserved task is run; in `AgentLoop`
the provider answers and hooks and tools return. In `Observation` microtasks run and listeners
return or throw; in `SessionRouter` the host answers, admitted calls end, which its `close`
waits for, and `terminated` resolves where there is one; no failure has to happen. No owner has to leave and no client to ask or to go. `AbortSettles` promises nothing before scheduling is enabled or
once the Session is closed or poisoned: such a Session has to be opened again.

**Findings.** They are disagreements between the code and its documentation, the first two in
`packages/agent` and the third in `packages/server`:

1. `agent.ts:298` says `steer()` queues a message "to be injected after the current assistant
   turn finishes". The loop drains the queue into a local variable (`agent-loop.ts:295`)
   before it awaits `prepareNextTurn` and listeners. When one of them throws, the message is
   neither in the queue nor in the transcript.
2. `types.ts:417` describes `pendingToolCalls` as "Tool call ids currently executing". When a
   listener throws at the end of one call of a parallel batch, `Promise.all`
   (`agent-loop.ts:646`) rejects, the run is settled and the set cleared while other calls
   of the batch still execute, and the Agent is idle beside them.

3. `packages/server/README.md:15` says that losing a connection "releases its attachment
   only after admitted service calls settle". `disconnect()` forgets the lost client when its own
   operation is over (`session-router.ts:99`). A request to attach that was waiting behind
   other session mutations (`services/server.ts:104`) and reaches the router only then attaches the
   lost client; nobody releases that lease before the session is removed or the server closes.

## 4. Proofs

All theorems hold for every value of the constants, under the assumptions named in the
modules (`SchedulerAssumption`, `RecordAssumption` and so on: sets are disjoint from their
"none" values, budgets are natural numbers). They are conventions about names, and restrict
no behaviour of the code, with one exception: the power fails only under a store with fsync, since
nothing is promised of one without. TLC evaluates them in the runs.

* `TaskSchedulerProofs`: `Inductive` (`Spec => []IInv`), `TypeCorrect`, `NoTwoHandlers`.
  `IInv` is `TypeOK` with `TodoIsFree` (a pass has still to visit only live tasks that nothing
  holds), `ObjectsHaveTasks` and `SlotsAreHeld` (an invocation with a handler still before it
  has not ended and holds the slot of its task). `OneHandlerPerTask` is not inductive: a
  state with one handler executing and another invocation of the task about to dispatch satisfies it.
  With `SlotsAreHeld` both would hold the one slot. Type correctness needs the slot part as well:
  a step rewrites the record of the task its invocation holds. The proof has one step per action.
* The second part of `TaskSchedulerProofs`, on what the scheduler commits. `CommitsInductive` is `Spec => []CInv`, where
  `CInv` adds to `IInv` what is on the line (`LineInv`) and what that means for the records
  (`RecordInv`). `LineInv`: whoever has not ended holds the slot of its task and nobody else
  does, nothing is staged without a job, only a reservation visits tasks, a process that opens has
  nothing but its first job. `RecordInv`: the mirror is exact while the Session is healthy
  (`Mirror`), what a job has staged for a record is a change `TaskLifecycle` allows
  (`StagedLegal`), a record has dependencies that settled before it started (`DepsInv`), the
  holder of a task fits the record as it will be once the staged writes land (`HoldersInv`), and
  a runtime commit on the line got past the mark (`CommitGated`). The hard part is `HoldersInv`: between
  a callback and its commit the scheduler has two versions of the truth, and an invocation
  must fit whichever the commit leaves. From it follow `MirrorIsExact`, `VersionsMatch`,
  `DependenciesFirst`, `MarksStopRuns`, `OutcomesWait` and `LifecycleImplemented`
  (`Spec => ImplementsLifecycle`), so that the theorems about the contract below hold of the scheduler.
  The proof sorts the actions by what they do to the line (`Kinds`): quiet ones
  leave it alone, some put a job on it, some visit a task, the job settles, a process opens or dies.
  The last part, on what callers are promised, has one invariant over `CInv` each: `WaitersServed`,
  with nothing added; `AbortsReturnLast` with `AbortInv` (the abort on the line has seen the only run of
  its task, and after its commit `abort()` joins that run or none is left); `StorageLast`
  with `CloseInv` (what is active is joined, and nothing is left on the line when `close` is done);
  `WakeupsArrive` with `WakeInv` (a reservation belongs to the pass that asked for it, and it has
  read the present registry unless a wakeup has come since).
* `TaskLifecycleProofs`: `TerminalReceipts` (a terminal record never changes),
  `MarksAndVersionsGrow` (marks, records and versions are never lost). They hold of the
  contract, and so of the scheduler by `LifecycleImplemented` and of a conversation's tasks by
  `TasksImplementLifecycle`.
* `GenerationProofs`: every safety property of `Generation`. `TurnsAreImplemented` (`Spec =>
  ImplementsTurns`) needs `TurnInv` only: there is one submission per request id, the run owns every
  open one and has taken at most one. Each action leaves submissions and run alone, adds one
  submission, or settles some, and each of these maps to a step of `Turns` or to a stutter.
  The rest rests on `GenInductive` (`Spec => []GenInv`), with one lemma or more per part of `GenInv`:
  the live task is the run's (`LiveIsRun`), checkpoints stay within the policy (`TasksOK`), the
  invocation holds the run's task and an abort handler a marked one (`HoldsRun`), where the handler
  is fits the phase it has committed (`PhaseOK`), and what `streamResponse()` has committed, has on
  the line and has pending are prefixes of the response in this order (`StreamOK`).
  `PresentationMatchesTask` and `PartialIsKept` need the last two: a flush lands only in the phase
  that asked for it, and never shows less than what is there. From `GenInv` follow `TypesHold`,
  `RunOwnsInputs`, `PresentationFits`, `PreparesFromTail`, `WaitersAreTold`, `RunsMoveForward`,
  `PartialsAreKept` and `TasksImplementLifecycle`; the last also says that no task is missing
  from the mapping. `TranscriptFits` adds `RunTranscript` and `Answered`: to count the error entries a
  run has left, one must know that only its own steps append while it lasts, and to place an
  answer, that no user entry has followed the input so far.
  `OneInputAtATime` and `ReceiptsAreFinal` are the promises of `Turns` itself, an input at a time and
  fates that are final; they are proved of the contract and stated of the conversation, by the refinement.
* `SessionRouterProofs`: `SessionHasOneHandle` (`Spec => []OneHandle`). That no second handle is
  opened rests on two maps: `HostInv` adds that an open handle is the one its session
  is hosted by (`OpenIsHosted`), that a handle a draining server closes at once keeps its
  opening pending (`ClosingIsOpening`), and that a session being opened is not hosted
  (`OpeningIsNotHosted`). A handle whose `close()` has failed is outside the claim: a removal gives it up while it
serves. Every action that changes handles or maps has a lemma.
  `RouterInductive` (`Spec => []RouterInv`) goes on from handles to the operations of clients:
  the attachment of an operation is its client's and waits for its lease while the operation does
  (`OwnsMine`), how far a release has come fits where the lease is (`Stages`), and a release
  waits for every call there is and keeps others out (`CallsInv`). From it follow `RoutesStayLive`
  (`Spec => []RoutesAreLive`, which excepts handles a removal has given up) and `LeasesOutlastCalls` (`Spec => []CallsKeepLease`). The proof
  says once what any step does to one client, one attachment, one route and one host
  (`EveryMove`), and derives each part of the invariant from these moves.
* `DocumentStreamProofs`: `OnlyCommitted` (a reader has a committed value of its incarnation),
  `EndsAreFinal` (nothing is shown after the end), `OneIncarnation` (a reader stays with its
  incarnation and is not taken back), of the contract, and so of observation by `StreamImplemented`.
* `ObservationProofs`: `StreamImplemented` (`Spec => ImplementsStream`). The refinement mapping forgets what is
  pending, so the proof needs an invariant about it, `ObservationInv` (`ObservationInductive`): the frames of
  a reader lead from the value it has, one value at a time or by one replacement for a watch that is too
  far behind, to the newest value of its incarnation; operations fit the version of the value they
  change; and the version a reader observes is that of the newest value it was promised. A change
  of version, which publishes nothing, is why the last is needed: the next frame is then a replacement. Each
  action leaves a reader quiet, opens it, makes it see a later value, or lets it leave (`Moves`), and
  each of these is a step of `DocumentStream` or a stutter.
* `AgentLoopProofs`: `BaseInductive` (`Spec => []BaseInv`): the loop holds messages only between the
  poll that took them and their delivery, and while a batch is under way the Agent's transcript
  is the loop's context with the results shown so far, elsewhere the context itself. From
  it follows `TranscriptsAgree` (of runs in which no hook replaces the context). `ResultsStandByCalls` adds to it that every result is placed behind
  its call (`Placed`) and that earlier calls of the run are answered (`AnsweredInv`): calls may finish in any
  order, so the place of the next result has to be known before it is shown. `MessagesDelivered` adds `KeepInv`: messages
  are numbered in the order they were sent, the trail from transcript over what the loop holds to each queue rises
  (`OrderInv`), nothing has left both trails unless it was cleared (`KeptInv`), and before steering is polled
  again an assistant message has followed the last one (`SpacedInv`). Each action appends to one end,
  passes messages on, or clears a queue, and the trails are taken apart accordingly.
* `JsonlStorageProofs`: `StorageInductive` (`Spec => []StorageInv`), for any number of objects,
  commits and failures. Whatever a crash or a power failure does, the next state consists
  of one of the versions each file may have (`Versions`: what is shown and what is at risk), and no two
  files need to be of the same time. So `StorageInv` speaks of all of them: the markers of every
  version of the main file are a prefix of the log (`MainOK`), and every version of a sidecar is
  `Sound` for each of these prefixes (`SidecarsOK`): its lines are in order, those that are named are
  as they were written and come first, and what is missing is not needed. That a marker is written only
  when the sidecars are flushed, and a sidecar reclaimed only when the main file is, keeps this: otherwise one
  pair of versions would not fit. The rest is progress: what the commit under way has appended and flushed
  (`WritingOK`), that what a reclamation puts in place is complete (`ReclaimingOK`), what recovery
  has still to cut (`OpeningOK`), and what is decoded (`MemOK`). What a log says of an object is `Value`; it is
  told as a whole, as the contract does, and lemmas show how one more batch changes it (`ValueStep`) and
  that it is what the contract reads (`Amounted`). While markers are replayed the
  decoded object need not be the value of the prefix replayed so far: a record that a later marker makes
  superfluous may have gone, and recovery puts an empty base in its place. `Replayed` states
  what holds until then, and `Awaits` that such a marker is still to come.
  From `StorageInv` follow `NeverCorrupt` (none of the corruption errors of `recover()` is met) and
  `StorageImplemented` (`Spec => ImplementsStorage`). `SidecarsLean` adds `LeanInv`: once what is under
  way is done (`Ahead`, `LogAhead`) each sidecar holds what is readable and nothing else; of
  recovery it needs nothing but `StorageInv`, since `Needed` computes it afresh.

Only model-checked: liveness (`AbortSettles`, `CloseCompletes`, `WaitsEnd`, `RunSettles`,
`ContinueIsHonoured`, `ReadersCatchUp`, `WatchesEnd`, `LossReleases`, `ShutdownEnds`), which is beyond this prover.
Every other property of a passing run is a theorem.

## 5. Not modelled

SQLite storage relies on the atomicity of SQL transactions. `packages/ai` is an external
service with any answer. Terminal, rendering, network and
text algorithms (`tui`, `codemode`, HashlineEditing, CodeIndex, WebAccess) have no state
shared between actors. Chord deltas are a sequential algorithm on JSON trees. The earlier
harness under `packages/agent/src/harness` is replaced by `packages/durable`. The remaining
stateful parts are in the plan.

## 6. Plan

Done: the scheduler and its contract, conversation runs and theirs, JSONL storage and its
contract, observation and its contract, the agent loop, the session router.

Next models, in order:

1. `AgentLoop`: `declareToolChanges` and contexts replaced by hooks; an abstract
   `MessageDelivery` (a message is queued, delivered or forgotten) that it implements.
2. Compaction inside `prepareNextTurn` (`packages/coding-agent/src/core/agent-session.ts`),
   composed with the loop.
3. `UndoRedo` (`Chalice/UndoRedo/index.ts`): snapshots and the conversation tree in step.
4. Worker demand and adoption (`experimental/session-worker-manager.ts`) as the host of
   `SessionRouter`; then service calls and subscriptions of `packages/chord`.
5. Batches of registrations (`harness/registry.ts`) as the environment of `TaskScheduler`.

The runs stay few: settings that ask the same properties of different environments are
initial states of one run (budgets and `setting` are variables) and not runs of their own.

Every safety invariant, action property and refinement that a run checks is proved.
Next proofs, in order: that `AgentLoop` implements `MessageDelivery` once that is written; the exclusion of
one session's removal and its opening in `SessionRouter` as a contract of its own; and what the
models of the list above will claim.
