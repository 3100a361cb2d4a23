# Octoscript: TLA+ models and proofs

Octoscript is a capability-first script runtime. Scripts reach the outside
world only through tools a trusted Rust host grants; tools run in the host, in a
separate worker process, or as durable operations with a journal; and a workflow
engine strings scripts together with approvals, checkpoints and an operation
ledger. This directory holds TLA+ models of the parts where concurrency,
failures and ordering decide correctness, the TLC configurations that check them
on small instances, and TLAPS proofs for every instance.

Check a configuration with `tlc -config X.cfg MCModule`, a proof module with
`tlapm Module.tla`. Paths below are relative to `src/crates/`.
A leaf that needs no arithmetic cites `Zenon`: tlapm's SMT translation slows
down with every obligation it has already translated, and a module proved
mostly by Zenon is checked several times faster.

## 1. The system

| Part | State | Operations | What makes it hard |
|---|---|---|---|
| Storage (`octoscript-storage`: `lib.rs`, `sqlite.rs`) | SQLite rows (revision, commitment, sealed payload); a rollback anchor (revision, commitment, fence) kept elsewhere | load, create/replace, reserve and establish a fence, fenced write, candidate recovery | a call is several accesses to two stores; crashes between them, lost anchor answers, restored files, stale lease holders |
| Remote anchor (`rollback_anchor_service.rs`, `https_rollback_anchor.rs`) | the anchor; the client's newest observed state | load, compare-and-swap over authenticated requests | lost answers, older answers |
| Key storage (`platform_keyring.rs`) | none of its own: a fixed list of keyring entries | load | nothing changes; not modelled |
| Worker protocol (`octoscript-protocol`) | sequence numbers; request identities and budgets; operation journal | seal, open; authorize, validate; admit, observe | duplicated, reordered and reflected frames; identities that run out |
| Worker session (`octoscript-worker/src/lib.rs`) | journal copy, revision, lease, budgets, poisoned flag | open; dispatch, compensate, reconcile | crash between effect and record, superseded sessions, resent requests |
| Cancellable driver (`octoscript-worker/src/cancellable.rs`) | active call, read permits, adapter thread | invoke, cancel, finish, close | three threads, crossing cancellation and result |
| Multiplexed host (`octoscript-capabilities/src/multiplexed_worker.rs`) | coordinator state, event queue, bindings, supervision | start, cancel, poll, close, drop | the same crossings seen from the host, plus the watchdog |
| Capability runtime (`octoscript-capabilities/src/lib.rs`, `octoscript-core/src/lib.rs`) | catalog, leases, budgets, pending promises, VM status | register, lease, evaluate, start, await, pump, claim, complete, cancel, retry, stream, expire, collect | host callbacks in any order, deadlines, promises dropped by the collector |
| Audit trail, workflow events, telemetry | bounded rings, cursors, durable journals | record, export, append, trim | cursors overtaken by eviction, retried appends |
| Workflow engine and ledger (`octoscript-workflow/src/lib.rs`) | plans, approvals, suspended steps, checkpoints, operation records | plan, approve, execute, resume, complete, record, compensate, reconcile | suspension across leases, crash between record and effect |
| Bubblewrap recovery (`bubblewrap_recovery.rs`) | the ledger in the fenced store, a fresh worker | prepare under a fresh fence, one reconciliation exchange, fenced write | a second recovery, a worker that never answers |
| Bounded workers, Bubblewrap, cgroups (`bounded_worker.rs`, `bubblewrap_watchdog.rs`, `bubblewrap.rs`, `cgroup_v2.rs`) | supervised child with its process tree and cgroup, watchdog state, command queue | dispatch, arm, finish, terminate, shut down | result, deadline and stop arriving together; a kill or a clean-up that fails |
| Language profile, schemas, UI profile, LSP, CLI, adapters | mostly pure functions or I/O | | not concurrent; see section 7 |

They interact in layers. The workflow engine drives the capability runtime; the
runtime's external calls are carried out by worker sessions reached through
authenticated frames; worker journals, ledgers and event journals are records of
the authenticated store, which workers and recovery write under a fence.
`PROJECT.json` lists every component with its status and the hazards at their
lines.

## 2. Modules

| Module | Models | Actions |
|---|---|---|
| `FencedStore` | `VolatileMemoryStore`: what a fenced store promises | one atomic action per operation |
| `FencedHistory` | the same with the history of its writes: the specification `AnchoredStore` implements | |
| `AnchoredStore` | `AnchoredSqliteStore` under `AuthenticatedStore` | one action per access to SQLite or to the anchor, named after the code between two accesses; failures, lost replies, crashes and restored files |
| `WorkerSession` | `WorkerSession` and `WorkerOperationJournal` over a fenced store | open, each request, each persist step, adapter calls, late effects, process death |
| `CapabilityRuntime` | `CapabilityRuntime`, `CapabilityHost`, the VM as idle, running or paused | one action per public operation |
| `SessionAuthorizer` | `SessionAuthorizer` as operators on a record | used by both ends of `MultiplexedWorker` |
| `MultiplexedWorker` | supervised session, coordinator, pipes, cancellable driver and adapter, composed | one action per event a thread handles |
| `SessionFrames` | sealer and opener of both ends over an arbitrary transport | `seal`, `open` |
| `SupervisedWorker` | `ProtocolWorkerClient` over `BoundedWorkerTransport` and the frames of `SessionFrames`, the Bubblewrap watchdog thread, a `BubblewrapWorkerControl`, the worker's processes, the clock | one action per command the watchdog handles, per answer the client waits for, per frame, per deadline |
| `EventRing` | the bounded views of workflow events, audit events and merged telemetry, as operators on a record | |
| `EventJournal` | `WorkflowEventJournal`, `CapabilityAuditJournal` and `CrossStreamTelemetryJournal` as operators: append, ingest, evict, validate | |
| `EventExport` | exporter tasks between views and journals: the three stores and the in-memory aggregator | record, clear, resize; export, load, write, conflict, failure; resynchronise, open a segment |
| `WorkflowEngine` | plan, approvals, leases of the steps, execution, suspension, checkpoint, resumption | one action per engine call; the loop over steps of an execution is unrolled |
| `OperationLedger` | `WorkflowOperationLedger` as operators, each beside its refusal | |
| `DurableWorkflow` | a host that runs `WorkflowEngine` with the ledger of `OperationLedger` in a `FencedStore`, the worker, and `recover_bubblewrap_operation` in other processes | prepare, persist, claim, dispatch, observe, complete, time out, compensate, restart, recover |
| `AnchoredStoreProofs` | theorems about `AnchoredStore` | |
| `WorkerSessionProofs` | theorems about `WorkerSession` | |
| `CapabilityRuntimeProofs` | theorems about `CapabilityRuntime` | |
| `SupervisedWorkerProofs` | theorems about `SessionFrames` and `SupervisedWorker` | |
| `MultiplexedWorkerInvariant`, `MultiplexedWorkerProofs` | the inductive invariant of `MultiplexedWorker`, and the theorems | |
| `WorkflowEngineProofs`, `DurableWorkflowProofs` | theorems about `WorkflowEngine` and `DurableWorkflow` | |
| `MC*` | instances for TLC | |

Operators whose comment calls them a variant are plausible programming errors,
defined beside the definition they distort. No specification uses them; they
serve to show that a property notices the error.

### How the modules compose

`SupervisedWorker` extends `SessionFrames` and uses its `seal` and `open`.
`DurableWorkflow` extends `WorkflowEngine` and `OperationLedger`, and its ledger
record is an instance of `FencedStore`, the module `AnchoredStore` is shown to
implement; its worker is what `WorkerSession` promises (one effect per key, a
terminal state that stays). `EventExport` extends `EventJournal`, which extends
`EventRing`; its store is an atomic compare-and-swap slot per record, which is
what `FencedStore` promises to a writer without a lease. `WorkerSession` has its
journal in an instance of `FencedStore`.
`MultiplexedWorker` uses `SessionAuthorizer` at both ends.

### Abstractions

* One record key and one active authentication key in `AnchoredStore`. `seal`
  uses no nonce, so a sealed record is determined by key, revision and payload,
  and a commitment is the payload it commits to. After a rotation of the active
  key the same payload would seal differently; rotation is not modelled.
* Hashes and tags are injective: a tag is the record of what it was computed
  from, and arriving frames carry tags some endpoint computed.
* Time is an action that lets a deadline pass, or a watchdog that fires, at any
  moment.
* `WorkerSession`: an adapter that reports failure for a key its provider has
  not seen refuses that key from then on. Without that, a recorded failure says
  nothing about the future, whatever the session does.
* `MultiplexedWorker`: the caller asks for cancellation at most once per call.
* `SupervisedWorker`: the reasons a watchdog gives for a termination are one.
  Without a cgroup only the direct child is claimed to be reaped; what it started
  ends after it (`--die-with-parent` in a process namespace of its own). A
  termination fails by one system call at a time. A call is late when its
  deadline has passed at the watchdog's last look before it handles the command;
  the few instructions between the look and the handling are one step with it.
  An early wake-up of the
  watchdog's timed wait, and a command channel whose other end has disappeared
  without a shutdown, are left out.
* `EventExport`: the encoded size of a journal is a weight per event.
* `WorkflowEngine`: a script is a choice of what it starts, awaits and returns.
  Calls of local tools end inside the evaluation. The branch that would drop a
  suspended execution after a runtime error on completion cannot be reached and
  is left out.
* `DurableWorkflow` fixes what the code leaves to the host. The ledger is stored
  before it changes again; a call is claimed only once its record is stored; a
  compensation is decided between executions, with no call claimed; a resumption
  starts from the stored checkpoint; the host writes under a lease it reserves
  when it loads the ledger. Evaluations the host holds, pending approvals,
  refused steps and soft pauses are explored in `WorkflowEngine` only.
* Fault branches that are unreachable are kept as the ELSE of a condition and
  recorded in a flag, which `NoProtocolFault` then speaks of.

## 3. Runs

State counts are distinct states with the constants of the configuration.

| Run | Question | Result |
|---|---|---|
| `anchored_store` | two processes load, write with and without leases, reserve fences and recover, with failures and crashes anywhere: are the invariants kept, and is every step one of the abstract store? | holds, 585,817 states |
| `anchored_store_restore` | the host puts an older SQLite file back; leases come from an outside authority, so `establish_fence` races | holds, 750,948 states |
| `anchored_store_external_recovery` | leases from outside together with candidate recovery | violated, see section 6 |
| `worker_session` | two worker processes, one superseded, requests resent, store failures, deaths; two keys in a journal for one record; leases from `reserve_fence` or from outside | holds, 206,129 states |
| `capability_runtime` | local and external promises resolved, cancelled, retried, expired and collected in every order; three promises for two places; a soft time budget; does a suspended evaluation resume? | holds, 395,129 states |
| `capability_runtime_soft_timeout` | the default soft and hard budgets | violated, see section 6 |
| `multiplexed_worker` | up to four calls, three allowed, five request identities, with and without supervisor; does every call end? | holds, 33,675 states |
| `multiplexed_worker_result` | one supervised call: is a delivered result kept when a cancellation crosses it? | violated, see section 6 |
| `supervised_worker` | client, watchdog, control handle, processes, frames and clock, with terminations that fail; does supervision end? | holds, 137,637 states |
| `event_export` | two exporters, four kinds of store, through conflicts, lost answers, cleared and resized views; do the exporters catch up? | holds, 171,735 states |
| `workflow_engine` | plans run, suspended, paused by the soft time budget, continued, checkpointed and resumed under shared or per-step leases; does a suspension end? | holds, 410,552 states |
| `durable_workflow` | a host with durable operations prepared, dispatched, observed late, timed out and compensated, across crashes and beside recoveries by other processes | holds, 1,115,378 states |

What each property means is stated above its definition. The ones that carry
most weight:

* Storage: `ImplementsFencedStore` (refinement of `FencedHistory` with the
  anchor's revision, payload and fence as the abstract record and the committed
  writes, with their writers' tokens, as its history), `CommittedRowPresent`,
  `MissingMeansMoved`, `AnswersAreDefinite`.
* Worker session: `EffectAtMostOnce`, `IntentBeforeEffect`,
  `ResponsesAreDurable`, `JournalIsTruthful`.
* Capability runtime: `OneOutcomePerCall`, `PromisesAccountedFor`,
  `DeadlineDecides`, `LeaseSpansEvaluation`, `SuspendedResumes`.
* Multiplexed worker: `NoProtocolFault`, `OutcomeIsTruthful`,
  `NoDetachedEffect`, `CallsEnd`.
* Supervised worker: `StoppedMeansGone` (a worker reported stopped is reaped and
  its cgroup empty), `StoppedCallRefused` (no late or stopped call returns its
  result), `SupervisionEnds`, and `DeliversInOrder` of its frames.
* Telemetry: `AcknowledgedIsStored`, `AggregateOrderSettled`,
  `TimelineIsComplete` (every event below a source's cursor is retained, counted
  as dropped or cleared with the view, once, and a source's retained records
  have no hole up to its cursor), `ExportersCatchUp`.
* Workflows: `LeaseFitsStep`, `NoStepSkipped`, `QueuedCallsAreCurrent`,
  `SuspensionEnds`; with a ledger `StoredOutcomeIsFinal`,
  `OutcomeStopsDispatch` (once an outcome is in storage, the holder of the
  ledger's lease sends no frame for the operation, whoever stored it),
  `DispatchServesCurrentCall`, `CompensationIsDecided`.

Five things the runs made plain, which no document of the repository denies:
`WorkflowEventStore` has no way to start a segment, so a workflow stream whose
view has overtaken its exporter cannot continue (`GapRemains`); an external call
that was claimed and that no script awaits can outlive its step and its
execution, and then only the runtime's own calls settle it; a watchdog whose
termination has failed does not try again by itself, only when it is asked, so
`SupervisionEnds` stops at that state; a workflow step that the soft time budget
pauses stays suspended, because `drive_step` takes the pause for a promise and
nothing settles it, so `SuspensionEnds` stops there (`SoftPaused`; section 6 has
the pause itself); and a host whose lease a recovery took over may still dispatch
from the copy of the ledger it has, which the worker answers from its journal and
the host can no longer store, so `OutcomeStopsDispatch` speaks of the holder of
the lease.

### Bounds

Where a configuration stands for several, the choice is made in Init and kept in
a variable: the limits of `CapabilityRuntime`, where the leases of
`WorkerSession` come from, the kind of store in `EventExport`, mode, leasing and
soft time budget in `WorkflowEngine`, the scope of `DurableWorkflow`, cgroup and session deadline
in `SupervisedWorker`.

* Storage: two processes make every two-party race possible. Two revisions let a
  writer be overtaken by a commit and let the revisions run out; two fences (one
  in the restore run, to keep it small) do the same for leases. One pending
  candidate makes the candidate limit bite. The theorems remove these bounds,
  and cover what no passing run combines: several outside tokens, and recovery
  after a restored file.
* Worker session: a request writes its admission and its observation, so four
  revisions are two requests, by one session or by two; a second fence supersedes
  the first session.
* Capability runtime: three promises for two places make the pending limit bite;
  two attempts and one chunk reach the retry and streaming limits; the four
  configurations of limits have them one at a time. The lease
  grants one call of the remote tool and none of the local one.
* Multiplexed worker: four requests exceed the three calls a manifest grants,
  and five identities, shared by calls and cancellations, run out before three
  calls with their cancellations.
* Supervised worker: numbers stop at 3. The session's first frame leaves one
  for a call, and a second call finds none; two system calls may fail, one in a
  termination and one in its retry; the control handle asks once.
* Telemetry: four workflow events and three audit events pass both a view of one
  or two and a journal of two, and the four reach the last cursor; two events of
  each of two merged sources pass a journal and an aggregator of two and come to
  the end of the merged numbers; two attempts make a conflict end a call; two
  segments let one gap be recorded and a second not.
* Workflow engine: three steps have a first, an inner and a last one; two
  engines are one restart; two approvals are an execution and a resumption, or a
  stale approval.
* Durable workflow: the operations of two steps. A host alone has a compensation
  and two executions or two calls; beside recoveries it executes once, with two
  of them or with one and a compensation, or twice with one. The soft time budget
  is left to the engine's run. No behaviour needs a thirteenth revision or a
  fifth fence.

Processes and payloads, workers and identities are permuted where a
configuration says so: no definition names one. Runs with a liveness property use
no symmetry.
Deadlock is not checked: bounded counters run out, callers may close, and
processes may die.

### Fairness

* `CapabilityRuntime`: the host's event loop pumps, claims and completes calls;
  nothing about deadlines, retries or cancellation.
* `MultiplexedWorker`: the coordinator and driver threads run, the adapter
  returns, and the host polls. The watchdog is not relied on.
* `SupervisedWorker`: the watchdog thread runs, a client that has been answered
  goes on, deadlines pass, and what a dead child started ends. A write or a read
  on the pipes is only sure to return when no process holds the other end. The
  worker is not relied on to read, to answer or to exit.
* `EventExport`: an exporter with something to do goes on, and its host reloads
  the cursor after an error. Weak fairness of an exporter is stated over its own
  state, which each of its steps changes. Storage errors are bounded, and sources fall silent.
* `WorkflowEngine`: an execution that runs advances; the host claims queued
  calls, settles one that is awaited, and continues a suspended execution. No
  deadline is relied on.

Threads are scheduled by the operating system; pumping, polling, settling and an
adapter that returns are what the code asks of its embedding, and without them
no call can end. The other modules have no liveness properties.

## 4. Proofs

### Storage

`AnchoredStoreProofs` proves for any processes, payloads and bounds: `TypeCorrect`, `AnchorNeverGoesBack`,
`StaleWritersShutOut`, `CommitTokensNeverGoDown`, `Refinement`, `LoadsCorrect`,
`AnswersCorrect`, `RowsStayFew`; and, when recovery is not combined with an
outside lease authority (`OneTokenSource`), `LeasesDistinct`,
`CommittedPayloadSafe`, `MissingExplained`. It rests on
`AnchoredStoreAssumption` only. What `AnchorNeverGoesBack`,
`StaleWritersShutOut` and `CommitTokensNeverGoDown` state follows from the
refinement and has no run of its own.

The argument is layered, each layer inductive relative to the ones before it:

1. `ShapeInv`: types, and what each phase of a call implies about its arguments.
   It gives the refinement and the action properties, because each
   compare-and-swap of the anchor compares the whole state.
2. `HistoryInv`: the anchor, and what any process saw of it, are states of the
   history. With it `ReportInv` covers every answer, restored files included,
   because rows are looked up by commitment.
3. `LeaseInv`: tokens are below the anchor's fence and distinct, and a process in
   recovery holds the newest one, so the anchor it saw is still current. This is
   the step that needs `OneTokenSource`; the violated run shows why.
4. `RowInv`: a writer about to win the compare-and-swap still has its row.
   Neither pruning nor recovery can delete it, hence the committed row stays.
5. `TokensLogged`: no token of the history is above the current fence.
6. `RoomInv`: the file and its copy have few rows. After pruning, a row is a
   pending candidate or the committed one, so the limit on the former bounds all
   of them.

### Frames

The first part of `SupervisedWorkerProofs` proves `PrefixDelivered` and
`NumbersFresh` for any sessions, messages and last number. `FrameInv` says that every sealed frame is
the one its sender's history has at that number, and that counters are one more
than the lengths of the histories. Of these only `DeliversInOrder` is also
model-checked, in the supervised session.

### Supervised worker

`SupervisedWorkerProofs` proves `StoppedIsGone`, `StoppedNeverAccepted` and
`SupervisedDelivery` for any number of calls, failing system calls and stops,
from `SupervisedWorkerAssumption`. Neither of the first two is inductive: that the
worker is gone is known to the watchdog before the host hears of it, and that a
call is late is known before the watchdog looks. `SupervisedInv` has one part for
each place the knowledge passes through:

* `WorkerInv`: a cgroup is forgotten only when nothing is left in it. The lemma
  `TerminationEnds` says what one `terminate_and_reap` does under any failure.
* `DogInv`: a watchdog that says terminated has a worker that is gone.
* `QueueInv`: the client has at most one command in the queue, the one its phase
  waits for, so an answer always belongs to the question; the control handle's
  commands go between them and are answered elsewhere.
* `HostInv`: what the host has been told is true.
* `CallInv`: an armed call that is late makes `Expired` true, so the watchdog
  terminates before it answers; a call answered as completed is neither late nor
  stopped and is no longer armed.

`FrameSteps` shows that every step of the supervised session is a step or a
stutter of `SessionFrames`, so its invariant carries over.

### Multiplexed worker

`MultiplexedWorkerProofs` proves `DriversAgree`, `OutcomesAreTrue` and
`EffectsAreAttended` for any number of calls and any budget of calls and
identities, from `MultiplexedWorkerAssumption` and
`SessionAuthorizerAssumption`. Whether a driver may accept a frame depends on
where the other driver was when it sent it and on everything sent since, so none
of them is inductive. `MultiplexedInv` speaks of the sets of frames under way in
each direction, in a pipe or in the queue behind it, and of the adapter's return:

* `QueueInv`: a line holds a frame at most once, one frame is read at a time,
  and the first frame of a call comes before the second. That is all the order of
  a queue matters for; the lemmas on queues turn it into facts about sets.
* `WorkerInv` and `HostInv`: which frames may be on their way to a side, given
  its active call, its cancellation and its authorizer's books. Every frame under
  way would be admitted by the authorizer that will see it.
* `BetweenInv`: while both run, the host's authorizer has seen what the worker's
  has and what is still under way, and their states fit: the same active call
  with nothing upward, a call not yet read, an answer not yet read, or a late
  cancellation crossing a result. This makes an accepted cancellation of a call
  that is over answerable as too late.
* `CallerInv`: the command a coordinator handles is the one its caller waits
  for, a call in the coordinator's hands belongs to a caller that waits for it or
  has given up, and what the watchdog ended is never settled.
* `TruthInv`: results, dispositions and the adapter's returns under way say what
  happened to the effect.

`MultiplexedWorkerInvariant` has the invariant, its base case and the proofs that
every step keeps types, `CallerInv` and `TruthInv`; `MultiplexedWorkerProofs` has
those for the protocol, one per action of the caller, the coordinator, the
driver and the adapter. A step of the caller, a command taken, a process killed
and a failed session are quiet: what they leave under way is a part of what was.

### Workflow engine

`WorkflowEngineProofs` proves `LeasesAlwaysFit`, `NoStepIsSkipped`,
`SnapshotAlwaysFits` and `QueueIsAlwaysCurrent` for plans of any length and any
number of calls, engines and approvals, from `EngineAssumption`. What a step runs
under depends on approvals issued and checkpoints stored earlier, so `EngineInv`
says what each of these carries (`TokensInv`), what an execution under way and
the last one left behind (`ProgressInv`), and which call a suspended script
awaits and which evaluation the host may hold (`CallsInv`).

### Durable workflow

`DurableWorkflowProofs` proves `StoredOutcomesAreFinal`,
`CompensationsAreDecided`, `OutcomesStopDispatch`, `DispatchesServeCurrentCalls`
and `EngineKeepsItsPromise` for plans of any length and any number of calls,
engines, executions and recoveries, from `EngineAssumption` and
`DurableWorkflowAssumption` (the worker's outcomes are terminal states). Its
invariant `DurableInv` has these parts:

* `EngineInv`, carried over: the host's launches and settlements are steps the
  engine's lemmas cover, a launch from a checkpoint because the checkpoint was
  earned.
* `StoreInv` and `RecoveryInv`: every ledger in memory, in storage or in the
  hands of a recovery is truthful about the worker, and each was taken from a
  revision that is either still the stored one or has been replaced. A write
  that the store accepts therefore starts from the stored ledger, and what it
  stores is `Later` than it: nothing recorded, decided or ended is undone. That
  two processes write one record needs no more than this.
* `DecidedInv`: a compensation that is approved or was asked for is decided in
  storage.
* `CallIdsInv` and `TokenInv`: an engine never uses a call identifier twice, so a
  token whose engine is alive names the call it was made for or none, and a
  claimed one has its operation in storage.

`OutcomesStopDispatch` needs one part more, `LeaseInv`, inductive beside
`DurableInv`: a recovery that may still write holds a token that is not the
host's, so its write is accepted only when the host's lease is no longer the
newest; hence whoever holds the newest lease has what is stored, and its copy of
the ledger, which goes on from that, already knows every stored outcome.

### Worker session

`WorkerSessionProofs` proves `AtMostOnce`, `IntentFirst`, `ResponsesStand`, `JournalTruth` and `StaleHarmless` for any
workers, keys, identities and bounds, from `WorkerSessionAssumption`.
`SessionInv` joins the four state properties, none of which is inductive, with
what makes them so:

* `VersionInv`: a session's copy of the journal is an earlier version of the
  stored one, and the stored one itself where the revisions agree. So a write the
  store accepts replaces exactly what the session knows.
* `PersistInv`: a journal under way to the store adds only its request's own
  step, an intent or an observation.
* `CallInv`: a session about to call an adapter is alone with that effect, which
  is recorded and has never been asked for. It is what admission leaves behind
  when its write succeeds: another session's admission would have been a write
  in between.
* `TruthInv`: stored and copied journals are truthful about the provider.

The lemmas on journals and versions come first, then one lemma per request and
step of a request.

### Capability runtime

`CapabilityRuntimeProofs` proves `OneOutcome`, `PromisesAccounted`, `LeaseHeld`,
`DeadlineFinal`, `CancellationFinal` and `OnlySoftPausesStick` for any tools,
leases, grants and limits, from `CapabilityRuntimeAssumption`. `LeaseInv` and
`PromiseInv` are each inductive: a promise in the table has an outcome exactly if
it is ready and a waiter only if the evaluation is suspended on it (`HeldInv`),
one that left the table left a record if the host had claimed it (`GoneInv`),
and at most one is awaited (`WaitInv`). `RoomInv` bounds the table by counting.
`OnlySoftPausesStick` says that without the soft time budget a suspended
evaluation always waits for an unresolved promise in the table: the disagreement
of section 6 is the only pause of that kind.

### Only model-checked

* Telemetry: `JournalIsHistory`, `AcknowledgedIsStored`, `TimelineIsComplete`,
  `AggregateOrderSettled`. No proof has been attempted yet.
* Liveness, which is out of the prover's reach: `SuspendedResumes`, `CallsEnd`,
  `SupervisionEnds`, `ExportersCatchUp`, `SuspensionEnds`.

## 5. Faithfulness

`PROJECT.json` maps each definition to its source lines. Actions cover whole
handlers: a handler is split only where another thread or process can act, or a
crash can leave something behind.

## 6. Disagreements found

* `sqlite.rs:363`: recovery takes the durable fence plus one. With an outside
  lease authority, a writer admitted earlier may hold a higher token that is not
  established yet; it can commit between recovery's read of the anchor and its
  DELETE, which then removes the committed payload. The comment on
  `discard_unanchored_candidates` says older writers are shut out and the
  committed payload is retained.
* `octoscript-core/src/lib.rs:2492`: a soft timeout pauses the script without a
  promise that would resume it, and `CapabilityRuntime` has no other way to do
  so; later evaluations are refused as if it could be resumed.
* `multiplexed_worker.rs:790`: a cancellation that the coordinator handles after it
  delivered the result poisons a supervised session and drops the result, while
  `docs/external-tools.md` says a result can still win.

## 7. Not modelled, and why

The models cover the concurrent and durable core of the repository: about 7% of
its lines. Most of the rest is code a finite model says little
about:

* The language profile, the JSON schema contracts and the UI checker are parsers
  and pure functions over inputs of unbounded shape. The UI instance store is
  sequential state of one thread over values of UI source text.
* The language server and the command line analyse text and do I/O around the
  runtime.
* Tool adapters, the secret broker, key storage and the set-up of the sandbox
  check fixed tables and make system calls. The network broker serves one
  connection at a time on a thread of its own, with a shutdown and a failure flag
  that no modelled part reads.
* The mobile facades forward to the capability runtime and the workflow engine.
* The virtual machine is vendored code; only idle, running and paused matter
  here.

Within the modelled parts:

* Storage: the rotation of authentication keys; transport and authentication of
  the remote anchor beyond lost answers.
* Session authorizer: compensation budgets, which only durable sessions use.
* Workers: the in-process transport, which has neither process nor deadline, and
  the durable-operation channel of `json_line_worker.rs`, whose worker side is
  `WorkerSession`.
* Workflows: the parsing and the fingerprints of plans, contracts and
  checkpoints, and the bounded size of dataflow values beyond a step that is
  refused.
* Proofs that are still open: the safety properties of `EventExport`, which need
  an inductive invariant over sequences that are filtered and merged; the run
  checks them on its instance only.
