# Verification of my-agent-v2

TLA+ models of the runtime core of `my-agent-v2`, the configurations that
model-check them with TLC, and theorems about them checked by TLAPS. Source
paths below are relative to the repository; `agents/...` stands for
`src/agents/...`, ADR numbers are those of `docs/decisions`.

## 1. The system and its components

`my-agent-v2` is a single-process agent server. A client sends a message for a
session over a WebSocket; the runtime queues it as a *run*, calls a model
provider, executes the tools the model asks for, stores the exchange and tells
the client how the run ended. The program is single-threaded TypeScript: what
interleaves are continuations at `await`, timers, and the client's requests.
The stores are promises over a synchronous SQLite connection, so a store call
takes effect at once and only its result is delayed.

| Component | State | Operations | What makes it correct |
| --- | --- | --- | --- |
| Session run lane (`agents/session-run-lane.ts`) | map of lane objects: active, reserved, queue | reserve, enqueue, cancel, drain | one run at a time per session, first come first served, bounded, no work lost, no lane object leaked or replaced while used |
| Concurrency permits (`agents/runtime-capacity.ts`) | permits out, waiters | acquire, release | count matches holders, no lost wake-up, limit respected |
| Agent runtime (`agents/agent-runtime.ts`, `agents/lifecycle.ts`) | cancellations map, per run: controller, checkpoint and finalization latches | admit, the executor, cancel, run timer | one outcome per run, durable before it is told, cancellable until decided, every run settles |
| Rows (`agents/run-store.ts`, `attempt-store.ts`, `sessions/sqlite-transcript-store.ts`) | runs, attempts, transcript entries | create, updateStatus, commitTerminalOutcome, appendBatch, readPage | terminal rows final, run and attempt agree, transcript serial |
| Startup reconciliation (`agents/startup-run-reconciler.ts`, `bootstrap/create-app.ts`) | none of its own | reconcile open runs and reservations | nothing of a dead process stays open |
| Run journal (`agents/run-journal-store.ts`) | append-only entries | append | required entries present |
| Usage budget gate (`usage/usage-budget-gate.ts`) | reservation ledger | reserve, markDispatched, settle, release, markUncertain, recoverInterrupted | each reservation ends once, caps hold |
| Approval coordinator (`policy/approval-coordinator.ts`) | pending approvals | request, resolve, expire, abort, dispose | one decision per request, none after expiry |
| Tool runtime (`tools/tool-runtime.ts`) | per call: phase, seal | admit, approve, execute, time out, cancel, normalise | no effect without approval, an effect is never reported as absent |
| Tools, registry, filesystem (`tools/*`, `platform/*`) | immutable registry | validate, run | arguments checked are the arguments used |
| Context assembly (`context/prepared-model-context.ts`) | none | check the history, build the model's turns | every call followed by its result, the input asked last |
| Providers, harnesses (`models/*`, `agents/harness*.ts`) | none | one remote call | - |
| Gateway (`gateway/*`) | connections, owners of runs, event buffers | connect, dispatch, deliver events | events in order, to the owner, each once |
| Sessions (`sessions/session-resolver.ts` ...) | session rows | resolve, create | one session per key, the same for everybody |
| Registry, configuration, migrations, core types | fixed at start | - | - |

Interaction: the gateway calls `admit` and `cancel`; `admit` reserves a lane
slot, inserts the run row, enters the run in `cancellations` and hands the
executor to the lane. The lane's drain loop runs executors one at a time; an
executor first acquires a permit. `cancel`, the executor's normal end, its
catch block and the run timer all lead to one `checkpoint`, which decides the
outcome and runs the finalization (commit, journal, event). Inside a turn the
executor prepares the context from the transcript, reserves usage, calls the
model, hands the calls it asks for to the tool runtime as one batch, and appends
the exchange; the tool runtime asks the policy and, for what writes, the
approval coordinator, whose answers come from clients through the gateway. The
gateway also listens to the runtime's events and sends those of a run to the
socket that started it. After a crash the
next start reconciles open rows before the gateway listens.

### Hard behaviours (hazards)

`PROJECT.json` lists every hazard at its line. The main groups:

- *Who decides the outcome*: cancel, timer, executor and retries of the commit
  race around every await of the finalization.
- *State used after an await*: the executor resumes with its permit after its
  run was cancelled; the drain loop resumes after its lane was reserved again.
- *Partial failure*: any store call may throw; the code reacts differently at
  each (degrade the journal, fail the run, retry, fail safe, reject).
- *Crash*: between the append, the commit and the event; during recovery.
- *Limits*: lane slots, permits, tool iterations, the transcript page.
- *Progress*: lanes, permits, approvals and the finalization must not strand a
  run.
- *Effects that outlive their caller*: a file operation goes on after its call
  timed out or was cancelled, and what is reported of it must allow for that.
- *Delivery*: events are emitted before, while and after their request is
  answered, and sockets close at any of these moments.

## 2. Plan

Done, in this order: `SerialServer`, `SessionRunLane`, `RuntimeCapacity`,
`RunLifecycle` (which composes the two), `UsageLedger`; `ApprovalDecision`,
`ApprovalCoordinator`, `ToolBatch` (which drives the coordinator),
`ModelContext`, `ToolLoop` (which composes the last two), `Sessions`, `Gateway`
(which drives it); and a proof module for each component that has a run.

The proofs came in the same order; `RunOutcome_proofs` and
`RunTranscript_proofs` carry those of `RunLifecycle` that need to know what the
rows and the transcripts hold at each point.

Left, in order of importance:

1. `RunOutcome`: the abstract promise of a run (choose once, make durable, then
   announce) and the refinement, where no known defect interferes; its parts are
   theorems already (`OneEventPerRun`, `EventsTellTheRow`, `TerminalRowsAreFinal`).
2. The tool loop inside `RunLifecycle`, with the finalization that does not wait
   for it, instead of beside it.
3. `LanesServeInOrder` for the lanes as the runtime drives them, where a crash
   empties the line.
4. Migrations: versions applied once each, a failure between two of them.

## 3. The modules

### SessionRunLane, SerialServer

One action per operation. `Reserve`/`RejectFull` are `reserve`; `Enqueue` is
`enqueue` with the first segment of `drain` (on an idle lane it calls
`execute()` at once); `EnqueueWithdrawn` is its early return; `Withdraw` is
`cancel`; `Return` is the end of `execute()`; `DrainNext` and `DrainEnd` are
the resumption of the drain loop, which shifts cancelled work away in the same
segment and either calls the next executor or ends, dropping the lane object.
A lane object has no identity in the model; `MappedExactlyWhileUsed` is the
reason that is sound. The guard of `Withdraw` is the discipline the holders
keep, shown for the runtime by `CancelFindsItsLane`.

`SerialServer` is the promise: per key a first-in first-out single server,
whose customers may leave while they wait. `ServesInOrder` checks that the lane
implements it, liveness included, with the line read as the queue without its
cancelled work (`Line`, with `Among` for the filter). `ServerSafety` is the
promise without its fairness, which is what `LanesServeInOrder` proves.

### RuntimeCapacity

`AcquireFree`, `AcquireWait`, `WakeUp` (the waiter's continuation, which counts
its permit without looking) and `Release`.

### RunLifecycle

A step is the code between two awaits. `pc[r]` is where the executor is (the
list of its values in the module names the await each stands for), `stage[r]`
where the finalization is, `canceller[r]` where a `cancel()` call is; `row`,
`attempt` and `transcript` are the durable rows. The lane and the permits are
instances whose actions are conjoined: `Admit` with `Reserve`, `EnqueueRun`
with `Enqueue` and `Acquire`, `DrainLane` with the drain loop and the next
executor's `Acquire`, `Finish` with `Release` and `Return`, `Cancel` with
`Withdraw`.

Every store call may throw (`Fault`, bounded by `MaxFaults`). What follows is
what the code does: a best-effort journal entry degrades `journalOk`; a
required one, or a row, sends the executor to its catch block; a decision that
cannot be journalled becomes a failure; a commit that throws or conflicts is
tried again, then replaced by the fail-safe plan, then given up. `Crash` wipes
everything but the rows and what has been published. The start of the next
process is `Restart`, which takes the list of open runs once (`listed`),
`ReconcileRun` for each of them, which looks at the row again as the transaction
does, and `StartAccepting`, which follows when the list has been worked through
and does not look at the runs: `create-app.ts:253-257` makes no such check. A
storage failure in any of them ends the process.

Abstractions: one model call and its tool batch are one turn that may end in
text, tools or an error at any time; a tool exchange is one transcript entry;
two consecutive best-effort journal appends are one; error codes other than
those the finalization compares are `RUN_FAILED`. Two branches are left out: the
executor without a provider, which exists under `NODE_ENV=test` only, and the
success without a final text (`agents/agent-runtime.ts:981`, the test
`output.text === undefined`), which the only provider the program builds never
reaches, since it always returns a string. With a provider that does, a run
would complete with no output in the transcript, against `CompletedHasOutput`.

`raced[r]` is a history variable: the run was checkpointed while its executor
was between its start and its attempt's row. Those runs meet the defects that
`RunLifecycleWaiter` and `RunLifecycleAttempt.cfg` show, and these properties
make an exception for them so as to show that nothing else goes wrong:
`PublishedIsDurable`, `TerminalRowIsFinal`, `FinalizationGivesUpLate`,
`AcceptedRunSettles`, `OneFaultIsSurvived` (not among the runs), and
`AttemptEndsWithRun`, which allows one thing only, an attempt that is still
running.

### UsageLedger

The ledger's operations are actions (`Reserve`, `MarkDispatched`, `Settle`,
`Release`, `MarkUncertain`, `Recover`), each one SQLite transaction, in the
order in which a turn of the executor makes them: `pc[c]` is the await the turn
of call `c` is at (`JournalReserved`, `Send` and `CallEnds` are its other
steps). `status`, `reserved`, `created` and `record` are the columns of
`usage_reservations` and `usage_records`; `Total` is SQL's `SUM` over the calls
in the scope of a policy; a policy with two caps is two policies; time is a
number of days. `sent` and `refused` record what really happened outside, for
the properties. Every storage call may throw, and the model does what the code
does next: an error before the request leaves the reservation as it is, an error
of `settle` or of the first `markUncertain` goes to the catch block, which marks
the reservation uncertain.

The module stands beside `RunLifecycle`, not inside it: a run meets the ledger
only through a thrown error, which is an outcome of `BeginTurn` and
`CallReturns` there.

### ApprovalDecision, ApprovalCoordinator

`ApprovalCoordinator` has one operator per method: `Ask` is `requestApproval` up
to its promise, `Resolve` is `resolveApproval` when it takes the answer (when it
does not, it changes nothing), `Expire` the timer, `CancelPending` the abort
listeners, `cancelPendingForRun` and `dispose`; all of them settle through
`Finish`. `pending` is the map, `answer` what the promise resolved to, `told`
the answers whose senders were told that they count. `ApprovalDecision` is the
promise, which `DecidesOnce` checks and `ApprovalsAreDecidedOnce` proves.

### ToolBatch

`executeBatch` for the batches of one run, whose calls are numbered through.
`at` is the await the executor is in: the policy, an approval, the recheck, the
execution, or back in the executor of the run (`cycle`). `StartBatch` plans a
batch, admission takes its items one after the other (`PolicyRejects`,
`PolicyAllows`, `PolicyRequiresApproval`, `ApprovalRefused`, `ApprovalGiven`,
`Recheck`), then `Skip`, `Invoke` and `Settle` are `executeItem` in the
sequential loop or in the workers of the parallel schedule; `Report` and
`Conclude` are what the loops do with an outcome.

A tool is a process of its own: `tool[c]` is the await its implementation is in,
and its steps (`ToolStarts` ... `ToolWrote`) go on after the runtime has given
up on it, with nothing but their own checks of the signal to stop them.
`EffectLands` is the moment the disk changes, at any time after the operation
was handed to the filesystem: that library is external. `phase` and
`resolution` are the variables of the same names in the code; a sealed
invocation is one with a resolution.

Abstractions: calls are told apart by what becomes of them (`Kinds`), paths and
contents are not; the policy may refuse any call, since what it refuses depends
on paths and on the workspace; the binding of an approval is frozen and compared
with the values it was made from, so that comparison is not a step; an
implementation that marks a side effect in the wrong order (`markerViolation`)
does not occur among the registered tools. Two awaits on the same path with
nothing in between but checks of the signal are one.

### ModelContext, ToolLoop

`ModelContext` is `validateCompleteExchangeGroups` and the turns of
`prepareModelContext` as operators. `ToolLoop` adds the transcript to
`ToolBatch`: `RecordCycle` appends what `CycleEntries` makes of a batch and
takes the decision of the cycle, `Conclusion` is the end of the run's loop. The
entries of earlier runs (`Histories`) are there from the start: complete
exchange groups whose tool calls have other numbers than this run's, as the ids
of the code are unique. Nobody else appends meanwhile: `TranscriptIsSerial` of
`RunLifecycle` is the reason that is sound for runs that are not cancelled
(`RunLifecycleLateAppend` shows what happens after a cancellation). Usage,
journal and finalization are not repeated here.

### Sessions, Gateway

`Sessions` is `getByKey` and `create` over the primary key of the table. Either
may fail for any other reason of the storage; a conflict on the key and another
failure are told apart (`Failures`), as `normalizeStorageError` does;
`ResolveLooked` is the second half of `resolve`, a segment later. `Gateway`
composes it with sockets and runs. A request is dispatched concurrently with
all others: `Receive` is the part of the message handler up to the first await
that matters, `LookupReturns`, `CreateRun` and `AdmitReturns` the awaits of
`agent.run`, `Answer` the continuation that writes the response and, in the same
segment, takes the run over with what was held for it. `Emit` is the listener
of the event bus. `sent[s]` is what was written to a socket, in order; what the
network does with it afterwards is TCP's.

The operators introduced as a `Defect` or a `plausible defect` are not part of
any specification: each is a wrong version of the definition beside it, which
the property it is paired with in `PROJECT.json` ("mutants") must refute.

## 4. What the runs show

| Run | Instance | Result |
| --- | --- | --- |
| `SessionRunLane` | 5 works, 2 keys (4 + 1), capacity 3 | serial, bounded, exact queue, reservations and map; implements `SerialServer`; queued work runs |
| `RuntimeCapacity` | 5 executors, limit 2 | counts match, no lost wake-up, every waiter served |
| `RunLifecycleFaults` | 1 run, 3 faults, 1 crash, 2 tool cycles | one event, durable and final outcome, attempt agrees, completed has output, no exit without outcome |
| `RunLifecycleSession` | 2 runs of 1 session, 1 fault, 2 tool cycles | serial transcript, no unjustified tail conflict, cancellable while open, cancel finds its own lane, every executor ends unless a provider keeps a cancelled call |
| `RunLifecyclePermits` | 2 sessions, 1 permit, 1 fault, 1 crash | no orphan after a restart; every accepted run settles, with the exceptions the property lists |
| `ToolLoop` | 1 run, 3 calls, 2 workers, 11 batches to ask for | nothing that may still be written is reported as absent; what is written was allowed; effects do not overlap; transcript and model agree with the workspace; approvals are decided once; every batch ends |
| `Gateway` | 3 requests, 2 sockets, 1 key, 3 events per run | events in order and complete, after the answer; whoever gets a session gets the one of the key; a client that stays gets everything |
| `UsageLedger` | 3 calls, 2 agents, 2 policies, 3 days, 1 fault, 1 crash | what is reserved stays within every cap; a sent request is never free; each reservation is accounted for once, with a matching record, and none is left open but by a failed storage call |

Runs that show a disagreement between the documents and the code
("findings" in `PROJECT.json` quotes the lines):

| Run | Property refuted | What happens |
| --- | --- | --- |
| `RunLifecycleWaiter` | `CancelledWaiterStaysCancelled` | a run cancelled while it waits for its permit is set back to running |
| `RunLifecycleLateAppend` | `NothingAppendedAfterEvent` | a cancelled run's executor appends to the session after `run.cancelled` |
| `RunLifecyclePage` | `TailIsStaleOnlyIfMoved` | a session longer than one page can never be appended to |
| `ToolLoopRepeatedInput` | `InputIsAsked` | an input that repeats an earlier message of the session is not sent as the last turn |

Further disagreements, with configurations that reproduce some of them, are in
section 6.

### Bounds

Three of four works fill a lane of capacity 3 with one reserved, one waiting
and one running, and leave one to be refused; a second lane shows that lanes do
not touch each other. Two permits and five executors give two waiters behind two
holders and one that barges in. Three faults are the number of attempts the
finalization makes. Two runs are the least that share a session or a permit; the
restart is checked with two of them, so that a pass can stop between two runs.
One crash is enough because nothing volatile survives it, and the reconciliation
may itself fail and be started again. Two tool cycles show the limit being
reached and not being reached. `PageLimit` is 20, above any transcript of these
instances, except in `RunLifecyclePage`, where it is 2. Only `Cancellable` runs
are cancelled in the two-run instances, to keep them small: the other run shows
what cancellation does to a neighbour.

In `UsageLedger` a day's token cap of 4 refuses a third call of 2, admits it
the next day, and a month's cost cap of 5 covers one agent's two calls; usage is
below and above the estimate; the price is unknown on the first day, so that a
capped call is refused and an uncapped one has no cost.

In `ToolLoop` three calls let a write come before, between and after others, in
one batch or in several; two workers for three reads let one wait; four reads
exceed the limit of a batch and of a run. The history of an earlier run is there
from the start: one that was answered, or one that ended after a tool exchange,
without an answer. In `Gateway` the two runs come from different sockets, share the
session that both, and a third request, may find missing; three events can come
before, during and after the answer. Every socket can close at any time.

The type invariants of all modules but `RunLifecycle` are not among the checked
invariants: they are proved (section 5).

Deadlock is not checked: when every run is over and nobody asks for another,
the program rightly does nothing.

### Fairness

`RunLifecycle` assumes weak fairness of `Progress` as a whole: the event loop
does not idle while a continuation is ready, storage calls return at once, the
tool timeouts bound a batch and the run timer a model call. `CallReturns`, the
answer of the provider, is not part of `Progress`: after `cancel()` has aborted
the controller the timer does nothing (`agents/agent-runtime.ts:1138`), and a
call whose provider does not notice is bounded by nothing. The two liveness
properties therefore except an `Abandoned` call that stays so for ever:
`ExecutorEnds` any such call, since the executor that made it and those behind
it wait; `AcceptedRunSettles` that of another run only, since the cancellation
settles the row of its own. No assumption is made about which continuation runs
first, nor that anybody asks, cancels or restarts. Since every run takes
finitely many steps that is enough.
`ToolLoop` assumes weak fairness of the executor (`Executor` and `RecordCycle`),
of the approval timer and of the invocation timeouts, and nothing about tools,
clients or the filesystem under a tool: the timers alone make a batch end. That
the policy's preflight returns is part of the executor's fairness, since the
code awaits it without a timeout. `Gateway` assumes that each request that is
being dispatched goes on, its awaits being on synchronous storage, and nothing
about runs, clients and sockets.
`SessionRunLane` and `RuntimeCapacity` alone assume fairness of the drain loop,
of `Return` and of `Release`: the executor ends in a `finally` block. In the
composition `ExecutorEnds` confirms that, a provider that never ends a cancelled
call apart.

## 5. What is proved

TLAPS proves, for every number of runs, keys, slots, permits, iterations,
faults and crashes:

| Theorem (module) | Statement |
| --- | --- |
| `PermitsAreCounted`, `NoLostWakeUp` (`RuntimeCapacity_proofs`) | `CapacityTypeOK`, `PermitsMatchHolders`, `WaitersAreWaiting`, `NoIdlePermitWhileWaiting` |
| `LanesAreSerial`, `LanesAreBounded`, `SlotsAreCounted`, `LanesAreKept` (`SessionRunLane_proofs`) | `LaneTypeOK` and the five invariants the run checks |
| `LanesServeInOrder` (`SessionRunLane_proofs`) | the lane implements the safety half of `SerialServer` |
| `TypesAreKept`, `OneEventPerRun`, `NoSilentExit`, `RuntimeLanesAreSerial` (`RunLifecycle_proofs`) | `TypeOK`, `OneTerminalEvent`, `ExitIsCheckpointed`, and that the composed lanes are serial |
| `EventsTellTheRow`, `AttemptsEndWithRuns`, `TerminalRowsAreFinal`, `FinalizationIsRobust`, `TimeoutsAreFailures`, `RestartsSettle`, `RunsStayCancellable`, `CancelsFindTheirLane` (`RunOutcome_proofs`) | `PublishedIsDurable`, `AttemptEndsWithRun`, `TerminalRowIsFinal`, `FinalizationGivesUpLate`, `TimeoutIsNotCancellation`, `NoOrphanAfterRestart`, `CancellableWhileUndecided`, `CancelFindsItsLane` |
| `TranscriptsAreSerial`, `CompletedRunsHaveOutput`, `TailsAreFresh` (`RunTranscript_proofs`) | `TranscriptIsSerial`, `CompletedHasOutput`, and `TailIsStaleOnlyIfMoved` while no session outgrows its page |
| `LedgerTypesAreKept`, `SentRequestsAreCounted`, `LedgerIsConsistent`, `ReservationsAreClosed`, `AccountingIsFinal`, `CapsHold` (`UsageLedger_proofs`) | `LedgerTypeOK` and all properties of the ledger the run checks |
| `ToolTypesAreKept`, `EffectsAreReported`, `EffectsAreApproved`, `OneEffectAtATime`, `ApprovalsAreDecidedOnce` (`ToolLoop_proofs`) | `ToolTypeOK`, `EffectIsReported`, `EffectIsApproved`, `EffectsAreSerial`, and that the approvals implement `ApprovalDecision` |
| `ContextsAreComplete`, `ModelsKnowTheWorkspace` (`ToolLoop_proofs`) | `ContextIsComplete` when the input is new, `ModelKnowsTheWorkspace` |
| `GatewayTypesAreKept`, `DeliveryInOrder`, `SessionsAgree` (`Gateway_proofs`) | `GatewayTypeOK`, `DeliveryIsOrdered`, `ResolveAgrees` |

Assumptions: those on the constants (`LaneAssumption`,
`CapacityAssumption`, `RunAssumption`, `LedgerAssumption`, `ToolAssumption`,
`HistoryAssumption`, `SessionsAssumption`, `NoRequestIsAWord`,
`GatewayAssumption`). The sets of runs and clients may be infinite: the sets
whose cardinality is counted start empty and grow by one. The set of calls of
the ledger is finite, since the caps are sums over it. Two theorems have a
hypothesis of their own, and a run shows that it is needed: `TailsAreFresh` that
no session is longer than its page (`RunLifecyclePage`), `ContextsAreComplete`
that no earlier message has the text of the input (`ToolLoopRepeatedInput`).

*Permits.* `CapacityInv` adds to the types that the count is the number of
holders, that the list is duplicate-free and holds exactly the waiters, and
that a non-empty list means held and woken permits reach the limit. The last
part is not inductive without the exactness of the list: a release must hand
its permit to somebody who really waits.

*Lanes.* `LaneInv` adds to the serial, bounded and exact-queue parts that
withdrawn work is accounted for: a reserved count is the number of holders that
have neither enqueued nor withdrawn. Serial execution needs
`active[k] <=> InDrain(k) # {}`, and the map needs the exact queue.

*Serving order.* Each action of the lane maps to one of the server or to a
stutter: `Enqueue` to `Join` or `WalkIn`, `Withdraw` of queued work to `Leave`,
`Return` to `Depart`, `DrainNext` to `Serve`, the rest to nothing. The work is in
`Among`: that appending wanted work appends to the line, that cancelled work
closes its own place and no other, and that cutting the queue behind its first
wanted work cuts the head of the line. `Among` is a recursive function on
numbers, so these need induction; the theorems of the library that give it take
the induction hypothesis as an operator, which the provers cannot instantiate.
The hypothesis is stated as a set instead: a set of numbers (`SmallestNumber`) or
of sequences (`SequencesByAppend`) that is closed is everything.

*Runtime.* `RunInv` is the types, the two component invariants, and
`ControlOK`, which ties the control points together: an event has been
published only in stage `published`, a stage beyond `none` means the run was
checkpointed, an executor at its end was checkpointed, and the iteration stays
below the limit at the points where it is read. Every step of the runtime maps
to a step or a stutter of the lane and of the permits (a crash maps to a reset
of both, for which the component modules prove `LaneReset_Inv` and
`CapacityReset_Inv`), so the components' proofs are used by instantiation
instead of being repeated.

*Outcome.* `OutcomeInv` adds three parts to `RunInv`. `Linked` says what the
control points of an executor and of its lane slot tell about each other: a run
past its start is running in its lane, cancelled work is checkpointed, and a run
whose outcome is open has its entry in `cancellations`. `Told` says for each
stage of the finalization what the rows hold: open until the commit, the plan's
status after it, no attempt before its creation, none but a running one under an
open run, and as many failures behind each retry as it takes. `Blamed` says that an abort has a canceller, the timer
apart. `Told` is not inductive without `Linked`: that an executor never writes
`running` over a terminal row is known only because decided work that still
waits is withdrawn and the drain loop drops it. The exception, a run decided
while its executor is starting, is `raced`, and the defects of
`RunLifecycleWaiter` and `RunLifecycleAttempt.cfg` are exactly this gap. That it
leaves a running attempt and nothing worse needs the order of the executor: the
row is marked before the attempt exists, and a plan that names the attempt
conflicts until it does.

`RestartsSettle` rests on three parts of `Linked`: while the process is not up no
run has an executor; while it recovers, every open run is on the list
(`listed`), because the list is taken when nobody else writes and only the
transaction of a run takes it off; so once the list is empty and the gateway
starts, no run of a dead process is open. `StartAccepting` itself only knows that
the list is empty.

*Transcript.* `Speaks` ties an executor's control point to the session: before
its first append the transcript has nothing of the run, after it the run spoke
last, and from the append of its output on, `EndsWithOutput` holds. That the last
entry stays the run's own while it is not at its end needs the serial lane: only
one executor per session is `InFlight`.

*Ledger.* `LedgerInv` says for each call what the point its turn has reached
tells about the reservation (`OpenAt`), the request (`SentAt`) and the process
(`DeadAt`). `SentIsNeverFree` is not inductive without it: that a sent request
cannot be `reserved`, and so be released by the recovery, is known only from the
order of `MarkDispatched` and `Send`. The steps that account for a call share
one form (`Accounts`), for which the invariant is proved once. `CapInv` adds the
caps: a reservation is admitted against `Held` plus `Settled`, which cover what
every call of the scope has committed (a settled call counts what it used, which
is at least what `Committed` takes of it), and every later step keeps or lowers
what its call commits. Sums over finite sets are defined by recursion on the
set, so that `Total` splits off any element (`TotalWithout`) and is monotone is
proved over all subsets, by their smallest counterexample (`SmallestSubset`).

*Tools.* `CallInv` relates the four views of one call: where its implementation
is, the phase it has marked, how the invocation was resolved and what was
reported. Its heart is that an implementation that has passed its mark, and so
may write, has `side-effect-possible` as its phase: one whose invocation was
sealed before the mark never gets to the filesystem. `BatchInv` adds the
schedule: in a sequential batch everything before the current call has its
outcome, everything behind it has not begun, and, unless the run was aborted,
the writes before it were completed.
`EffectsAreSerial` needs both, since that a completed write is over is a fact
about the call, and that the next one has not begun a fact about the schedule.

`HistoryInv` says of the transcript that it is what earlier runs left, followed
by the input and the calls reported so far with their results, each pair at its
place; what `CycleEntries` appends continues it. `Performed` says that a call
that returned has done what it was for, which with `CallInv` makes the results in
the transcript agree with what was written.

*Gateway.* `RequestInv` ties what was sent for a request to the point it has
reached and to what is held and who owns it: nothing is sent before the answer,
what is held goes on from what was emitted, an owner is the socket of the
request. `Ordered` is the property; `SessionsInv` says that a row never changes
once it is there, which is why what a request looked up stays true, why a
request that met a conflict knows that another one has the key, and why one that
failed, before or in its insert, has left no row of its own.

Only model-checked: liveness, which is out of the prover's reach
(`QueuedWorkRuns`, the fairness half of `ServesInOrder`, `WaitersAreServed`,
`ExecutorEnds`, `AcceptedRunSettles`, `BatchEnds`, `EventsReachTheirClient`), and
the two properties above where their theorem's hypothesis does not hold, which is
where they fail.

## 6. Other disagreements between the code and its documents

Six have a configuration that reproduces them and is not among the runs of
`PROJECT.json`; each refutes the property it names when given to TLC, as in
`tlc -config RunLifecycleSlotLeak.cfg RunLifecycleMC`:

- `RunLifecycleSlotLeak.cfg` (`ReservationsAreReturned`): `runs.create` throws
  and the lane slot reserved before it (`agents/agent-runtime.ts:120`) is never
  given back; ADR 0006:343 asks for a `finally`-equivalent.
- `RunLifecycleOneFault.cfg` (`OneFaultIsSurvived`): `attempts.create` throws,
  the plan names an attempt without a row (`agents/agent-runtime.ts:363`), every
  commit conflicts and the run stays open without an event; ADR 0006:292.
- `UsageLedgerNoRecord.cfg` (`UnresolvedCallHasRecord`, module `UsageLedgerMC`):
  the recovery (`usage/usage-budget-gate.ts:379`) marks a dispatched call
  uncertain without a usage record; ADR 0015:142.
- `RunLifecycleAttempt.cfg` (`TerminalRunHasNoRunningAttempt`): `cancel()` while
  the executor is between its start and `attempts.create`
  (`agents/agent-runtime.ts:422`) commits the run without an attempt; the
  executor then inserts the attempt as running, finds the checkpoint taken and
  ends. Nothing ends that attempt any more: the restart selects open runs only
  (`agents/run-store.ts:181-186`). ADR 0006:211 asks for "validation that the
  current attempt is already terminal".
- `RunLifecycleAbandoned.cfg` (`LaneIsReleased`): after `cancel()` the run timer
  does nothing (`agents/agent-runtime.ts:1138`), so a provider that ignores the
  signal keeps the lane of the session, and a permit, for ever; ADR 0006:593, "The
  lane must still be released through a guaranteed cleanup path". The provider the
  program builds hands the signal on (`models/gemini-interactions-provider.ts:81`).
- `GatewayResolve.cfg` (`ResolveIsAtomic`, module `GatewayMC`): of two requests
  for a new key that both look it up before either inserts
  (`sessions/session-resolver.ts:22`), the second is answered with
  `STORAGE_CONFLICT`, although the session it asked for exists by then; ADR
  0003:101, "Resolving or creating a session for a canonical key must behave
  atomically from the caller's perspective".

The others follow from reading the code with the model beside it:

- `Limit` can be exceeded (ADR 0006:417 says permits bound simultaneous work):
  `release` frees a permit before the waiter it wakes counts its own, and an
  `acquire` in between takes it (`AcquireFree` while a client is `woken`).
- A timeout whose usage record cannot be marked uncertain is announced as a
  cancellation, because the error of the clean-up takes the place of
  `RUN_TIMEOUT` (`CallTimesOut`, second disjunct; `TimeoutIsNotCancellation` is
  stated without faults for that reason).
- A completed run may lack its terminal journal entries, which ADR 0006:219
  requires and `agent-runtime-terminalization.test.ts:557` does not expect
  (`JournalOutcome`).
- A failure of the journal entry `usage.reserved` (`agents/agent-runtime.ts:591`)
  leaves the reservation open until the next start: the entry is outside the
  `try` block that accounts for the call (`JournalReserved`;
  `OpenReservationHasOwner` is stated for histories without storage failures).
- The actual usage of a call may exceed what was reserved for it, and with it the
  cap: the estimate is taken from the input alone (`agents/agent-runtime.ts:587`,
  admitted by ADR 0015:553). `ReservedWithinCap` bounds the reserved part.
- Results of a batch with one call that was never admitted are thrown away: the
  run fails at `agents/agent-runtime.ts:872` before anything is appended, also
  when a write of that batch has been made (`CycleThrows`).
- The provider's continuation of a tool step is not stored with the exchange
  (`agents/agent-runtime.ts:882-932`), which ADR 0007:507 asks for.
- A write that was reported as uncertain may land after its run has failed and
  the next run of the session has begun: nothing waits for it (`EffectLands`).
- Events of a run without an owner are held without a bound
  (`gateway/create-gateway.ts:53`), while ADR 0004:704 asks for bounded
  buffering; and the owner that `Answer` records for a socket closed meanwhile
  is never removed.
- `stop()` of the application closes the database without waiting for runs.
- A page that ends between a call and its result makes the history of a long
  session unacceptable to `validateCompleteExchangeGroups`.

## 7. What is not modelled

- Providers and harnesses, protocol schemas: the format of requests and of
  frames; a model call ends in any of its ways, a refused frame changes nothing.
- `SessionResolver.reset` and `cancelPendingForRun` have no caller in the
  program; the latter is an operator all the same, since it does what the abort
  of a run does.
- Paths, arguments and fingerprints of tools, the manifest and hashes of a
  context, the token estimate: data no property is about.
- Registries and configuration are computed once; migrations run before
  anything else does.
- `PROJECT.json` says of every component which part of it is modelled.
