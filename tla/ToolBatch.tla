------------------------------ MODULE ToolBatch ------------------------------
(* The tool batches of one run (tools/tool-runtime.ts): planning, policy,  *)
(* approval and recheck of every call, then execution, sequential or in    *)
(* parallel, under timeouts and cancellation.  A step is the code between  *)
(* two awaits.  The tools are those of tools/workspace-tools.ts; their     *)
(* file operations are steps of their own, since they outlive the runtime's *)
(* interest in them.                                                       *)
EXTENDS Integers, FiniteSets, Sequences

(* Reads and the two modes of workspace.write_text; and the calls that are *)
(* refused when they are planned: tools that are not registered or reads   *)
(* with invalid arguments ("unknown"), invalid writes ("malformed"), and   *)
(* valid arguments that are too long.                                      *)
Kinds   == {"read", "create", "write", "unknown", "malformed", "longRead", "longWrite"}
Effects == {"create", "write"}

(* effectClassification is the tool's, whatever its arguments are.         *)
SideEffecting == Effects \cup {"malformed", "longWrite"}

CONSTANTS
  MaxPerRun,      \* maxToolCallsPerRun
  MaxPerBatch,    \* maxToolCallsPerBatch
  MaxConcurrent,  \* maxConcurrentToolCalls
  Asks            \* the batches the model may ask for

ASSUME ToolAssumption ==
  /\ {MaxPerRun, MaxPerBatch, MaxConcurrent} \subseteq Nat \ {0}
  /\ Asks \subseteq Seq(Kinds) \ {<<>>}

Calls == 1 .. MaxPerRun

VARIABLES
  at,          \* await the run's executor is in: see Points
  first, last, \* the calls of the current batch; last is totalRunToolCalls
  cur,         \* the call being admitted, or executed in sequence
  kind,        \* what the model asked for
  admission,   \* admissionError and executionContext of a call
  aborted,     \* the abort signal of the run
  tool,        \* where the implementation of a call is: see ToolPoints
  phase,       \* InvocationPhase
  resolution,  \* how the invocation was resolved, once
  written,     \* calls whose effect is on the disk
  outcome,     \* terminalState of a call
  pending, answer, told

Approvals == INSTANCE ApprovalCoordinator WITH Requests <- Calls

batchVars == <<first, last, kind>>
execVars  == <<tool, phase, resolution, written, outcome>>
toolVars  == <<at, batchVars, cur, admission, aborted, execVars, pending, answer, told>>

Points      == {"model", "policy", "approval", "recheck", "run", "cycle", "over"}
Admissions  == {"none", "unadmitted", "rejected", "cancelled", "admitted"}
ToolPoints  == {"idle", "called", "reading", "inspecting", "checking", "writing", "ended"}
Phases      == {"prepared", "io-started", "side-effect-possible"}
Resolutions == {"none", "open", "result", "error", "cancelled", "timeout"}
NoEffect    == {"not-started", "failed-before", "cancelled"}
Outcomes    == NoEffect \cup {"none", "completed", "uncertain"}

ToolTypeOK ==
  /\ at \in Points
  /\ first \in Calls /\ last \in 0 .. MaxPerRun /\ cur \in Calls
  /\ kind \in [Calls -> Kinds \cup {"none"}]
  /\ admission \in [Calls -> Admissions]
  /\ aborted \in BOOLEAN
  /\ tool \in [Calls -> ToolPoints]
  /\ phase \in [Calls -> Phases]
  /\ resolution \in [Calls -> Resolutions]
  /\ written \subseteq Calls
  /\ outcome \in [Calls -> Outcomes]
  /\ Approvals!ApprovalTypeOK

ToolInit ==
  /\ at = "model" /\ first = 1 /\ last = 0 /\ cur = 1
  /\ kind = [c \in Calls |-> "none"]
  /\ admission = [c \in Calls |-> "none"]
  /\ aborted = FALSE
  /\ tool = [c \in Calls |-> "idle"]
  /\ phase = [c \in Calls |-> "prepared"]
  /\ resolution = [c \in Calls |-> "none"]
  /\ written = {}
  /\ outcome = [c \in Calls |-> "none"]
  /\ Approvals!ApprovalInit

-----------------------------------------------------------------------------
(* Admission                                                               *)

Batch == first .. last

(* The admission loop goes on with the next planned item that has no error *)
(* yet; after the last one the batch is executed.                          *)
AdmitNext(adm, lo, hi) ==
  LET open == {c \in lo .. hi : adm[c] = "none"}
  IN  IF open = {}
        THEN at' = "run" /\ cur' = lo
        ELSE at' = "policy" /\ cur' \in open /\ \A d \in open : cur' <= d

(* Arguments are validated against the schema, and limited in size: a call *)
(* refused before that has no normalized arguments.                        *)
Planned(k) ==
  CASE k \in {"unknown", "malformed"} -> "unadmitted"
    [] k \in {"longRead", "longWrite"} -> "rejected"
    [] OTHER -> "none"

(* The model asks for a batch of calls, and the whole batch is planned.    *)
StartBatch(ks) ==
  /\ at = "model"
  /\ Len(ks) <= MaxPerBatch
  /\ last + Len(ks) <= MaxPerRun
  /\ first' = last + 1 /\ last' = last + Len(ks)
  /\ kind' = [c \in Calls |-> IF c \in first' .. last' THEN ks[c - last] ELSE kind[c]]
  /\ admission' = [c \in Calls |->
       IF c \in first' .. last' THEN Planned(kind'[c]) ELSE admission[c]]
  /\ AdmitNext(admission', first', last')
  /\ UNCHANGED <<aborted, execVars, pending, answer, told>>

(* Too many calls: executeBatch throws before anything is planned, and the *)
(* run fails.                                                              *)
BudgetExhausted(ks) ==
  /\ at = "model"
  /\ Len(ks) > MaxPerBatch \/ last + Len(ks) > MaxPerRun
  /\ at' = "over"
  /\ UNCHANGED <<batchVars, cur, admission, aborted, execVars, pending, answer, told>>

Admitted(status) ==
  /\ admission' = [admission EXCEPT ![cur] = status]
  /\ AdmitNext(admission', first, last)
  /\ UNCHANGED <<batchVars, aborted, execVars>>

(* The policy rejects the call: denied, an invalid verdict, an exception,  *)
(* or a summary that cannot be rendered for the approval.                  *)
PolicyRejects ==
  /\ at = "policy"
  /\ Admitted("rejected")
  /\ UNCHANGED <<pending, answer, told>>

(* WorkspacePolicy allows what only reads.                                 *)
PolicyAllows ==
  /\ at = "policy"
  /\ kind[cur] \notin Effects
  /\ Admitted("admitted")
  /\ UNCHANGED <<pending, answer, told>>

PolicyRequiresApproval ==
  /\ at = "policy"
  /\ kind[cur] \in Effects
  /\ Approvals!Ask(cur, aborted)
  /\ at' = "approval"
  /\ UNCHANGED <<batchVars, cur, admission, aborted, execVars>>

ApprovalRefused ==
  /\ at = "approval"
  /\ answer[cur] \in {"denied", "expired", "cancelled"}
  /\ Admitted(IF answer[cur] = "cancelled" THEN "cancelled" ELSE "rejected")
  /\ UNCHANGED <<pending, answer, told>>

(* Defect: only a denial stops the call.                                   *)
ApprovalPresumed ==
  /\ at = "approval"
  /\ answer[cur] \notin {"none", "denied"}
  /\ at' = "recheck"
  /\ UNCHANGED <<batchVars, cur, admission, aborted, execVars, pending, answer, told>>

(* The answer is compared with the binding, which is frozen; the policy is *)
(* asked again.                                                            *)
ApprovalGiven ==
  /\ at = "approval"
  /\ answer[cur] = "allowed"
  /\ at' = "recheck"
  /\ UNCHANGED <<batchVars, cur, admission, aborted, execVars, pending, answer, told>>

(* Only the very same verdict keeps the approval.                          *)
Recheck ==
  /\ at = "recheck"
  /\ \E verdict \in {"admitted", "rejected"} : Admitted(verdict)
  /\ UNCHANGED <<pending, answer, told>>

-----------------------------------------------------------------------------
(* Execution                                                               *)

(* allParallelSafeRead: one other call makes the batch sequential.         *)
Parallel == \A c \in Batch : admission[c] = "admitted" /\ kind[c] \notin Effects

(* An outcome; when it ends the batch, the later calls are reported as not *)
(* started.                                                                *)
Report(c, state, halts) ==
  /\ outcome' = [d \in Calls |->
       IF d = c THEN state
       ELSE IF halts /\ d \in c + 1 .. last THEN "not-started" ELSE outcome[d]]
  /\ cur' = IF Parallel \/ halts \/ c = last THEN cur ELSE c + 1
  /\ at' = IF \A d \in Batch : outcome'[d] # "none" THEN "cycle" ELSE at

(* Defect: only an uncertain effect ends the batch.                        *)
ConcludeTolerant(c, state) ==
  Report(c, state, ~Parallel /\ kind[c] \in SideEffecting /\ state = "uncertain")

(* A side-effecting call that is not ok ends a sequential batch.           *)
Conclude(c, state) ==
  Report(c, state, ~Parallel /\ kind[c] \in SideEffecting /\ state # "completed")

InFlight == {c \in Batch : resolution[c] # "none" /\ outcome[c] = "none"}

(* The sequential loop, or a free worker of the parallel schedule, comes   *)
(* to call c.                                                              *)
Turn(c) ==
  /\ at = "run"
  /\ c \in Batch /\ outcome[c] = "none" /\ resolution[c] = "none"
  /\ IF Parallel
       THEN /\ Cardinality(InFlight) < MaxConcurrent
            /\ \A d \in first .. c - 1 : outcome[d] # "none" \/ resolution[d] # "none"
       ELSE c = cur

(* The run is aborted, which passes over every call that is left, or the   *)
(* call was never admitted.                                                *)
Skip(c) ==
  /\ Turn(c)
  /\ \/ aborted /\ Report(c, "cancelled", FALSE)
     \/ /\ ~aborted /\ admission[c] # "admitted"
        /\ Conclude(c, IF admission[c] = "cancelled" THEN "cancelled" ELSE "failed-before")
  /\ UNCHANGED <<batchVars, admission, aborted, tool, phase, resolution, written,
                 pending, answer, told>>

(* The timer and the abort listener are armed; the implementation is       *)
(* called in a microtask.                                                  *)
Invoke(c) ==
  /\ Turn(c)
  /\ ~aborted /\ admission[c] = "admitted"
  /\ resolution' = [resolution EXCEPT ![c] = "open"]
  /\ tool' = [tool EXCEPT ![c] = "called"]
  /\ UNCHANGED <<at, batchVars, cur, admission, aborted, phase, written, outcome,
                 pending, answer, told>>

(* resolveOnce: the first resolution counts and seals the phase.           *)
ResolveOnce(c, how) ==
  resolution' = [resolution EXCEPT ![c] = IF @ = "open" THEN how ELSE @]

TimeOut(c) ==
  /\ resolution[c] = "open"
  /\ ResolveOnce(c, "timeout")
  /\ UNCHANGED <<at, batchVars, cur, admission, aborted, tool, phase, written, outcome,
                 pending, answer, told>>

(* The run is cancelled or its timer fires: all abort listeners run in the *)
(* same segment.                                                           *)
Abort ==
  /\ ~aborted
  /\ aborted' = TRUE
  /\ resolution' = [c \in Calls |-> IF resolution[c] = "open" THEN "cancelled" ELSE resolution[c]]
  /\ Approvals!CancelPending(Calls)
  /\ UNCHANGED <<at, batchVars, cur, admission, tool, phase, written, outcome>>

(* Defect: a cancellation is certain, whatever the phase.                  *)
TerminalStateBySignal(c, valid) ==
  IF resolution[c] = "result" /\ valid THEN "completed"
  ELSE IF resolution[c] = "cancelled" THEN "cancelled"
  ELSE IF phase[c] = "side-effect-possible" THEN "uncertain" ELSE "failed-before"

(* The executor resumes with the resolution.  A result may still fail its  *)
(* schema or exceed its size; once an effect was possible, nothing but a   *)
(* valid result is certain.                                                *)
TerminalState(c, valid) ==
  IF resolution[c] = "result" /\ valid THEN "completed"
  ELSE IF phase[c] = "side-effect-possible" THEN "uncertain"
  ELSE IF resolution[c] = "cancelled" THEN "cancelled" ELSE "failed-before"

Settle(c) ==
  /\ at = "run"
  /\ c \in InFlight
  /\ resolution[c] # "open"
  /\ \E valid \in BOOLEAN : Conclude(c, TerminalState(c, valid))
  /\ UNCHANGED <<batchVars, admission, aborted, tool, phase, resolution, written,
                 pending, answer, told>>

-----------------------------------------------------------------------------
(* The implementations, which nothing stops but their own checks           *)

SignalAborted(c) == resolution[c] \in {"cancelled", "timeout"}
Sealed(c)        == resolution[c] # "open"

runtimeVars == <<at, batchVars, cur, admission, aborted, outcome, pending, answer, told>>

ToolMoves(c, from, to) ==
  /\ tool[c] = from
  /\ tool' = [tool EXCEPT ![c] = to]
  /\ UNCHANGED runtimeVars

(* The implementation ends with a result or an error.                      *)
ToolEnds(c, from, how) ==
  /\ ToolMoves(c, from, "ended")
  /\ ResolveOnce(c, how)
  /\ UNCHANGED <<phase, written>>

(* A marker of a sealed invocation is ignored.                             *)
Mark(c, p) == phase' = [phase EXCEPT ![c] = IF Sealed(c) THEN @ ELSE p]

(* The first segment of execute(): reads and inspections start their I/O,  *)
(* create marks its effect at once.                                        *)
ToolStarts(c) ==
  /\ ~Sealed(c)
  /\ \/ /\ kind[c] = "read"
        /\ ToolMoves(c, "called", "reading") /\ Mark(c, "io-started")
     \/ /\ kind[c] = "write"
        /\ ToolMoves(c, "called", "inspecting") /\ Mark(c, "io-started")
     \/ /\ kind[c] = "create"
        /\ ToolMoves(c, "called", "checking") /\ Mark(c, "side-effect-possible")
  /\ UNCHANGED <<resolution, written>>

(* An invocation that was resolved first is never executed.                *)
ToolNeverStarts(c) == Sealed(c) /\ ToolEnds(c, "called", "result")

(* list and readTextChunk check the signal before and after every await.   *)
ToolReads(c) ==
  \E how \in {"result", "error"} :
    /\ SignalAborted(c) => how = "error"
    /\ ToolEnds(c, "reading", how)

(* inspectTextForWrite came back: the effect is marked and writeText       *)
(* called, whose first check is in the same segment.                       *)
ToolInspected(c) ==
  /\ ~SignalAborted(c)
  /\ ToolMoves(c, "inspecting", "checking")
  /\ Mark(c, "side-effect-possible")
  /\ UNCHANGED <<resolution, written>>

ToolInspectFails(c) == ToolEnds(c, "inspecting", "error")

(* assertStrictPath and getRoot are awaited; after the last check of the   *)
(* signal the file operation is handed to the filesystem.                  *)
ToolWrites(c) ==
  /\ ~SignalAborted(c)
  /\ ToolMoves(c, "checking", "writing")
  /\ UNCHANGED <<phase, resolution, written>>

ToolCheckFails(c) == ToolEnds(c, "checking", "error")

(* The filesystem performs the operation, at any later time, or fails.     *)
EffectLands(c) ==
  /\ tool[c] = "writing" /\ c \notin written
  /\ written' = written \cup {c}
  /\ UNCHANGED <<runtimeVars, tool, phase, resolution>>

ToolWrote(c) ==
  \E how \in {"result", "error"} :
    /\ how = "result" => c \in written /\ ~SignalAborted(c)
    /\ ToolEnds(c, "writing", how)

-----------------------------------------------------------------------------
(* The end of a cycle, in the executor (agents/agent-runtime.ts)           *)

(* An outcome without normalized arguments fails the run, and the whole    *)
(* batch with it.                                                          *)
CycleThrows ==
  /\ at = "cycle"
  /\ \E c \in Batch : admission[c] = "unadmitted"
  /\ at' = "over"
  /\ UNCHANGED <<batchVars, cur, admission, aborted, execVars, pending, answer, told>>

(* Defect: only the cancellation of the run counts.                        *)
CycleDecisionLenient == IF aborted THEN "cancel" ELSE "continue"

(* decideToolCycle; the iterations, which fail the run at their limit, are *)
(* counted in RunLifecycle.                                                *)
CycleDecision ==
  IF aborted THEN "cancel"
  ELSE IF \E c \in Batch : outcome[c] = "uncertain" THEN "fail" ELSE "continue"

EndCycle ==
  /\ at = "cycle"
  /\ \A c \in Batch : admission[c] # "unadmitted"
  /\ at' = "over" \/ (CycleDecision = "continue" /\ at' = "model")
  /\ UNCHANGED <<batchVars, cur, admission, aborted, execVars, pending, answer, told>>

(* The model answers with text, or the call fails.                         *)
EndRun ==
  /\ at = "model"
  /\ at' = "over"
  /\ UNCHANGED <<batchVars, cur, admission, aborted, execVars, pending, answer, told>>

-----------------------------------------------------------------------------
Client ==
  /\ \E c \in Calls, d \in {"allowed", "denied"} : Approvals!Resolve(c, d)
  /\ UNCHANGED <<at, batchVars, cur, admission, aborted, execVars>>

ApprovalTimer ==
  /\ \E c \in Calls : Approvals!Expire(c)
  /\ UNCHANGED <<at, batchVars, cur, admission, aborted, execVars>>

(* The process stops: the coordinator is disposed of first.                *)
Dispose ==
  /\ pending # {}
  /\ Approvals!CancelPending(Calls)
  /\ UNCHANGED <<at, batchVars, cur, admission, aborted, execVars>>

Ask == \E ks \in Asks : StartBatch(ks) \/ BudgetExhausted(ks)

Admission == \/ PolicyRejects \/ PolicyAllows \/ PolicyRequiresApproval
             \/ ApprovalRefused \/ ApprovalGiven \/ Recheck

Execution(c) == Skip(c) \/ Invoke(c) \/ Settle(c)

Implementation(c) ==
  \/ ToolStarts(c) \/ ToolNeverStarts(c) \/ ToolReads(c)
  \/ ToolInspected(c) \/ ToolInspectFails(c)
  \/ ToolWrites(c) \/ ToolCheckFails(c) \/ EffectLands(c) \/ ToolWrote(c)

ToolNext ==
  \/ Ask \/ Admission \/ CycleThrows \/ EndCycle \/ EndRun
  \/ Client \/ ApprovalTimer \/ Dispose \/ Abort
  \/ \E c \in Calls : Execution(c) \/ TimeOut(c) \/ Implementation(c)
-----------------------------------------------------------------------------
(* Properties                                                              *)

(* A call whose outcome says that it had no effect never has one: not when *)
(* it was resolved by a timeout, a cancellation or an error, and not later. *)
EffectIsReported ==
  \A c \in Calls : outcome[c] \in NoEffect => c \notin written /\ tool[c] # "writing"

(* Only a call that a client allowed, and was told to have allowed, gets to *)
(* the filesystem; an expired, cancelled or rechecked request does not.    *)
EffectIsApproved ==
  \A c \in Calls : (tool[c] \in {"checking", "writing"} \/ c \in written) =>
    answer[c] = "allowed" /\ told[c] = {"allowed"}

(* No call is started while an earlier one may still change the workspace, *)
(* nor after one of its batch that failed to.                              *)
EffectsAreSerial ==
  \A c, d \in Calls : c < d /\ kind[c] \in Effects /\ tool[d] # "idle" =>
    /\ tool[c] # "writing"
    /\ c \in Batch => outcome[c] = "completed"

(* Every request is decided once, and a client that was told its answer    *)
(* counts was told so by the decision (policy/approval-coordinator.ts).    *)
DecidesOnce == Approvals!Decision!Spec

(* Whatever the tools and the clients do, a batch ends.                    *)
BatchEnds == at \notin {"model", "over"} ~> at \in {"model", "over"}

(* The event loop runs the executor when it can go on, and the timers of   *)
(* approvals and invocations fire.  Nothing is assumed about tools, about  *)
(* clients or about the rest of the process; that a filesystem call of the *)
(* policy returns is part of the fairness of Admission.                    *)
Executor == Admission \/ CycleThrows \/ \E c \in Calls : Execution(c)
=============================================================================
