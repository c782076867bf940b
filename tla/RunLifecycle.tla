---------------------------- MODULE RunLifecycle ----------------------------
(***************************************************************************)
(* The life of a run: AgentRuntime of src/src/agents/agent-runtime.ts with *)
(* the run, attempt and transcript rows it writes, from admission to the   *)
(* terminal event, across cancellation, timeouts, storage failures and     *)
(* process restarts.  The session lane and the concurrency permits are the *)
(* modules SessionRunLane and RuntimeCapacity, whose actions are conjoined.*)
(*                                                                         *)
(* The program is single-threaded: a step is a segment of the code from    *)
(* one await to the next.  The stores are promises over a synchronous      *)
(* SQLite connection, so a store call takes effect in the segment that     *)
(* makes it and its result is seen in the next one.  Three kinds of        *)
(* activity interleave: the executors the lanes run (pc), the cancel()     *)
(* calls (canceller) and the finalization either of them starts (stage).   *)
(*                                                                         *)
(* One model call with its tool batch is one turn here; what happens in it *)
(* (usage reservation, tool admission, approval) is left to other modules. *)
(***************************************************************************)
EXTENDS Naturals, Sequences, FiniteSets

CONSTANTS
  Runs,               \* the runs clients may ask for
  Keys,               \* the route keys, one session and one lane each
  KeyOf,              \* the key each run is for
  Cancellable,        \* the runs clients may cancel (bounds the environment)
  LaneCapacity,       \* perSessionQueueCapacity
  Limit,              \* maxConcurrentModelCalls
  MaxToolIterations,  \* 8 in the code
  PageLimit,          \* 1000 in the code: the entries of one transcript page
  MaxFaults,          \* bound: storage calls that may fail
  MaxCrashes          \* bound: times the process may die

ASSUME RunAssumption ==
  /\ KeyOf \in [Runs -> Keys]
  /\ Cancellable \subseteq Runs
  /\ LaneCapacity \in Nat \ {0}
  /\ Limit \in Nat \ {0}
  /\ MaxToolIterations \in Nat \ {0}
  /\ PageLimit \in Nat \ {0}
  /\ MaxFaults \in Nat /\ MaxCrashes \in Nat

VARIABLES
  (* durable rows *)
  row,         \* row[r]: status and terminal code of the run
  attempt,     \* attempt[r]: the same of its one attempt
  transcript,  \* transcript[k]: the entries of the session of k
  (* volatile state of one run *)
  pc,          \* pc[r]: the executor
  iteration,   \* iteration[r]: tool cycles completed
  inputDone,   \* inputDone[r]: userInputCommitted
  pageTail,    \* pageTail[r]: the last sequence number on the page read
  aborted,     \* aborted[r]: controller.signal.aborted
  entry,       \* entry[r]: the cancellations map has an entry
  attemptSet,  \* attemptSet[r]: control.attemptId is assigned
  checkpointed,\* checkpointed[r]
  canceller,   \* canceller[r]: the cancel() call that entered checkpoint
  stage,       \* stage[r]: the finalization
  plan,        \* plan[r]: what it is about to commit
  journalOk,   \* journalOk[r]: journalAvailable
  (* lane and permits *)
  mapped, active, reserved, queue, work, withdrawn,
  out, waiters, permit,
  (* what the outside has seen, and facts kept for the properties *)
  published,   \* published[r]: the terminal events emitted for r
  raced,       \* raced[r]: r was checkpointed while its executor was starting
  (* environment *)
  up,          \* the process: "up", "down" or "recovering"
  faults, crashes

rows      == <<row, attempt, transcript>>
turnVars  == <<iteration, inputDone, pageTail>>
cancelVars == <<aborted, entry, canceller>>
endVars   == <<checkpointed, stage, plan, journalOk, published, raced>>
laneVars  == <<mapped, active, reserved, queue, work, withdrawn>>
permitVars == <<out, waiters, permit>>
envVars   == <<up, faults, crashes>>
vars == <<rows, pc, turnVars, attemptSet, cancelVars, endVars, laneVars, permitVars, envVars>>

Lane     == INSTANCE SessionRunLane WITH Works <- Runs
Capacity == INSTANCE RuntimeCapacity WITH Clients <- Runs

-----------------------------------------------------------------------------
TerminalStatus == {"completed", "failed", "cancelled"}
RunStatus      == {"queued", "running"} \cup TerminalStatus
Codes == {"none", "CANCELLED", "RUN_FAILED", "RUN_JOURNAL_FAILED",
          "TERMINAL_COMMIT_FAILED", "RUN_INTERRUPTED"}
Row(s, c) == [status |-> s, code |-> c]
NoRow == Row("absent", "none")

Entry(r, kind) == [run |-> r, kind |-> kind]
EntryKinds == {"input", "tools", "output"}

(* pc[r]                                                                   *)
(*   idle       admit() has not been called                                *)
(*   gone       of a dead process                                          *)
(*   listed     the same, and on the list of the startup reconciler        *)
(*   refused    the lane was full, or runs.create threw                    *)
(*   created    admit() awaits runs.create                                 *)
(*   admitted   the executor is with the lane, or waits for its permit     *)
(*   marked     it awaits updateStatus("running")                          *)
(*   announced  it awaits the journal entries of the attempt's start       *)
(*   recorded   it awaits attempts.create                                  *)
(*   loop       at the head of the iteration loop                          *)
(*   calling    it awaits the model call                                   *)
(*   tools      it awaits the tool batch                                   *)
(*   text       the final text is here, usage settlement is awaited        *)
(*   appended   it awaits appendBatch of the final exchange                *)
(*   cycle*     it awaits appendBatch of a tool cycle, with its decision   *)
(*   succeed, cancelled, exhausted: about to signal the checkpoint         *)
(*   catch, catchTimeout: in the catch block, after RUN_TIMEOUT or another error *)
(*   awaiting   it awaits the finalization it started                      *)
(*   finally    in the finally block                                       *)
(*   over       the executor has returned                                  *)
PCs == {"idle", "gone", "listed", "refused", "created", "admitted", "marked", "announced",
        "recorded", "loop", "calling", "tools", "text", "appended",
        "cycleContinue", "cycleCancel", "cycleFail",
        "succeed", "cancelled", "exhausted", "catch", "catchTimeout",
        "awaiting", "finally", "over"}

(* stage[r]: none; decided: the decision is journalled; commit1, commit2,  *)
(* commit3: before the commit, its retry, the fail-safe commit; committed; *)
(* recorded: the terminal journal entries are done; published; failed.     *)
Stages == {"none", "decided", "commit1", "commit2", "commit3", "committed",
           "recorded", "published", "failed"}
NoPlan == [status |-> "none", code |-> "none", withAttempt |-> FALSE]
Plans  == [status : TerminalStatus \cup {"none"}, code : Codes, withAttempt : BOOLEAN]

DurableTypeOK ==
  /\ row \in [Runs -> [status : RunStatus \cup {"absent"}, code : Codes]]
  /\ attempt \in [Runs -> [status : RunStatus \cup {"absent"}, code : Codes]]
  /\ transcript \in [Keys -> Seq([run : Runs, kind : EntryKinds])]

ExecutorTypeOK ==
  /\ pc \in [Runs -> PCs]
  /\ iteration \in [Runs -> 0..MaxToolIterations-1]
  /\ inputDone \in [Runs -> BOOLEAN]
  /\ pageTail \in [Runs -> Nat]
  /\ attemptSet \in [Runs -> BOOLEAN]
  /\ aborted \in [Runs -> BOOLEAN]
  /\ entry \in [Runs -> BOOLEAN]
  /\ canceller \in [Runs -> {"none", "awaiting", "answered", "rejected"}]

OutcomeTypeOK ==
  /\ checkpointed \in [Runs -> BOOLEAN]
  /\ stage \in [Runs -> Stages]
  /\ plan \in [Runs -> Plans]
  /\ journalOk \in [Runs -> BOOLEAN]
  /\ published \in [Runs -> Seq(TerminalStatus)]
  /\ raced \in [Runs -> BOOLEAN]

EnvTypeOK ==
  /\ up \in {"up", "down", "recovering"}
  /\ faults \in 0..MaxFaults
  /\ crashes \in 0..MaxCrashes

OwnTypeOK == DurableTypeOK /\ ExecutorTypeOK /\ OutcomeTypeOK /\ EnvTypeOK

TypeOK == OwnTypeOK /\ Lane!LaneTypeOK /\ Capacity!CapacityTypeOK

Init ==
  /\ row = [r \in Runs |-> NoRow]
  /\ attempt = [r \in Runs |-> NoRow]
  /\ transcript = [k \in Keys |-> <<>>]
  /\ pc = [r \in Runs |-> "idle"]
  /\ iteration = [r \in Runs |-> 0]
  /\ inputDone = [r \in Runs |-> FALSE]
  /\ pageTail = [r \in Runs |-> 0]
  /\ aborted = [r \in Runs |-> FALSE]
  /\ entry = [r \in Runs |-> FALSE]
  /\ attemptSet = [r \in Runs |-> FALSE]
  /\ checkpointed = [r \in Runs |-> FALSE]
  /\ canceller = [r \in Runs |-> "none"]
  /\ stage = [r \in Runs |-> "none"]
  /\ plan = [r \in Runs |-> NoPlan]
  /\ journalOk = [r \in Runs |-> TRUE]
  /\ Lane!LaneInit /\ Capacity!CapacityInit
  /\ published = [r \in Runs |-> <<>>]
  /\ raced = [r \in Runs |-> FALSE]
  /\ up = "up" /\ faults = 0 /\ crashes = 0

-----------------------------------------------------------------------------
(* A storage call that throws, and one that does not. *)
Fault   == faults < MaxFaults /\ faults' = faults + 1
NoFault == UNCHANGED faults

Goto(r, label) == pc' = [pc EXCEPT ![r] = label]

(* A journal append whose failure only degrades the journal. *)
JournalBestEffort(r) ==
  \/ NoFault /\ UNCHANGED journalOk
  \/ /\ journalOk[r] /\ Fault
     /\ journalOk' = [journalOk EXCEPT ![r] = FALSE]

(* Defect: a cancelled run is not counted as terminal. *)
OpenOrCancelled(r) == row[r].status \notin {"absent", "completed", "failed"}

(* isNonTerminal. *)
Open(r) == row[r].status \in {"queued", "running"}

-----------------------------------------------------------------------------
(* Admission.  The lane slot is reserved and the row inserted in one       *)
(* segment; when the insert throws the reservation is not given back.      *)
Admit(r) ==
  /\ up = "up" /\ pc[r] = "idle"
  /\ \/ /\ Lane!Reserve(r) /\ NoFault
        /\ row' = [row EXCEPT ![r] = Row("queued", "none")]
        /\ Goto(r, "created")
     \/ /\ Lane!Reserve(r) /\ Fault
        /\ Goto(r, "refused") /\ UNCHANGED row
     \/ /\ Lane!RejectFull(r) /\ NoFault
        /\ Goto(r, "refused") /\ UNCHANGED row
  /\ UNCHANGED <<attempt, transcript, turnVars, attemptSet, cancelVars, endVars,
                 permitVars, up, crashes>>

(* Defect: the run is enqueued without an entry in `cancellations'. *)
EnqueueRunWithoutEntry(r) ==
  /\ pc[r] = "created"
  /\ Lane!Enqueue(r)
  /\ Goto(r, "admitted")
  /\ IF work'[r] = "running" THEN Capacity!Acquire(r) ELSE UNCHANGED permitVars
  /\ UNCHANGED <<rows, turnVars, attemptSet, cancelVars, endVars, envVars>>

(* The rest of admit(): the cancellation entry, and enqueue, which runs    *)
(* the executor of an idle lane up to the wait for its permit.             *)
EnqueueRun(r) ==
  /\ pc[r] = "created"
  /\ Lane!Enqueue(r)
  /\ entry' = [entry EXCEPT ![r] = TRUE]
  /\ Goto(r, "admitted")
  /\ IF work'[r] = "running" THEN Capacity!Acquire(r) ELSE UNCHANGED permitVars
  /\ UNCHANGED <<rows, turnVars, attemptSet, aborted, canceller, endVars, envVars>>

(* The drain loop that ran r resumes.  The executor it calls cannot find   *)
(* its signal aborted: cancel() withdraws the work in the segment in which *)
(* it aborts.                                                              *)
DrainLane(r) ==
  /\ \/ /\ Lane!DrainNext(r)
        /\ \E s \in Runs : /\ work[s] = "queued" /\ work'[s] = "running"
                           /\ Capacity!Acquire(s)
     \/ Lane!DrainEnd(r) /\ UNCHANGED permitVars
  /\ UNCHANGED <<rows, pc, turnVars, attemptSet, cancelVars, endVars, envVars>>

PermitGranted(r) ==
  /\ Capacity!WakeUp(r)
  /\ UNCHANGED <<rows, pc, turnVars, attemptSet, cancelVars, endVars, laneVars, envVars>>

-----------------------------------------------------------------------------
(* The executor holds its permit and marks the row, whatever the row says  *)
(* by now: updateStatus has no guard.                                      *)
MarkRunning(r) ==
  /\ pc[r] = "admitted" /\ permit[r] = "held"
  /\ \/ /\ NoFault /\ Goto(r, "marked")
        /\ row' = [row EXCEPT ![r] = Row("running", "none")]
     \/ Fault /\ Goto(r, "catch") /\ UNCHANGED row
  /\ UNCHANGED <<attempt, transcript, turnVars, attemptSet, cancelVars, endVars,
                 laneVars, permitVars, up, crashes>>

(* attemptId is assigned before the attempt's row exists; run.started,     *)
(* attempt.started and stage.started are emitted.                          *)
AnnounceAttempt(r) ==
  /\ pc[r] = "marked"
  /\ attemptSet' = [attemptSet EXCEPT ![r] = TRUE]
  /\ JournalBestEffort(r)
  /\ Goto(r, "announced")
  /\ UNCHANGED <<rows, turnVars, cancelVars, checkpointed, stage, plan, published, raced,
                 laneVars, permitVars, up, crashes>>

(* attempts.create. *)
CreateAttempt(r) ==
  /\ pc[r] = "announced"
  /\ \/ /\ NoFault /\ Goto(r, "recorded")
        /\ attempt' = [attempt EXCEPT ![r] = Row("running", "none")]
     \/ Fault /\ Goto(r, "catch") /\ UNCHANGED attempt
  /\ UNCHANGED <<row, transcript, turnVars, attemptSet, cancelVars, endVars,
                 laneVars, permitVars, up, crashes>>

(* The journal entry run.accepted is required. *)
JournalAccepted(r) ==
  /\ pc[r] = "recorded"
  /\ \/ NoFault /\ Goto(r, "loop")
     \/ Fault /\ Goto(r, "catch")
  /\ UNCHANGED <<rows, turnVars, attemptSet, cancelVars, endVars, laneVars, permitVars,
                 up, crashes>>

(* A turn begins: the first PageLimit entries of the session are read and  *)
(* the call is prepared and dispatched.  Preparing it may throw (history,  *)
(* budget, usage cap, harness, storage).                                   *)
BeginTurn(r) ==
  LET n == Len(transcript[KeyOf[r]]) IN
  /\ pc[r] = "loop"
  /\ IF iteration[r] < MaxToolIterations
       THEN \/ /\ pageTail' = [pageTail EXCEPT ![r] = IF n > PageLimit THEN PageLimit ELSE n]
               /\ Goto(r, "calling")
            \/ Goto(r, "catch") /\ UNCHANGED pageTail
       ELSE Goto(r, "finally") /\ UNCHANGED pageTail
  /\ UNCHANGED <<rows, iteration, inputDone, attemptSet, cancelVars, endVars, laneVars,
                 permitVars, envVars>>

(* The call ends with text, with tool calls or with an error.  An aborted  *)
(* call usually fails, but nothing obliges a provider to notice.           *)
CallReturns(r) ==
  /\ pc[r] = "calling"
  /\ \E label \in {"text", "tools", "catch"} : Goto(r, label)
  /\ UNCHANGED <<rows, turnVars, attemptSet, cancelVars, endVars, laneVars, permitVars, envVars>>

(* Defect: the timeout is not told from other errors. *)
CallTimesOutAsError(r) ==
  /\ pc[r] = "calling" /\ ~aborted[r]
  /\ aborted' = [aborted EXCEPT ![r] = TRUE]
  /\ NoFault \/ Fault
  /\ Goto(r, "catch")
  /\ UNCHANGED <<rows, turnVars, attemptSet, entry, canceller, endVars, laneVars, permitVars,
                 up, crashes>>

(* The run timer fires, aborts the controller and rejects with RUN_TIMEOUT.*)
(* When marking the usage reservation uncertain throws as well, that error *)
(* takes the place of RUN_TIMEOUT.                                         *)
CallTimesOut(r) ==
  /\ pc[r] = "calling" /\ ~aborted[r]
  /\ aborted' = [aborted EXCEPT ![r] = TRUE]
  /\ \/ NoFault /\ Goto(r, "catchTimeout")
     \/ Fault /\ Goto(r, "catch")
  /\ UNCHANGED <<rows, turnVars, attemptSet, entry, canceller, endVars, laneVars, permitVars,
                 up, crashes>>

(* appendBatch: the tail must be the one the page ended with. *)
AppendExchange(r, kind) ==
  LET k == KeyOf[r] IN
  /\ NoFault
  /\ pageTail[r] = Len(transcript[k])
  /\ transcript' = [transcript EXCEPT ![k] =
       @ \o (IF inputDone[r] THEN <<Entry(r, kind)>>
                             ELSE <<Entry(r, "input"), Entry(r, kind)>>)]
AppendFails(r) ==
  /\ Fault \/ (pageTail[r] # Len(transcript[KeyOf[r]]) /\ NoFault)
  /\ Goto(r, "catch")
  /\ UNCHANGED transcript

(* Defect: a failed append of the final exchange goes unnoticed. *)
AppendTextUnchecked(r) ==
  /\ pc[r] = "text"
  /\ inputDone' = [inputDone EXCEPT ![r] = TRUE]
  /\ AppendExchange(r, "output") \/ (NoFault /\ UNCHANGED transcript)
  /\ Goto(r, "appended")
  /\ UNCHANGED <<row, attempt, iteration, pageTail, attemptSet, cancelVars, endVars,
                 laneVars, permitVars, up, crashes>>

AppendText(r) ==
  /\ pc[r] = "text"
  /\ inputDone' = [inputDone EXCEPT ![r] = TRUE]
  /\ (AppendExchange(r, "output") /\ Goto(r, "appended")) \/ AppendFails(r)
  /\ UNCHANGED <<row, attempt, iteration, pageTail, attemptSet, cancelVars, endVars,
                 laneVars, permitVars, up, crashes>>

(* attempt.completed is emitted and journalled. *)
CompleteAttempt(r) ==
  /\ pc[r] = "appended"
  /\ JournalBestEffort(r)
  /\ Goto(r, "succeed")
  /\ UNCHANGED <<rows, turnVars, attemptSet, cancelVars, checkpointed, stage, plan,
                 published, raced, laneVars, permitVars, up, crashes>>

(* Defect: > in place of >=. *)
CycleDecisionOffByOne(r, uncertain) ==
  IF aborted[r] THEN "cycleCancel"
  ELSE IF iteration[r] + 1 > MaxToolIterations \/ uncertain THEN "cycleFail"
  ELSE "cycleContinue"

(* decideToolCycle. *)
CycleDecision(r, uncertain) ==
  IF aborted[r] THEN "cycleCancel"
  ELSE IF iteration[r] + 1 >= MaxToolIterations \/ uncertain THEN "cycleFail"
  ELSE "cycleContinue"

(* The tool batch returns.  The decision is taken and the exchange is      *)
(* appended; a batch with a call that was never admitted throws instead.   *)
ToolsReturn(r) ==
  /\ pc[r] = "tools"
  /\ \/ /\ \/ /\ AppendExchange(r, "tools")
              /\ \E uncertain \in BOOLEAN : Goto(r, CycleDecision(r, uncertain))
           \/ AppendFails(r)
        /\ inputDone' = [inputDone EXCEPT ![r] = TRUE]
     \/ NoFault /\ Goto(r, "catch") /\ UNCHANGED <<transcript, inputDone>>
  /\ UNCHANGED <<row, attempt, iteration, pageTail, attemptSet, cancelVars, endVars,
                 laneVars, permitVars, up, crashes>>

(* The cycle's decision is journalled and followed. *)
EndCycle(r) ==
  /\ JournalBestEffort(r)
  /\ \/ /\ pc[r] = "cycleContinue" /\ Goto(r, "loop")
        /\ iteration' = [iteration EXCEPT ![r] = @ + 1]
     \/ pc[r] = "cycleCancel" /\ Goto(r, "cancelled") /\ UNCHANGED iteration
     \/ pc[r] = "cycleFail" /\ Goto(r, "exhausted") /\ UNCHANGED iteration
  /\ UNCHANGED <<rows, inputDone, pageTail, attemptSet, cancelVars, checkpointed, stage,
                 plan, published, raced, laneVars, permitVars, up, crashes>>

-----------------------------------------------------------------------------
(* checkpoint(signal, code), up to its first await, for the caller that    *)
(* comes first.  When the decision cannot be journalled it becomes a       *)
(* failure.                                                                *)
Starting(r) == work[r] = "running" /\ pc[r] \in {"admitted", "marked", "announced"}

Decided(signal) ==
  CASE signal = "success" -> "completed"
    [] signal = "cancel"  -> "cancelled"
    [] signal = "failure" -> "failed"

Decide(r, signal, code) ==
  /\ checkpointed' = [checkpointed EXCEPT ![r] = TRUE]
  /\ raced' = [raced EXCEPT ![r] = @ \/ Starting(r)]
  /\ stage' = [stage EXCEPT ![r] = "decided"]
  /\ \/ /\ NoFault
        /\ plan' = [plan EXCEPT ![r] = [status |-> Decided(signal), code |-> code,
                                        withAttempt |-> FALSE]]
        /\ UNCHANGED journalOk
     \/ /\ Fault
        /\ plan' = [plan EXCEPT ![r] = [status |-> "failed", code |-> "RUN_JOURNAL_FAILED",
                                        withAttempt |-> FALSE]]
        /\ journalOk' = [journalOk EXCEPT ![r] = FALSE]
  /\ UNCHANGED published

(* How the executor reaches the checkpoint: after the final exchange, from *)
(* a tool cycle, or from the catch block, which tells a cancellation from  *)
(* a failure by the aborted signal unless the error is RUN_TIMEOUT.        *)
Signal(r) ==
  CASE pc[r] = "succeed"      -> [kind |-> "success", code |-> "none"]
    [] pc[r] = "cancelled"    -> [kind |-> "cancel",  code |-> "CANCELLED"]
    [] pc[r] = "exhausted"    -> [kind |-> "failure", code |-> "RUN_FAILED"]
    [] pc[r] = "catchTimeout" -> [kind |-> "failure", code |-> "RUN_FAILED"]
    [] pc[r] = "catch"        -> [kind |-> IF aborted[r] THEN "cancel" ELSE "failure",
                                  code |-> "RUN_FAILED"]

(* Defect: the outcome is not decided once only. *)
SignalCheckpointTwice(r) ==
  /\ pc[r] \in {"succeed", "cancelled", "exhausted", "catch", "catchTimeout"}
  /\ Goto(r, "awaiting") /\ Decide(r, Signal(r).kind, Signal(r).code)
  /\ UNCHANGED <<rows, turnVars, attemptSet, cancelVars, laneVars, permitVars, up, crashes>>

SignalCheckpoint(r) ==
  /\ pc[r] \in {"succeed", "cancelled", "exhausted", "catch", "catchTimeout"}
  /\ IF checkpointed[r]
       THEN Goto(r, "finally") /\ UNCHANGED endVars /\ NoFault
       ELSE Goto(r, "awaiting") /\ Decide(r, Signal(r).kind, Signal(r).code)
  /\ UNCHANGED <<rows, turnVars, attemptSet, cancelVars, laneVars, permitVars, up, crashes>>

(* The finalization the executor awaits has ended, well or not. *)
AwaitFinalization(r) ==
  /\ pc[r] = "awaiting" /\ stage[r] \in {"published", "failed"}
  /\ Goto(r, "finally")
  /\ UNCHANGED <<rows, turnVars, attemptSet, cancelVars, endVars, laneVars, permitVars, envVars>>

(* Defect: the finally block does not delete the cancellation entry. *)
FinishKeepsEntry(r) ==
  /\ pc[r] = "finally"
  /\ Capacity!Release(r) /\ Lane!Return(r) /\ Goto(r, "over")
  /\ UNCHANGED <<rows, turnVars, attemptSet, cancelVars, endVars, envVars>>

(* The finally block; the drain loop of the lane resumes later. *)
Finish(r) ==
  /\ pc[r] = "finally"
  /\ Capacity!Release(r)
  /\ Lane!Return(r)
  /\ entry' = [entry EXCEPT ![r] = FALSE]
  /\ Goto(r, "over")
  /\ UNCHANGED <<rows, turnVars, attemptSet, aborted, canceller, endVars, envVars>>

-----------------------------------------------------------------------------
(* cancel(runId): abort, withdraw from the lane, and the checkpoint, which *)
(* does nothing when somebody else has entered it.                         *)
Cancel(r) ==
  /\ r \in Cancellable /\ entry[r]
  /\ aborted' = [aborted EXCEPT ![r] = TRUE]
  /\ IF withdrawn[r] THEN UNCHANGED laneVars ELSE Lane!Withdraw(r)
  /\ IF checkpointed[r]
       THEN /\ entry' = [entry EXCEPT ![r] = FALSE]
            /\ canceller' = [canceller EXCEPT ![r] =
                               IF @ = "awaiting" THEN @ ELSE "answered"]
            /\ UNCHANGED endVars /\ NoFault
       ELSE /\ canceller' = [canceller EXCEPT ![r] = "awaiting"]
            /\ Decide(r, "cancel", "CANCELLED")
            /\ UNCHANGED entry
  /\ UNCHANGED <<rows, pc, turnVars, attemptSet, permitVars, up, crashes>>

(* cancel() answers true, or rejects when the finalization failed. *)
CancelReturns(r) ==
  /\ canceller[r] = "awaiting"
  /\ \/ /\ stage[r] = "published"
        /\ canceller' = [canceller EXCEPT ![r] = "answered"]
        /\ entry' = [entry EXCEPT ![r] = FALSE]
     \/ /\ stage[r] = "failed"
        /\ canceller' = [canceller EXCEPT ![r] = "rejected"]
        /\ UNCHANGED entry
  /\ UNCHANGED <<rows, pc, turnVars, attemptSet, aborted, endVars, laneVars, permitVars, envVars>>

-----------------------------------------------------------------------------
(* Defect: the plan never names the attempt. *)
StartFinalizeWithoutAttempt(r) ==
  /\ stage[r] = "decided"
  /\ JournalBestEffort(r)
  /\ stage' = [stage EXCEPT ![r] = "commit1"]
  /\ UNCHANGED <<rows, pc, turnVars, attemptSet, cancelVars, checkpointed, plan, published,
                 raced, laneVars, permitVars, up, crashes>>

(* The finalization: the plan is completed with the attempt, if one has    *)
(* been named by now, and finalize.started is emitted and journalled.      *)
StartFinalize(r) ==
  /\ stage[r] = "decided"
  /\ plan' = [plan EXCEPT ![r].withAttempt = attemptSet[r]]
  /\ JournalBestEffort(r)
  /\ stage' = [stage EXCEPT ![r] = "commit1"]
  /\ UNCHANGED <<rows, pc, turnVars, attemptSet, cancelVars, checkpointed, published, raced,
                 laneVars, permitVars, up, crashes>>

(* commitTerminalOutcome(plan). *)
CommitResult(r, p) ==
  IF row[r] = Row(p.status, p.code) /\ (p.withAttempt => attempt[r] = Row(p.status, p.code))
    THEN "already-committed-same-outcome"
  ELSE IF ~Open(r) \/ (p.withAttempt /\ attempt[r].status # "running")
    THEN "conflict"
  ELSE "committed"

(* Defect: a conflict is taken for success. *)
CommitOutcomeIgnoringConflict(r, p) ==
  /\ NoFault
  /\ IF CommitResult(r, p) = "committed"
       THEN /\ row' = [row EXCEPT ![r] = Row(p.status, p.code)]
            /\ attempt' = IF p.withAttempt
                            THEN [attempt EXCEPT ![r] = Row(p.status, p.code)]
                            ELSE attempt
       ELSE UNCHANGED <<row, attempt>>

CommitOutcome(r, p) ==
  /\ NoFault
  /\ CommitResult(r, p) # "conflict"
  /\ IF CommitResult(r, p) = "committed"
       THEN /\ row' = [row EXCEPT ![r] = Row(p.status, p.code)]
            /\ attempt' = IF p.withAttempt
                            THEN [attempt EXCEPT ![r] = Row(p.status, p.code)]
                            ELSE attempt
       ELSE UNCHANGED <<row, attempt>>

(* Defect: the same plan is not tried again. *)
NextTryWithoutRetry(s) == CASE s = "commit1" -> "commit3" [] s = "commit2" -> "failed"
                            [] s = "commit3" -> "failed"

(* What follows a commit that threw or met a conflict: the same plan once  *)
(* more, the fail-safe plan, and run.infrastructure_failed.                *)
NextTry(s) == CASE s = "commit1" -> "commit2" [] s = "commit2" -> "commit3"
                [] s = "commit3" -> "failed"
FailSafe(p) == [p EXCEPT !.status = "failed", !.code = "TERMINAL_COMMIT_FAILED"]

Commit(r) ==
  /\ stage[r] \in {"commit1", "commit2", "commit3"}
  /\ \/ /\ CommitOutcome(r, plan[r])
        /\ stage' = [stage EXCEPT ![r] = "committed"]
        /\ UNCHANGED plan
     \/ /\ Fault \/ (CommitResult(r, plan[r]) = "conflict" /\ NoFault)
        /\ stage' = [stage EXCEPT ![r] = NextTry(@)]
        /\ plan' = IF stage[r] = "commit2" THEN [plan EXCEPT ![r] = FailSafe(@)] ELSE plan
        /\ UNCHANGED <<row, attempt>>
  /\ UNCHANGED <<transcript, pc, turnVars, attemptSet, cancelVars, checkpointed, journalOk,
                 published, raced, laneVars, permitVars, up, crashes>>

(* finalize.<status> and run.<status> are journalled if they can be. *)
JournalOutcome(r) ==
  /\ stage[r] = "committed"
  /\ JournalBestEffort(r)
  /\ stage' = [stage EXCEPT ![r] = "recorded"]
  /\ UNCHANGED <<rows, pc, turnVars, attemptSet, cancelVars, checkpointed, plan, published,
                 raced, laneVars, permitVars, up, crashes>>

(* The terminal event run.<status>. *)
PublishOutcome(r) ==
  /\ stage[r] = "recorded"
  /\ published' = [published EXCEPT ![r] = Append(@, plan[r].status)]
  /\ stage' = [stage EXCEPT ![r] = "published"]
  /\ UNCHANGED <<rows, pc, turnVars, attemptSet, cancelVars, checkpointed, plan, journalOk,
                 raced, laneVars, permitVars, envVars>>

-----------------------------------------------------------------------------
(* The process dies: what is left are the rows and what the outside saw.   *)
Crash ==
  /\ up # "down" /\ crashes < MaxCrashes
  /\ crashes' = crashes + 1 /\ up' = "down"
  /\ pc' = [r \in Runs |-> IF pc[r] \in {"idle", "refused"} THEN pc[r] ELSE "gone"]
  /\ iteration' = [r \in Runs |-> 0]
  /\ inputDone' = [r \in Runs |-> FALSE]
  /\ pageTail' = [r \in Runs |-> 0]
  /\ aborted' = [r \in Runs |-> FALSE]
  /\ entry' = [r \in Runs |-> FALSE]
  /\ attemptSet' = [r \in Runs |-> FALSE]
  /\ checkpointed' = [r \in Runs |-> FALSE]
  /\ canceller' = [r \in Runs |-> "none"]
  /\ stage' = [r \in Runs |-> "none"]
  /\ plan' = [r \in Runs |-> NoPlan]
  /\ journalOk' = [r \in Runs |-> TRUE]
  /\ mapped' = [k \in Keys |-> FALSE] /\ active' = [k \in Keys |-> FALSE]
  /\ reserved' = [k \in Keys |-> 0] /\ queue' = [k \in Keys |-> <<>>]
  /\ work' = [r \in Runs |-> IF work[r] \in {"new", "rejected"} THEN work[r] ELSE "done"]
  /\ withdrawn' = [r \in Runs |-> FALSE]
  /\ out' = 0 /\ waiters' = <<>>
  /\ permit' = [r \in Runs |-> IF permit[r] = "none" THEN "none" ELSE "released"]
  /\ UNCHANGED <<rows, published, raced, faults>>

(* Defect: the query asks for running runs only. *)
RestartListsRunning ==
  /\ up = "down"
  /\ \/ /\ NoFault /\ up' = "recovering"
        /\ pc' = [r \in Runs |-> IF row[r].status = "running" THEN "listed" ELSE pc[r]]
     \/ Fault /\ UNCHANGED <<pc, up>>
  /\ UNCHANGED <<rows, turnVars, attemptSet, cancelVars, endVars, laneVars, permitVars, crashes>>

(* The program is started again, and app.start() asks once for the runs    *)
(* that are queued or running.  When that throws, start() rejects and the  *)
(* process ends.                                                           *)
Restart ==
  /\ up = "down"
  /\ \/ /\ NoFault /\ up' = "recovering"
        /\ pc' = [r \in Runs |-> IF Open(r) THEN "listed" ELSE pc[r]]
     \/ Fault /\ UNCHANGED <<pc, up>>
  /\ UNCHANGED <<rows, turnVars, attemptSet, cancelVars, endVars, laneVars, permitVars, crashes>>

(* StartupRunReconciler: one transaction per run of the list, each of which*)
(* looks at the status again.  When one throws the process ends.           *)
ReconcileRun(r) ==
  /\ up = "recovering" /\ pc[r] = "listed"
  /\ \/ /\ NoFault /\ Goto(r, "gone") /\ UNCHANGED up
        /\ IF Open(r)
             THEN /\ row' = [row EXCEPT ![r] = Row("failed", "RUN_INTERRUPTED")]
                  /\ attempt' = IF attempt[r].status = "running"
                                  THEN [attempt EXCEPT ![r] = Row("failed", "RUN_INTERRUPTED")]
                                  ELSE attempt
             ELSE UNCHANGED <<row, attempt>>
     \/ Fault /\ up' = "down" /\ UNCHANGED <<row, attempt, pc>>
  /\ UNCHANGED <<transcript, turnVars, attemptSet, cancelVars, endVars, laneVars, permitVars,
                 crashes>>

(* The list has been worked through.  The usage reservations follow, and   *)
(* when that throws the process ends; else the gateway starts to accept    *)
(* requests, without another look at the runs.                             *)
StartAccepting ==
  /\ up = "recovering" /\ \A r \in Runs : pc[r] # "listed"
  /\ (NoFault /\ up' = "up") \/ (Fault /\ up' = "down")
  /\ UNCHANGED <<rows, pc, turnVars, attemptSet, cancelVars, endVars, laneVars, permitVars,
                 crashes>>

-----------------------------------------------------------------------------
Execute(r) ==
  \/ EnqueueRun(r) \/ MarkRunning(r) \/ AnnounceAttempt(r) \/ CreateAttempt(r)
  \/ JournalAccepted(r) \/ BeginTurn(r) \/ CallTimesOut(r)
  \/ AppendText(r) \/ CompleteAttempt(r) \/ ToolsReturn(r) \/ EndCycle(r)
  \/ SignalCheckpoint(r) \/ AwaitFinalization(r) \/ Finish(r)

Conclude(r) == StartFinalize(r) \/ Commit(r) \/ JournalOutcome(r) \/ PublishOutcome(r)

Recover == StartAccepting \/ \E r \in Runs : ReconcileRun(r)

(* What the program does by itself once it is under way.  That a provider  *)
(* answers is not part of it.                                              *)
Progress ==
  \/ \E r \in Runs : \/ Execute(r) \/ DrainLane(r) \/ PermitGranted(r)
                     \/ CancelReturns(r) \/ Conclude(r)
  \/ Recover

Next ==
  \/ Progress
  \/ \E r \in Runs : Admit(r) \/ Cancel(r) \/ CallReturns(r)
  \/ Crash \/ Restart

(* The event loop does not idle while a continuation is ready, and what an *)
(* executor awaits comes: storage calls are synchronous, each tool has its *)
(* own timeout, and the run timer ends a model call nobody has aborted.    *)
(* After cancel() that timer does nothing, so an aborted call ends only if *)
(* the provider lets it.  Nobody has to answer a call, to ask for a run, to*)
(* cancel one or to restart the program, and nothing is assumed about whose*)
(* turn it is.                                                             *)
Fairness == WF_vars(Progress)

Spec == Init /\ [][Next]_vars /\ Fairness

-----------------------------------------------------------------------------
Terminal(r) == row[r].status \in TerminalStatus

(* The process that accepted r is dead. *)
Dead(r) == pc[r] \in {"gone", "listed"}

EntriesOf(r) == SelectSeq(transcript[KeyOf[r]], LAMBDA e : e.run = r)

(* ADR 0006, "completion, cancellation, timeout, and failure races cannot  *)
(* emit conflicting terminal results": whatever the order in which the     *)
(* executor, cancel() and the timer reach the checkpoint, and however often*)
(* commits are retried, at most one terminal event leaves for a run.       *)
OneTerminalEvent == \A r \in Runs : Len(published[r]) <= 1

(* A terminal event tells the status the row has, then and afterwards.     *)
(* The exception is a run cancelled while its executor was starting: see   *)
(* CancelledWaiterStaysCancelled.                                          *)
PublishedIsDurable ==
  \A r \in Runs : ~raced[r] /\ published[r] # <<>> => row[r].status = Head(published[r])

(* The attempt row of a terminal run, if there is one, has the status and  *)
(* the code of the run: the two rows are written by the finalization or by *)
(* the restart, never one by each.  The exception is an attempt that is    *)
(* still running, under a run that was cancelled while its executor was    *)
(* starting: see TerminalRunHasNoRunningAttempt.                           *)
AttemptEndsWithRun ==
  \A r \in Runs : Terminal(r) =>
    \/ attempt[r] \in {NoRow, row[r]}
    \/ raced[r] /\ attempt[r] = Row("running", "none")

(* A terminal row is not touched again, neither by a late executor, nor by *)
(* a second finalization, nor by the restart.                              *)
TerminalRowIsFinal ==
  [][\A r \in Runs : Terminal(r) /\ ~raced[r] => row'[r] = row[r]]_row

(* The last entry of r in its session is an output. *)
EndsWithOutput(r) == LET t == transcript[KeyOf[r]] IN
  \E i \in 1..Len(t) :
    t[i] = Entry(r, "output") /\ \A j \in (i+1)..Len(t) : t[j].run # r

(* ADR 0006, "transcript entries required by the successful turn have been *)
(* committed": a completed run has its final exchange in the transcript,   *)
(* and nothing of it after that, whatever crashed in between.              *)
CompletedHasOutput ==
  \A r \in Runs : row[r].status = "completed" => EndsWithOutput(r)

(* Runs of a session do not interleave in its transcript, and each run's   *)
(* part starts with its input and holds it once.                           *)
TranscriptIsSerial ==
  \A k \in Keys : LET t == transcript[k] IN
    /\ \A i, j \in 1..Len(t) : i < j /\ t[i].run = t[j].run =>
         /\ \A m \in i..j : t[m].run = t[i].run
         /\ t[j].kind # "input"
    /\ \A i \in 1..Len(t) : t[i].kind # "input" => i > 1 /\ t[i-1].run = t[i].run

(* No path leads out of an executor past the checkpoint: not the end of the*)
(* iteration loop, not an error of the catch block.                        *)
ExitIsCheckpointed ==
  \A r \in Runs : pc[r] \in {"finally", "over"} => checkpointed[r]

(* ADR 0007, "a stale expectedTailSequence fails explicitly": an append is *)
(* refused only when somebody else has appended since the page was read, so*)
(* that never happens while the lane runs one run at a time.  It holds as  *)
(* long as the session fits in one page.                                   *)
TailIsStaleOnlyIfMoved ==
  \A r \in Runs : pc[r] \in {"calling", "text", "tools"} =>
    pageTail[r] = Len(transcript[KeyOf[r]])

(* As long as the outcome of an accepted run is open it can be cancelled.  *)
CancellableWhileUndecided ==
  \A r \in Runs :
    pc[r] \notin {"idle", "refused", "created"} /\ ~Dead(r) /\ ~checkpointed[r] => entry[r]

(* A cancel() that reaches the lane finds its own work still there.  Later *)
(* it would act on whatever lane object its session has by then: drop the  *)
(* one another run has reserved a slot of, and let two runs run at once.   *)
CancelFindsItsLane ==
  \A r \in Runs : entry[r] /\ ~withdrawn[r] => work[r] \in {"queued", "running"}

(* Finalization survives two storage failures: it gives up only after a    *)
(* third, or when its plan names an attempt that has no row.               *)
FinalizationGivesUpLate ==
  \A r \in Runs : stage[r] = "failed" =>
    faults >= 3 \/ (plan[r].withAttempt /\ (attempt[r] = NoRow \/ raced[r]))

(* ADR 0006, "timeout is not treated as an explicit user cancellation": a  *)
(* run that nobody cancelled is not announced as cancelled, whichever of   *)
(* the timer, the provider and cancel() comes first.  A storage failure in *)
(* the cleanup after a timeout does hide the timeout (CallTimesOut).       *)
TimeoutIsNotCancellation ==
  \A r \in Runs : published[r] = <<"cancelled">> /\ faults = 0 =>
    canceller[r] # "none" \/ Dead(r)

(* Once the gateway accepts requests, no run of an earlier process is open:*)
(* the one list app.start() takes before it starts the gateway has all of  *)
(* them, and a storage failure anywhere in the pass keeps the gateway shut.*)
NoOrphanAfterRestart ==
  \A r \in Runs : up = "up" /\ Dead(r) => ~Open(r)

(* A cancelled model call that its provider does not end.                  *)
Abandoned(r) == pc[r] = "calling" /\ aborted[r]

(* Unless a provider keeps a cancelled call for ever, an executor that     *)
(* reached its lane ends, and with it the lane moves on.                   *)
ExecutorEnds ==
  \/ \E r \in Runs : <>[]Abandoned(r)
  \/ \A r \in Runs : work[r] \in {"queued", "running"} ~> work[r] \in {"done", "dropped"}

(* The row of an accepted run becomes terminal: neither the lane, nor the  *)
(* permits, nor a lost continuation of the finalization keeps it open for  *)
(* ever.  Not promised are a run whose finalization gave up (see           *)
(* FinalizationGivesUpLate), a run cancelled while it was starting (see    *)
(* CancelledWaiterStaysCancelled), a run whose process has died (see       *)
(* NoOrphanAfterRestart) and a run that waits behind another one's         *)
(* cancelled call whose provider does not end it.  A cancelled call of its *)
(* own is no excuse: the cancellation settles the row.                     *)
AcceptedRunSettles ==
  \A r \in Runs :
    \/ \E s \in Runs \ {r} : <>[]Abandoned(s)
    \/ Open(r) ~> (~Open(r) \/ raced[r] \/ stage[r] = "failed" \/ up # "up")

-----------------------------------------------------------------------------
(* What documents of the repository say and the code does not do.          *)

(* ADR 0006, "Exactly one terminal transition is permitted for each runId":*)
(* a run that was cancelled while it waited for a permit stays cancelled.  *)
CancelledWaiterStaysCancelled ==
  \A r \in Runs : [](row[r].status = "cancelled" /\ permit[r] = "waiting"
                       => [](row[r].status = "cancelled"))

(* ADR 0006, "validation that the current attempt is already terminal": no *)
(* terminal run has an attempt that is still running.                      *)
TerminalRunHasNoRunningAttempt ==
  \A r \in Runs : Terminal(r) => attempt[r].status # "running"

(* ADR 0006, "the lane must still be released through a guaranteed cleanup *)
(* path so one broken run cannot permanently deadlock the session": an     *)
(* executor ends even when the provider ignores that its call was aborted. *)
LaneIsReleased ==
  \A r \in Runs : work[r] = "running" ~> work[r] = "done"

(* ADR 0006, "Agent Runtime waits for required cleanup and transcript      *)
(* consistency work before finalizing run.cancelled".                      *)
NothingAppendedAfterEvent ==
  [][\A r \in Runs : published[r] # <<>> => EntriesOf(r)' = EntriesOf(r)]_transcript

(* ADR 0006, "lane release occurs in a finally-equivalent cleanup path":   *)
(* the reserved slots of a lane are those of runs still being admitted.    *)
ReservationsAreReturned ==
  \A k \in Keys : reserved[k] = Cardinality({r \in Runs : KeyOf[r] = k /\ pc[r] = "created"})

(* ADR 0006, "A run becomes failed when it cannot produce and commit a     *)
(* valid completed outcome": one storage failure does not leave a run open *)
(* whose executor has ended.                                               *)
OneFaultIsSurvived ==
  \A r \in Runs : pc[r] = "over" /\ faults <= 1 /\ ~raced[r] => ~Open(r)
=============================================================================
