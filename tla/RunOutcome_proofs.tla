-------------------------- MODULE RunOutcome_proofs --------------------------
(***************************************************************************)
(* The outcome of a run, for every number of runs and sessions, every      *)
(* capacity and limit, and every number of storage failures and crashes:   *)
(* its row ends once, its attempt ends with it, its terminal event tells   *)
(* the status of the row, and it can be cancelled for as long as nobody    *)
(* has decided it.                                                         *)
(*                                                                         *)
(* Three invariants are added to RunInv of RunLifecycle_proofs.  Linked    *)
(* ties where an executor stands to what the lane and the permits know of  *)
(* its run: it is what shows that a run that was cancelled in the queue is *)
(* never executed, so that its row is not marked running after its commit. *)
(* Told relates the rows, the plan of the finalization and the published   *)
(* event, and counts the storage failures of the finalization.  Blamed     *)
(* says where an aborted signal can come from.                             *)
(***************************************************************************)
EXTENDS RunLifecycle_proofs

Outside  == {"idle", "gone", "listed", "refused"}
InFlight == PCs \ (Outside \cup {"created", "admitted", "over"})
Settled  == {"committed", "recorded", "published"}

Linked(r) ==
  /\ pc[r] = "idle" => work[r] = "new"
  /\ pc[r] = "created" => work[r] = "reserved"
  /\ pc[r] = "admitted" => work[r] \in {"queued", "running", "dropped"}
  /\ pc[r] \in InFlight => work[r] = "running"
  /\ work[r] = "queued" => pc[r] = "admitted"
  /\ permit[r] # "none" => work[r] \in {"running", "returned", "done"}
  /\ work[r] = "dropped" => withdrawn[r]
  /\ withdrawn[r] => checkpointed[r]
  /\ work[r] = "queued" /\ checkpointed[r] => withdrawn[r]
  /\ Starting(r) /\ checkpointed[r] => raced[r]
  /\ pc[r] = "over" => ~entry[r]
  /\ pc[r] \notin Outside \cup {"created"} /\ ~checkpointed[r] => entry[r]
  /\ up # "up" => pc[r] \in Outside
  /\ up = "recovering" /\ Open(r) => pc[r] = "listed"
  /\ up = "up" /\ Dead(r) => pc[r] = "gone" /\ ~Open(r)

(* The commit of the plan cannot succeed: it names an attempt without row, *)
(* or its run was cancelled while its executor was starting.               *)
Blocked(r) == plan[r].withAttempt /\ (attempt[r] = NoRow \/ raced[r])

Told(r) ==
  /\ pc[r] \in {"idle", "refused"} => row[r] = NoRow /\ attempt[r] = NoRow
  /\ pc[r] \notin Outside /\ stage[r] \notin Settled => Open(r)
  /\ pc[r] \in {"created", "admitted", "marked", "announced"} => attempt[r] = NoRow
  /\ Open(r) => attempt[r] \in {NoRow, Row("running", "none")}
  /\ Terminal(r) => \/ attempt[r] \in {NoRow, row[r]}
                    \/ raced[r] /\ attempt[r] = Row("running", "none")
  /\ pc[r] = "announced" => attemptSet[r]
  /\ ~Dead(r) /\ ~attemptSet[r] => attempt[r] = NoRow
  /\ stage[r] \notin {"none", "decided"} /\ ~raced[r] => plan[r].withAttempt = attemptSet[r]
  /\ stage[r] \in Settled /\ ~raced[r] => row[r].status = plan[r].status
  /\ stage[r] = "published" => published[r] = <<plan[r].status>>
  /\ ~raced[r] /\ published[r] # <<>> => Terminal(r) /\ row[r].status = Head(published[r])
  /\ stage[r] = "commit2" => faults >= 1 \/ Blocked(r)
  /\ stage[r] = "commit3" => faults >= 2 \/ Blocked(r)
  /\ stage[r] = "failed"  => faults >= 3 \/ Blocked(r)

Blamed(r) ==
  /\ pc[r] \in {"cycleCancel", "cancelled"} => aborted[r]
  /\ faults = 0 /\ aborted[r] /\ pc[r] \notin {"catchTimeout", "awaiting", "finally", "over"}
       => canceller[r] # "none"
  /\ faults = 0 /\ plan[r].status = "cancelled" => canceller[r] # "none"

LinkedOK == \A r \in Runs : Linked(r)
ToldOK   == \A r \in Runs : Told(r)
BlamedOK == \A r \in Runs : Blamed(r)

OutcomeInv == RunInv /\ LinkedOK /\ ToldOK /\ BlamedOK

-----------------------------------------------------------------------------
(* What the steps change of a run, said once for all the steps that do it. *)

(* The executor goes on inside a turn, or leaves it for the checkpoint's   *)
(* result.                                                                 *)
Turn(r) ==
  \/ JournalAccepted(r) \/ BeginTurn(r) \/ CallReturns(r) \/ CallTimesOut(r)
  \/ AppendText(r) \/ CompleteAttempt(r) \/ ToolsReturn(r) \/ EndCycle(r)
  \/ AwaitFinalization(r)

Midway == InFlight \ {"marked", "announced"}

(* The storage failures are counted. *)
LEMMA FaultsGrow ==
  ASSUME EnvTypeOK, Fault \/ NoFault
  PROVE  faults \in Nat /\ faults' \in Nat /\ faults' >= faults
BY RunAssumption DEF EnvTypeOK, Fault, NoFault

(* A turn moves one executor and leaves the outcome, the lanes and the     *)
(* permits alone.                                                          *)
LEMMA TurnFrame ==
  ASSUME OwnTypeOK, NEW r \in Runs, Turn(r)
  PROVE  /\ pc[r] \in Midway /\ pc' = [pc EXCEPT ![r] = pc'[r]] /\ pc'[r] \in Midway
         /\ UNCHANGED <<row, attempt, attemptSet, entry, canceller, checkpointed, stage,
                        plan, published, raced, laneVars, permitVars, up, crashes>>
         /\ Fault \/ NoFault
<1> USE DEF Midway, InFlight, Outside, PCs, OwnTypeOK, ExecutorTypeOK, Goto, rows, turnVars,
            cancelVars, endVars, envVars
<1>1. CASE JournalAccepted(r) \/ CallReturns(r)
  BY <1>1 DEF JournalAccepted, CallReturns, NoFault
<1>2. CASE BeginTurn(r)
  BY <1>2 DEF BeginTurn, NoFault
<1>3. CASE CallTimesOut(r)
  BY <1>3 DEF CallTimesOut
<1>4. CASE AppendText(r)
  BY <1>4 DEF AppendText, AppendExchange, AppendFails
<1>5. CASE CompleteAttempt(r)
  BY <1>5 DEF CompleteAttempt, JournalBestEffort
<1>6. CASE ToolsReturn(r)
  <2>1. pc[r] = "tools" /\ (Fault \/ NoFault)
    BY <1>6 DEF ToolsReturn, AppendExchange, AppendFails
  <2>2. \E label \in {"cycleContinue", "cycleCancel", "cycleFail", "catch"} : Goto(r, label)
    <3>1. \A uncertain \in BOOLEAN :
            CycleDecision(r, uncertain) \in {"cycleContinue", "cycleCancel", "cycleFail"}
      BY DEF CycleDecision
    <3> HIDE DEF Goto
    <3> QED
      BY <1>6, <3>1 DEF ToolsReturn, AppendFails
  <2>3. /\ pc'[r] \in {"cycleContinue", "cycleCancel", "cycleFail", "catch"}
        /\ pc' = [pc EXCEPT ![r] = pc'[r]]
    BY <2>2
  <2>4. UNCHANGED <<row, attempt, attemptSet, entry, canceller, checkpointed, stage,
                    plan, published, raced, laneVars, permitVars, up, crashes>>
    BY <1>6 DEF ToolsReturn
  <2> QED
    BY <2>1, <2>3, <2>4
<1>7. CASE EndCycle(r)
  BY <1>7 DEF EndCycle, JournalBestEffort
<1>8. CASE AwaitFinalization(r)
  BY <1>8 DEF AwaitFinalization, NoFault
<1> QED
  BY <1>1, <1>2, <1>3, <1>4, <1>5, <1>6, <1>7, <1>8 DEF Turn

(* The finalization of a run leaves its executor, cancel() and the lanes   *)
(* alone, and exists only for a run that is neither gone nor waiting to be *)
(* admitted.                                                               *)
LEMMA ConcludeFrame ==
  ASSUME ControlOK, NEW r \in Runs, Conclude(r)
  PROVE  /\ pc[r] \notin Outside /\ checkpointed[r] /\ stage[r] # "none"
         /\ UNCHANGED <<pc, attemptSet, aborted, entry, canceller, checkpointed, raced,
                        transcript, inputDone, pageTail, laneVars, permitVars, up, crashes>>
         /\ Fault \/ NoFault
<1> USE DEF ControlOK, Control, Dead, Outside, turnVars, cancelVars, envVars, rows
<1>1. CASE StartFinalize(r)
  BY <1>1 DEF StartFinalize, JournalBestEffort
<1>2. CASE Commit(r)
  BY <1>2 DEF Commit, CommitOutcome
<1>3. CASE JournalOutcome(r)
  BY <1>3 DEF JournalOutcome, JournalBestEffort
<1>4. CASE PublishOutcome(r)
  BY <1>4 DEF PublishOutcome, NoFault
<1> QED
  BY <1>1, <1>2, <1>3, <1>4 DEF Conclude

(* What a commit does to the rows: it writes both from the plan when the   *)
(* run is open, and nothing otherwise.                                     *)
LEMMA CommitEffect ==
  ASSUME OwnTypeOK, NEW r \in Runs, Commit(r), Open(r), plan[r].status # "none"
  PROVE  \/ /\ stage' = [stage EXCEPT ![r] = "committed"] /\ plan' = plan
            /\ NoFault
            /\ row' = [row EXCEPT ![r] = Row(plan[r].status, plan[r].code)]
            /\ attempt' = IF plan[r].withAttempt
                            THEN [attempt EXCEPT ![r] = Row(plan[r].status, plan[r].code)]
                            ELSE attempt
         \/ /\ stage' = [stage EXCEPT ![r] = NextTry(stage[r])]
            /\ plan' = IF stage[r] = "commit2" THEN [plan EXCEPT ![r] = FailSafe(plan[r])] ELSE plan
            /\ UNCHANGED <<row, attempt>>
            /\ \/ Fault
               \/ NoFault /\ plan[r].withAttempt /\ attempt[r].status # "running"
<1>1. plan[r].status \in TerminalStatus
  BY DEF OwnTypeOK, OutcomeTypeOK, Plans
<1>2. row[r] # Row(plan[r].status, plan[r].code)
  BY <1>1 DEF Row, Open, TerminalStatus
<1>3. CommitResult(r, plan[r]) \in {"committed", "conflict"}
  BY <1>2 DEF CommitResult
<1>4. CommitResult(r, plan[r]) = "conflict" => plan[r].withAttempt /\ attempt[r].status # "running"
  BY <1>2 DEF CommitResult
<1>5. CASE CommitOutcome(r, plan[r]) /\ stage' = [stage EXCEPT ![r] = "committed"] /\ UNCHANGED plan
  BY <1>3, <1>5 DEF CommitOutcome
<1>6. CASE /\ Fault \/ (CommitResult(r, plan[r]) = "conflict" /\ NoFault)
           /\ stage' = [stage EXCEPT ![r] = NextTry(@)]
           /\ plan' = IF stage[r] = "commit2" THEN [plan EXCEPT ![r] = FailSafe(@)] ELSE plan
           /\ UNCHANGED <<row, attempt>>
  BY <1>4, <1>6
<1> QED
  BY <1>5, <1>6 DEF Commit

(* What the drain loop does to work: the one that has returned is done,    *)
(* wanted work is started and withdrawn work dropped, from the queue.      *)
LEMMA DrainEffect ==
  ASSUME LaneP!LaneInv, NEW r \in Runs, Lane!DrainNext(r) \/ Lane!DrainEnd(r)
  PROVE  /\ UNCHANGED withdrawn
         /\ \A s \in Runs :
              \/ work'[s] = work[s]
              \/ work[s] = "returned" /\ work'[s] = "done"
              \/ work[s] = "queued" /\ ~withdrawn[s] /\ work'[s] = "running"
              \/ work[s] = "queued" /\ withdrawn[s] /\ work'[s] = "dropped"
<1> DEFINE k == KeyOf[r]
<1>1. k \in Keys /\ queue[k] \in Seq(Runs)
  BY RunAssumption DEF LaneP!LaneInv, LaneP!LaneTypeOK
<1>2. \A i \in 1..Len(queue[k]) : queue[k][i] \in Runs /\ work[queue[k][i]] = "queued"
  BY <1>1 DEF LaneP!LaneInv, LaneP!QueueHoldsWaitingWork
<1>3. Len(queue[k]) \in Nat
  BY <1>1
<1>4. CASE Lane!DrainNext(r)
  <2>1. PICK i \in Lane!Wanted(k) :
          /\ \A j \in Lane!Wanted(k) : i <= j
          /\ work' = [v \in Runs |->
                        IF v = r THEN "done"
                        ELSE IF v = queue[k][i] THEN "running"
                        ELSE IF \E j \in 1..(i-1) : v = queue[k][j] THEN "dropped"
                        ELSE work[v]]
    BY <1>4 DEF Lane!DrainNext
  <2>2. i \in 1..Len(queue[k]) /\ ~withdrawn[queue[k][i]]
    BY <2>1 DEF Lane!Wanted
  <2>3. \A j \in 1..(i-1) : j \in 1..Len(queue[k]) /\ withdrawn[queue[k][j]]
    BY <1>3, <2>1, <2>2 DEF Lane!Wanted
  <2>4. work[r] = "returned" /\ UNCHANGED withdrawn
    BY <1>4 DEF Lane!DrainNext
  <2> HIDE DEF k
  <2> QED
    BY <1>2, <2>1, <2>2, <2>3, <2>4
<1>5. CASE Lane!DrainEnd(r)
  <2>1. /\ work[r] = "returned" /\ UNCHANGED withdrawn /\ Lane!Wanted(k) = {}
        /\ work' = [v \in Runs |->
                      IF v = r THEN "done"
                      ELSE IF \E j \in 1..Len(queue[k]) : v = queue[k][j] THEN "dropped"
                      ELSE work[v]]
    BY <1>5 DEF Lane!DrainEnd
  <2>2. \A j \in 1..Len(queue[k]) : withdrawn[queue[k][j]]
    BY <2>1 DEF Lane!Wanted
  <2> HIDE DEF k
  <2> QED
    BY <1>2, <2>1, <2>2
<1> QED
  BY <1>4, <1>5

(* Who holds, waits for or has returned a permit: taking one makes somebody*)
(* such, a wake-up and a release nobody else.                              *)
LEMMA PermitEffect ==
  ASSUME CapacityP!CapacityInv, NEW r \in Runs
  PROVE  /\ Capacity!Acquire(r) =>
              \A s \in Runs : s # r => permit'[s] = permit[s]
         /\ Capacity!WakeUp(r) \/ Capacity!Release(r) =>
              \A s \in Runs : permit'[s] = "none" <=> permit[s] = "none"
<1> USE DEF CapacityP!CapacityInv, CapacityP!CapacityTypeOK
<1>1. Capacity!Acquire(r) => \A s \in Runs : s # r => permit'[s] = permit[s]
  BY DEF Capacity!Acquire, Capacity!AcquireFree, Capacity!AcquireWait
<1>2. Capacity!WakeUp(r) => \A s \in Runs : permit'[s] = "none" <=> permit[s] = "none"
  BY DEF Capacity!WakeUp
<1>3. ASSUME Capacity!Release(r)
      PROVE  \A s \in Runs : permit'[s] = "none" <=> permit[s] = "none"
  <2>1. CASE waiters = <<>>
    BY <1>3, <2>1 DEF Capacity!Release
  <2>2. CASE waiters # <<>>
    <3>1. 1 \in 1..Len(waiters) /\ Head(waiters) = waiters[1] /\ waiters[1] \in Runs
      BY <2>2
    <3>2. permit[Head(waiters)] = "waiting"
      BY <3>1 DEF CapacityP!WaitersAreWaiting
    <3>3. permit' = [permit EXCEPT ![r] = "released", ![Head(waiters)] = "woken"]
      BY <1>3, <2>2 DEF Capacity!Release
    <3>4. permit[r] = "held"
      BY <1>3 DEF Capacity!Release
    <3> QED
      BY <3>1, <3>2, <3>3, <3>4
  <2> QED
    BY <2>1, <2>2
<1> QED
  BY <1>1, <1>2, <1>3

-----------------------------------------------------------------------------
(* Linked: the executors and what the lane knows of them.                  *)

(* A step that leaves what Linked reads of a run alone. *)
LEMMA LinkedStutter ==
  ASSUME NEW s \in Runs, Linked(s), up' = up,
         pc'[s] = pc[s], work'[s] = work[s], permit'[s] = "none" <=> permit[s] = "none",
         withdrawn'[s] = withdrawn[s], checkpointed'[s] = checkpointed[s],
         raced'[s] = raced[s], entry'[s] = entry[s], row'[s] = row[s]
  PROVE  Linked(s)'
BY DEF Linked, Dead, Starting, Open

LEMMA Init_Linked == Init => LinkedOK
BY DEF Init, LinkedOK, Linked, Dead, Lane!LaneInit, Capacity!CapacityInit, Starting, Outside,
   InFlight, PCs, Open, NoRow, Row

(* Admission takes a slot, or the run is refused. *)
LEMMA Admit_Linked ==
  ASSUME OutcomeInv, NEW r \in Runs, Admit(r)
  PROVE  LinkedOK'
<1> USE DEF OutcomeInv, RunInv, LinkedOK, OwnTypeOK, ExecutorTypeOK, DurableTypeOK
<1>1. /\ pc[r] = "idle" /\ work[r] = "new" /\ pc'[r] \in {"created", "refused"} /\ up = "up"
      /\ pc'[r] = "created" => work'[r] = "reserved"
      /\ work'[r] \in {"reserved", "rejected"}
      /\ UNCHANGED <<entry, checkpointed, raced, permit, withdrawn, up>>
      /\ \A s \in Runs : s # r => pc'[s] = pc[s] /\ work'[s] = work[s] /\ row'[s] = row[s]
  BY DEF Admit, Goto, Lane!Reserve, Lane!RejectFull, cancelVars, endVars, permitVars,
     LaneP!LaneInv, LaneP!LaneTypeOK
<1>2. ~entry[r] /\ ~checkpointed[r] /\ permit[r] = "none" /\ ~withdrawn[r]
  BY <1>1 DEF ControlOK, Control, Dead, Linked
<1>3. Linked(r)'
  BY <1>1, <1>2 DEF Linked, Dead, Starting, Outside, InFlight
<1> QED
  BY <1>1, <1>3, LinkedStutter

(* Enqueued work runs at once or waits in the queue; either way the run    *)
(* can be cancelled from now on.                                           *)
LEMMA EnqueueRun_Linked ==
  ASSUME OutcomeInv, NEW r \in Runs, EnqueueRun(r)
  PROVE  LinkedOK'
<1> USE DEF OutcomeInv, RunInv, LinkedOK, OwnTypeOK, ExecutorTypeOK
<1>1. /\ pc[r] = "created" /\ pc'[r] = "admitted" /\ entry'[r]
      /\ work'[r] \in {"queued", "running"}
      /\ UNCHANGED <<row, checkpointed, raced, withdrawn, up>>
      /\ \A s \in Runs : s # r => pc'[s] = pc[s] /\ work'[s] = work[s] /\ entry'[s] = entry[s]
  BY DEF EnqueueRun, Goto, Lane!Enqueue, rows, endVars, envVars, LaneP!LaneInv,
     LaneP!LaneTypeOK
<1>2. /\ work'[r] = "queued" => permit' = permit
      /\ \A s \in Runs : s # r => permit'[s] = permit[s]
  BY PermitEffect DEF EnqueueRun, permitVars
<1>3. ~checkpointed[r] /\ permit[r] = "none" /\ ~withdrawn[r] /\ up = "up"
  BY <1>1 DEF ControlOK, Control, Dead, Linked, Outside
<1>4. Linked(r)'
  BY <1>1, <1>2, <1>3 DEF Linked, Dead, Starting, Outside, InFlight
<1> QED
  BY <1>1, <1>2, <1>4, LinkedStutter

(* The drain loop starts wanted work only: nobody has decided it yet. *)
LEMMA DrainLane_Linked ==
  ASSUME OutcomeInv, NEW r \in Runs, DrainLane(r)
  PROVE  LinkedOK'
<1> USE DEF OutcomeInv, RunInv, LinkedOK
<1>1. UNCHANGED <<pc, row, entry, checkpointed, raced, up>>
  BY DEF DrainLane, rows, cancelVars, endVars, envVars
<1>2. /\ UNCHANGED withdrawn
      /\ \A s \in Runs :
           \/ work'[s] = work[s]
           \/ work[s] = "returned" /\ work'[s] = "done"
           \/ work[s] = "queued" /\ ~withdrawn[s] /\ work'[s] = "running"
           \/ work[s] = "queued" /\ withdrawn[s] /\ work'[s] = "dropped"
  BY DrainEffect DEF DrainLane
<1>3. \A s \in Runs : (permit'[s] = "none" <=> permit[s] = "none") \/ work'[s] = "running"
  BY PermitEffect DEF DrainLane, permitVars
<1>4. ASSUME NEW s \in Runs PROVE Linked(s)'
  <2>1. CASE work'[s] = work[s]
    BY <1>1, <1>2, <1>3, <2>1 DEF Linked, Dead, Starting, Open
  <2>2. CASE work[s] = "returned" /\ work'[s] = "done"
    BY <1>1, <1>2, <1>3, <2>2 DEF Linked, Dead, Starting, Open
  <2>3. CASE work[s] = "queued" /\ ~withdrawn[s] /\ work'[s] = "running"
    BY <1>1, <1>2, <1>3, <2>3 DEF Linked, Dead, Starting, Open
  <2>4. CASE work[s] = "queued" /\ withdrawn[s] /\ work'[s] = "dropped"
    BY <1>1, <1>2, <1>3, <2>4 DEF Linked, Dead, Starting, Open, Outside, InFlight
  <2> QED
    BY <1>2, <2>1, <2>2, <2>3, <2>4
<1> QED
  BY <1>4

(* The first steps of an executor, and those of a turn, move it in flight. *)
LEMMA Executor_Linked ==
  ASSUME OutcomeInv, NEW r \in Runs,
         MarkRunning(r) \/ AnnounceAttempt(r) \/ CreateAttempt(r) \/ Turn(r)
  PROVE  LinkedOK'
<1> USE DEF OutcomeInv, RunInv, LinkedOK, OwnTypeOK, ExecutorTypeOK
<1>1. /\ work[r] = "running" /\ pc[r] \notin Outside \cup {"created", "over"}
      /\ pc'[r] \in InFlight
      /\ pc'[r] \in {"marked", "announced"} => Starting(r)
      /\ UNCHANGED <<work, permit, withdrawn, entry, checkpointed, raced, up>>
      /\ \A s \in Runs : s # r => pc'[s] = pc[s] /\ row'[s] = row[s]
  <2> USE DEF Outside, InFlight, PCs, Starting, Linked, Dead, Goto, laneVars, permitVars, cancelVars,
              endVars, rows
  <2>1. CASE MarkRunning(r)
    BY <2>1 DEF MarkRunning, DurableTypeOK
  <2>2. CASE AnnounceAttempt(r)
    BY <2>2 DEF AnnounceAttempt
  <2>3. CASE CreateAttempt(r)
    BY <2>3 DEF CreateAttempt
  <2>4. CASE Turn(r)
    BY <2>4, TurnFrame DEF Midway
  <2> QED
    BY <2>1, <2>2, <2>3, <2>4
<1>2. Linked(r)'
  BY <1>1 DEF Linked, Dead, Starting, Outside, InFlight, PCs
<1> QED
  BY <1>1, <1>2, LinkedStutter

(* The executor at the checkpoint is past its start. *)
LEMMA SignalCheckpoint_Linked ==
  ASSUME OutcomeInv, NEW r \in Runs, SignalCheckpoint(r)
  PROVE  LinkedOK'
<1> USE DEF OutcomeInv, RunInv, LinkedOK, OwnTypeOK, ExecutorTypeOK, OutcomeTypeOK
<1>1. /\ pc[r] \in Midway /\ pc'[r] \in {"finally", "awaiting"} /\ checkpointed'[r]
      /\ UNCHANGED <<row, work, permit, withdrawn, entry, up>>
      /\ \A s \in Runs : s # r => /\ pc'[s] = pc[s] /\ checkpointed'[s] = checkpointed[s]
                                  /\ raced'[s] = raced[s]
  BY DEF SignalCheckpoint, Decide, Goto, Midway, InFlight, Outside, PCs, rows, laneVars,
     permitVars, cancelVars, endVars
<1>2. Linked(r)'
  BY <1>1 DEF Linked, Dead, Starting, Outside, InFlight, Midway, PCs
<1> QED
  BY <1>1, <1>2, LinkedStutter

(* The finally block deletes the entry in the segment in which the work    *)
(* returns to the lane.                                                    *)
LEMMA Finish_Linked ==
  ASSUME OutcomeInv, NEW r \in Runs, Finish(r)
  PROVE  LinkedOK'
<1> USE DEF OutcomeInv, RunInv, LinkedOK, OwnTypeOK, ExecutorTypeOK
<1>1. /\ pc[r] = "finally" /\ pc'[r] = "over" /\ ~entry'[r] /\ work'[r] = "returned"
      /\ UNCHANGED <<row, withdrawn, checkpointed, raced, up>>
      /\ \A s \in Runs : s # r => pc'[s] = pc[s] /\ work'[s] = work[s] /\ entry'[s] = entry[s]
  BY DEF Finish, Goto, Lane!Return, rows, endVars, envVars, LaneP!LaneInv, LaneP!LaneTypeOK
<1>2. \A s \in Runs : permit'[s] = "none" <=> permit[s] = "none"
  BY PermitEffect DEF Finish
<1>3. checkpointed[r] /\ up = "up"
  BY <1>1 DEF ControlOK, Control, Dead, Linked, Outside
<1>4. Linked(r)'
  BY <1>1, <1>2, <1>3 DEF Linked, Dead, Starting, Outside, InFlight, PCs
<1> QED
  BY <1>1, <1>2, <1>4, LinkedStutter

(* cancel() withdraws the work in the segment in which it decides. *)
LEMMA Cancel_Linked ==
  ASSUME OutcomeInv, NEW r \in Runs, Cancel(r)
  PROVE  LinkedOK'
<1> USE DEF OutcomeInv, RunInv, LinkedOK, OwnTypeOK, ExecutorTypeOK, OutcomeTypeOK
<1>1. /\ entry[r] /\ checkpointed'[r] /\ withdrawn'[r]
      /\ UNCHANGED <<pc, row, work, permit, up>>
      /\ \A s \in Runs : s # r => /\ checkpointed'[s] = checkpointed[s]
                                  /\ raced'[s] = raced[s] /\ entry'[s] = entry[s]
                                  /\ withdrawn'[s] = withdrawn[s]
  BY DEF Cancel, Decide, Lane!Withdraw, laneVars, permitVars, endVars, rows, LaneP!LaneInv,
     LaneP!LaneTypeOK
<1>2. Starting(r) => raced'[r]
  BY DEF Cancel, Decide, endVars, Linked, Dead
<1>3. pc[r] \notin {"idle", "gone", "listed", "refused", "created", "over"}
  BY <1>1 DEF ControlOK, Control, Dead, Linked
<1>4. Linked(r)'
  BY <1>1, <1>2, <1>3 DEF Linked, Dead, Starting, Outside, InFlight, PCs
<1> QED
  BY <1>1, <1>4, LinkedStutter

(* The answer of cancel() and a granted permit. *)
LEMMA Answer_Linked ==
  ASSUME OutcomeInv, NEW r \in Runs, CancelReturns(r) \/ PermitGranted(r)
  PROVE  LinkedOK'
<1> USE DEF OutcomeInv, RunInv, LinkedOK, OwnTypeOK, ExecutorTypeOK
<1>1. CASE CancelReturns(r)
  <2>1. /\ UNCHANGED <<pc, row, work, permit, withdrawn, checkpointed, raced, up>>
        /\ entry'[r] \in {FALSE, entry[r]} /\ stage[r] # "none"
        /\ \A s \in Runs : s # r => entry'[s] = entry[s]
    BY <1>1 DEF CancelReturns, rows, laneVars, permitVars, endVars, envVars
  <2>2. checkpointed[r]
    BY <2>1 DEF ControlOK, Control, Dead
  <2>3. Linked(r)'
    BY <2>1, <2>2 DEF Linked, Dead, Starting, Open
  <2> QED
    BY <2>1, <2>3, LinkedStutter
<1>2. CASE PermitGranted(r)
  <2>1. /\ UNCHANGED <<pc, row, work, withdrawn, checkpointed, raced, entry, up>>
        /\ \A s \in Runs : permit'[s] = "none" <=> permit[s] = "none"
    BY <1>2, PermitEffect DEF PermitGranted, rows, laneVars, cancelVars, endVars, envVars
  <2> QED
    BY <2>1, LinkedStutter
<1> QED
  BY <1>1, <1>2

(* The finalization writes the row of a run that is not gone. *)
LEMMA Conclude_Linked ==
  ASSUME OutcomeInv, NEW r \in Runs, Conclude(r)
  PROVE  LinkedOK'
<1> USE DEF OutcomeInv, RunInv, LinkedOK
<1>1. /\ pc[r] \notin Outside
      /\ UNCHANGED <<pc, work, permit, withdrawn, checkpointed, raced, entry, up>>
  BY ConcludeFrame DEF laneVars, permitVars
<1>2. \A s \in Runs : s # r => row'[s] = row[s]
  BY DEF Conclude, StartFinalize, Commit, CommitOutcome, JournalOutcome, PublishOutcome, rows,
     OwnTypeOK, DurableTypeOK
<1>3. Linked(r)'
  BY <1>1 DEF Linked, Dead, Starting, Outside
<1> QED
  BY <1>1, <1>2, <1>3, LinkedStutter

(* The process dies, is restarted, lists the open runs, settles those of   *)
(* its list and opens its gateway.  Nobody is admitted before that, so the *)
(* list has every open run: none is left when the list is done.            *)
LEMMA Process_Linked ==
  ASSUME OutcomeInv, Crash \/ Restart \/ StartAccepting \/ \E r \in Runs : ReconcileRun(r)
  PROVE  LinkedOK'
<1> USE DEF OutcomeInv, RunInv, LinkedOK, OwnTypeOK, EnvTypeOK
<1>1. CASE Crash
  <2>1. ASSUME NEW s \in Runs PROVE Linked(s)'
    <3>1. /\ pc'[s] \in Outside /\ pc'[s] \notin {"created", "admitted", "over"}
          /\ pc'[s] = "idle" => pc[s] = "idle"
          /\ work'[s] = (IF work[s] \in {"new", "rejected"} THEN work[s] ELSE "done")
          /\ permit'[s] # "none" => permit[s] # "none"
          /\ ~withdrawn'[s] /\ ~checkpointed'[s] /\ ~entry'[s] /\ up' = "down"
      BY <1>1 DEF Crash, Outside
    <3> QED
      BY <3>1 DEF Linked, Dead, Starting, Outside, InFlight
  <2> QED
    BY <2>1
<1>2. CASE Restart
  <2>1. /\ UNCHANGED <<row, work, permit, withdrawn, checkpointed, raced, entry>>
        /\ up = "down"
        /\ \/ UNCHANGED <<pc, up>>
           \/ up' = "recovering" /\ pc' = [s \in Runs |-> IF Open(s) THEN "listed" ELSE pc[s]]
    BY <1>2 DEF Restart, rows, laneVars, permitVars, cancelVars, endVars
  <2>2. ASSUME NEW s \in Runs PROVE Linked(s)'
    <3>1. pc[s] \in Outside /\ work[s] # "queued" /\ ~Starting(s)
      BY <2>1 DEF Linked, Starting, Outside
    <3>2. CASE UNCHANGED <<pc, up>>
      BY <2>1, <3>1, <3>2 DEF Linked, Dead, Starting, Open
    <3>3. CASE up' = "recovering" /\ pc' = [t \in Runs |-> IF Open(t) THEN "listed" ELSE pc[t]]
      <4>1. pc'[s] = IF Open(s) THEN "listed" ELSE pc[s]
        BY <3>3
      <4>2. Open(s)' <=> Open(s)
        BY <2>1 DEF Open
      <4>3. pc'[s] \in Outside /\ (pc'[s] = "idle" => pc[s] = "idle") /\ ~Starting(s)'
        BY <3>1, <4>1 DEF Starting, Outside
      <4> QED
        BY <2>1, <3>1, <3>3, <4>1, <4>2, <4>3 DEF Linked, Outside, InFlight
    <3> QED
      BY <2>1, <3>2, <3>3
  <2> QED
    BY <2>2
<1>3. CASE StartAccepting
  <2>1. /\ UNCHANGED <<pc, row, work, permit, withdrawn, checkpointed, raced, entry>>
        /\ up = "recovering" /\ up' \in {"up", "down"} /\ \A s \in Runs : pc[s] # "listed"
    BY <1>3 DEF StartAccepting, rows, laneVars, permitVars, cancelVars, endVars
  <2>2. ASSUME NEW s \in Runs PROVE Linked(s)'
    BY <2>1 DEF Linked, Dead, Starting, Open
  <2> QED
    BY <2>2
<1>4. ASSUME NEW r \in Runs, ReconcileRun(r) PROVE LinkedOK'
  <2>1. /\ UNCHANGED <<work, permit, withdrawn, checkpointed, raced, entry>>
        /\ up = "recovering" /\ pc[r] = "listed"
        /\ \/ up' = "down" /\ UNCHANGED <<pc, row>>
           \/ /\ up' = up /\ pc' = [pc EXCEPT ![r] = "gone"] /\ ~Open(r)'
              /\ \A s \in Runs : s # r => row'[s] = row[s]
    BY <1>4 DEF ReconcileRun, Goto, Open, Row, DurableTypeOK, rows, laneVars, permitVars,
       cancelVars, endVars
  <2>2. ASSUME NEW s \in Runs PROVE Linked(s)'
    <3>1. CASE up' = "down" /\ UNCHANGED <<pc, row>>
      BY <2>1, <3>1 DEF Linked, Dead, Starting
    <3>2. CASE s # r /\ up' = up
      <4>1. pc'[s] = pc[s] /\ row'[s] = row[s]
        BY <2>1, <3>2 DEF ExecutorTypeOK
      <4> QED
        BY <2>1, <3>2, <4>1, LinkedStutter
    <3>3. CASE s = r /\ up' = up
      <4>1. pc'[r] = "gone" /\ ~Open(r)'
        BY <2>1, <3>3 DEF ExecutorTypeOK
      <4> QED
        BY <2>1, <3>3, <4>1 DEF Linked, Dead, Starting, Outside, InFlight
    <3> QED
      BY <2>1, <3>1, <3>2, <3>3
  <2> QED
    BY <2>2
<1> QED
  BY <1>1, <1>2, <1>3, <1>4

(* Every step keeps Linked. *)
LEMMA Step_Linked ==
  ASSUME OutcomeInv, Next
  PROVE  LinkedOK'
<1>1. ASSUME NEW r \in Runs, Execute(r) \/ CallReturns(r) PROVE LinkedOK'
  BY <1>1, EnqueueRun_Linked, Executor_Linked, SignalCheckpoint_Linked, Finish_Linked
     DEF Execute, Turn
<1>2. ASSUME NEW r \in Runs, \/ Admit(r) \/ DrainLane(r) \/ PermitGranted(r) \/ Cancel(r)
                             \/ CancelReturns(r) \/ Conclude(r)
      PROVE  LinkedOK'
  BY <1>2, Admit_Linked, DrainLane_Linked, Answer_Linked, Cancel_Linked, Conclude_Linked
<1> QED
  BY <1>1, <1>2, Process_Linked DEF Next, Progress, Recover

-----------------------------------------------------------------------------
(* Told: the rows, the plan and the event.                                 *)

(* A step that leaves what Told reads of a run alone. *)
LEMMA ToldStutter ==
  ASSUME NEW s \in Runs, Told(s), faults \in Nat, faults' \in Nat, faults' >= faults,
         pc'[s] = pc[s], row'[s] = row[s], attempt'[s] = attempt[s],
         attemptSet'[s] = attemptSet[s], stage'[s] = stage[s], plan'[s] = plan[s],
         published'[s] = published[s], raced'[s] = raced[s]
  PROVE  Told(s)'
BY DEF Told, Dead, Blocked, Open, Terminal

LEMMA Init_Told == Init => ToldOK
BY DEF Init, ToldOK, Told, Dead, Outside, Settled, NoRow, Row, Open, Terminal, TerminalStatus

(* An executor that is starting runs for a run nobody has decided, or for  *)
(* one that was cancelled under it.                                        *)
LEMMA StartingIsUndecided ==
  ASSUME ControlOK, LinkedOK, NEW r \in Runs,
         \/ pc[r] \in {"marked", "announced"}
         \/ pc[r] = "admitted" /\ permit[r] = "held"
  PROVE  raced[r] \/ (stage[r] = "none" /\ published[r] = <<>>)
<1>1. Starting(r)
  BY DEF LinkedOK, Linked, Dead, Starting, InFlight, Outside, PCs
<1> QED
  BY <1>1 DEF LinkedOK, Linked, Dead, ControlOK, Control

(* Admission writes the first row of the run. *)
LEMMA Admit_Told ==
  ASSUME OutcomeInv, NEW r \in Runs, Admit(r)
  PROVE  ToldOK'
<1> USE DEF OutcomeInv, RunInv, ToldOK, OwnTypeOK, ExecutorTypeOK, DurableTypeOK
<1>1. /\ pc[r] = "idle" /\ pc'[r] \in {"created", "refused"}
      /\ IF pc'[r] = "created" THEN row'[r] = Row("queued", "none") ELSE row'[r] = row[r]
      /\ UNCHANGED <<attempt, attemptSet, stage, plan, published, raced>>
      /\ \A s \in Runs : s # r => pc'[s] = pc[s] /\ row'[s] = row[s]
  BY DEF Admit, Goto, endVars
<1>2. faults \in Nat /\ faults' \in Nat /\ faults' >= faults
  BY FaultsGrow DEF Admit
<1>3. stage[r] = "none" /\ published[r] = <<>> /\ row[r] = NoRow /\ attempt[r] = NoRow
  BY <1>1 DEF ControlOK, Control, Dead, Told
<1>4. Told(r)'
  BY <1>1, <1>3 DEF Told, Dead, Outside, Settled, Open, Terminal, TerminalStatus, NoRow, Row
<1> QED
  BY <1>1, <1>2, <1>4, ToldStutter

(* The lanes, the permits and the end of the executor do not touch the     *)
(* outcome.                                                                *)
LEMMA Lane_Told ==
  ASSUME OutcomeInv, NEW r \in Runs,
         \/ EnqueueRun(r) \/ DrainLane(r) \/ PermitGranted(r) \/ Finish(r) \/ CancelReturns(r)
  PROVE  ToldOK'
<1> USE DEF OutcomeInv, RunInv, ToldOK, OwnTypeOK, ExecutorTypeOK
<1>1. /\ \/ pc'[r] = pc[r]
         \/ pc[r] = "created" /\ pc'[r] = "admitted"
         \/ pc[r] = "finally" /\ pc'[r] = "over"
      /\ UNCHANGED <<row, attempt, attemptSet, stage, plan, published, raced, faults>>
      /\ \A s \in Runs : s # r => pc'[s] = pc[s]
  BY DEF EnqueueRun, DrainLane, PermitGranted, Finish, CancelReturns, Goto, rows, endVars,
     envVars, Outside
<1>2. faults \in Nat
  BY RunAssumption DEF EnvTypeOK
<1>3. Told(r)'
  BY <1>1, <1>2 DEF Told, Dead, Blocked, Outside, Open, Terminal
<1> QED
  BY <1>1, <1>2, <1>3, ToldStutter

(* updateStatus has no guard: only a run that was cancelled while its      *)
(* executor was starting can have a terminal row by then.                  *)
LEMMA MarkRunning_Told ==
  ASSUME OutcomeInv, NEW r \in Runs, MarkRunning(r)
  PROVE  ToldOK'
<1> USE DEF OutcomeInv, RunInv, ToldOK, OwnTypeOK, ExecutorTypeOK, DurableTypeOK
<1>1. /\ pc[r] = "admitted" /\ permit[r] = "held" /\ pc'[r] \in {"marked", "catch"}
      /\ row'[r] = row[r] \/ row'[r] = Row("running", "none")
      /\ UNCHANGED <<attempt, attemptSet, stage, plan, published, raced>>
      /\ \A s \in Runs : s # r => pc'[s] = pc[s] /\ row'[s] = row[s]
  BY DEF MarkRunning, Goto, endVars
<1>2. faults \in Nat /\ faults' \in Nat /\ faults' >= faults
  BY FaultsGrow DEF MarkRunning
<1>3. raced[r] \/ (stage[r] = "none" /\ published[r] = <<>> /\ Open(r))
  BY <1>1, StartingIsUndecided DEF Told, Dead, Outside, Settled
<1>4. Told(r)'
  <2>1. Told(r) /\ pc[r] \notin Outside /\ pc'[r] \notin Outside \cup {"announced"} /\ ~Dead(r)
    BY <1>1 DEF Outside, Dead
  <2>2. CASE raced[r]
    BY <1>1, <1>2, <2>1, <2>2 DEF Told, Blocked, Outside, Settled, Open, Terminal, TerminalStatus, Row
  <2>3. CASE ~raced[r] /\ stage[r] = "none" /\ published[r] = <<>> /\ Open(r)
    BY <1>1, <1>2, <2>1, <2>3 DEF Told, Blocked, Outside, Settled, Open, Terminal, TerminalStatus, Row
  <2> QED
    BY <1>3, <2>2, <2>3
<1> QED
  BY <1>1, <1>2, <1>4, ToldStutter

(* attemptId is assigned before the attempt has a row. *)
LEMMA AnnounceAttempt_Told ==
  ASSUME OutcomeInv, NEW r \in Runs, AnnounceAttempt(r)
  PROVE  ToldOK'
<1> USE DEF OutcomeInv, RunInv, ToldOK, OwnTypeOK, ExecutorTypeOK
<1>1. /\ pc[r] = "marked" /\ pc'[r] = "announced" /\ attemptSet'[r]
      /\ UNCHANGED <<row, attempt, stage, plan, published, raced>>
      /\ \A s \in Runs : s # r => pc'[s] = pc[s] /\ attemptSet'[s] = attemptSet[s]
  BY DEF AnnounceAttempt, Goto, rows
<1>2. faults \in Nat /\ faults' \in Nat /\ faults' >= faults
  BY FaultsGrow DEF AnnounceAttempt, JournalBestEffort
<1>3. raced[r] \/ stage[r] = "none"
  BY <1>1, StartingIsUndecided
<1>4. Told(r)'
  <2>1. Told(r) /\ pc[r] \notin Outside /\ pc'[r] \notin Outside
    BY <1>1 DEF Outside
  <2>2. CASE raced[r]
    BY <1>1, <1>2, <2>1, <2>2 DEF Told, Dead, Blocked, Open, Terminal
  <2>3. CASE stage[r] = "none"
    BY <1>1, <1>2, <2>1, <2>3 DEF Told, Dead, Blocked, Open, Terminal
  <2> QED
    BY <1>3, <2>2, <2>3
<1> QED
  BY <1>1, <1>2, <1>4, ToldStutter

(* The attempt's row is created under an open run, or a raced one. *)
LEMMA CreateAttempt_Told ==
  ASSUME OutcomeInv, NEW r \in Runs, CreateAttempt(r)
  PROVE  ToldOK'
<1> USE DEF OutcomeInv, RunInv, ToldOK, OwnTypeOK, ExecutorTypeOK, DurableTypeOK
<1>1. /\ pc[r] = "announced" /\ pc'[r] \in {"recorded", "catch"}
      /\ attempt'[r] = attempt[r] \/ attempt'[r] = Row("running", "none")
      /\ UNCHANGED <<row, attemptSet, stage, plan, published, raced>>
      /\ \A s \in Runs : s # r => pc'[s] = pc[s] /\ attempt'[s] = attempt[s]
  BY DEF CreateAttempt, Goto, endVars
<1>2. faults \in Nat /\ faults' \in Nat /\ faults' >= faults
  BY FaultsGrow DEF CreateAttempt
<1>3. raced[r] \/ (stage[r] = "none" /\ published[r] = <<>> /\ Open(r))
  BY <1>1, StartingIsUndecided DEF Told, Dead, Outside, Settled
<1>4. Told(r)'
  <2>1. Told(r) /\ pc[r] \notin Outside /\ pc'[r] \notin Outside \cup {"announced"} /\ ~Dead(r)
    BY <1>1 DEF Outside, Dead
  <2>2. CASE raced[r]
    BY <1>1, <1>2, <2>1, <2>2 DEF Told, Blocked, Outside, Settled, Open, Terminal, TerminalStatus
  <2>3. CASE ~raced[r] /\ stage[r] = "none" /\ published[r] = <<>> /\ Open(r)
    BY <1>1, <1>2, <2>1, <2>3 DEF Told, Blocked, Outside, Settled, Open, Terminal, TerminalStatus
  <2> QED
    BY <1>3, <2>2, <2>3
<1> QED
  BY <1>1, <1>2, <1>4, ToldStutter

(* A turn leaves the outcome alone. *)
LEMMA Turn_Told ==
  ASSUME OutcomeInv, NEW r \in Runs, Turn(r)
  PROVE  ToldOK'
<1> USE DEF OutcomeInv, RunInv, ToldOK, OwnTypeOK, ExecutorTypeOK
<1>1. /\ pc[r] \in Midway /\ pc'[r] \in Midway
      /\ UNCHANGED <<row, attempt, attemptSet, stage, plan, published, raced>>
      /\ \A s \in Runs : s # r => pc'[s] = pc[s]
  BY TurnFrame
<1>2. faults \in Nat /\ faults' \in Nat /\ faults' >= faults
  BY FaultsGrow, TurnFrame
<1>3. Told(r)'
  BY <1>1, <1>2 DEF Told, Dead, Blocked, Outside, InFlight, Midway, Open, Terminal
<1> QED
  BY <1>1, <1>2, <1>3, ToldStutter

(* The checkpoint decides an open run nothing has been published of. *)
LEMMA Decide_Told ==
  ASSUME OutcomeInv, NEW r \in Runs, SignalCheckpoint(r) \/ Cancel(r)
  PROVE  ToldOK'
<1> USE DEF OutcomeInv, RunInv, ToldOK, OwnTypeOK, ExecutorTypeOK, OutcomeTypeOK
<1>1. /\ pc[r] \notin Outside
      /\ pc'[r] = pc[r] \/ pc'[r] \in {"finally", "awaiting"}
      /\ UNCHANGED <<row, attempt, attemptSet, published>>
      /\ \A s \in Runs : s # r => pc'[s] = pc[s]
  BY DEF SignalCheckpoint, Cancel, Decide, Goto, rows, endVars, Outside, ControlOK, Control, Dead
<1>2. faults \in Nat /\ faults' \in Nat /\ faults' >= faults
  BY FaultsGrow DEF SignalCheckpoint, Cancel, Decide
<1>3. CASE checkpointed[r]
  <2>1. UNCHANGED <<stage, plan, raced>>
    BY <1>3 DEF SignalCheckpoint, Cancel, endVars
  <2>2. Told(r)'
    BY <1>1, <1>2, <2>1 DEF Told, Dead, Blocked, Outside, Open, Terminal
  <2> QED
    BY <1>1, <1>2, <2>1, <2>2, ToldStutter
<1>4. CASE ~checkpointed[r]
  <2>1. /\ stage' = [stage EXCEPT ![r] = "decided"]
        /\ raced[r] => raced'[r]
        /\ \A s \in Runs : s # r => plan'[s] = plan[s] /\ raced'[s] = raced[s]
    BY <1>4 DEF SignalCheckpoint, Cancel, Decide
  <2>2. stage[r] = "none" /\ published[r] = <<>> /\ Open(r)
    BY <1>1, <1>4 DEF ControlOK, Control, Dead, Told, Settled, Outside
  <2>3. Told(r)'
    BY <1>1, <2>1, <2>2 DEF Told, Dead, Outside, Settled, Open, Terminal, TerminalStatus
  <2> QED
    BY <1>1, <1>2, <2>1, <2>3, ToldStutter
<1> QED
  BY <1>3, <1>4

(* The plan names the attempt from here on; a run that is not raced cannot *)
(* get one later.                                                          *)
LEMMA StartFinalize_Told ==
  ASSUME OutcomeInv, NEW r \in Runs, StartFinalize(r)
  PROVE  ToldOK'
<1> USE DEF OutcomeInv, RunInv, ToldOK, OwnTypeOK, OutcomeTypeOK
<1>1. /\ stage[r] = "decided" /\ stage'[r] = "commit1" /\ plan'[r].withAttempt = attemptSet[r]
      /\ UNCHANGED <<pc, row, attempt, attemptSet, published, raced>>
      /\ \A s \in Runs : s # r => plan'[s] = plan[s] /\ stage'[s] = stage[s]
  BY DEF StartFinalize, rows, Plans
<1>2. faults \in Nat /\ faults' \in Nat /\ faults' >= faults
  BY FaultsGrow DEF StartFinalize, JournalBestEffort
<1>3. Told(r)'
  BY <1>1 DEF Told, Dead, Settled, Open, Terminal
<1> QED
  BY <1>1, <1>2, <1>3, ToldStutter

(* A commit that succeeds writes what the plan says into both rows.  One   *)
(* that does not has counted a storage failure, or the plan is blocked.    *)
LEMMA Commit_Told ==
  ASSUME OutcomeInv, NEW r \in Runs, Commit(r)
  PROVE  ToldOK'
<1> USE DEF OutcomeInv, RunInv, ToldOK, OwnTypeOK, OutcomeTypeOK, DurableTypeOK
<1>1. /\ stage[r] \in {"commit1", "commit2", "commit3"} /\ pc[r] \notin Outside
      /\ UNCHANGED <<pc, attemptSet, published, raced>>
  BY ConcludeFrame DEF Commit, Conclude
<1>2. Open(r) /\ plan[r].status \in TerminalStatus /\ published[r] = <<>>
  BY <1>1 DEF Told, Dead, Settled, Outside, ControlOK, Control, Plans
<1>3. faults \in Nat /\ faults' \in Nat /\ faults' >= faults
  BY FaultsGrow DEF Commit, CommitOutcome
<1>4. CASE /\ stage' = [stage EXCEPT ![r] = "committed"] /\ plan' = plan /\ NoFault
           /\ row' = [row EXCEPT ![r] = Row(plan[r].status, plan[r].code)]
           /\ attempt' = IF plan[r].withAttempt
                           THEN [attempt EXCEPT ![r] = Row(plan[r].status, plan[r].code)]
                           ELSE attempt
  <2>1. /\ stage'[r] = "committed" /\ row'[r] = Row(plan[r].status, plan[r].code)
        /\ plan[r].withAttempt => attempt'[r] = row'[r]
        /\ ~plan[r].withAttempt => attempt'[r] = attempt[r]
        /\ \A s \in Runs : s # r => /\ stage'[s] = stage[s] /\ row'[s] = row[s]
                                    /\ attempt'[s] = attempt[s]
    BY <1>4
  <2>2. row'[r].status \in TerminalStatus /\ row'[r].status = plan'[r].status
    BY <1>2, <1>4, <2>1 DEF Row
  <2>3. attempt[r] = NoRow => ~plan[r].withAttempt
    <3>1. CommitResult(r, plan[r]) # "conflict"
      BY <1>4, <1>1 DEF Commit, CommitOutcome, NextTry
    <3>2. row[r] # Row(plan[r].status, plan[r].code)
      BY <1>2 DEF Row, Open, TerminalStatus
    <3> QED
      BY <3>1, <3>2 DEF CommitResult, NoRow, Row
  <2>4. /\ attempt[r] = NoRow => attempt'[r] = NoRow
        /\ ~attemptSet[r] => attempt[r] = NoRow
    BY <1>1, <2>1, <2>3 DEF Told, Dead, Outside
  <2>5. \/ attempt'[r] \in {NoRow, row'[r]}
        \/ raced[r] /\ attempt'[r] = Row("running", "none")
    BY <1>1, <1>2, <2>1, <2>4 DEF Told
  <2>6. Told(r)'
    BY <1>1, <1>2, <1>4, <2>1, <2>2, <2>4, <2>5 DEF Told, Dead, Settled, Outside, Open, Terminal,
       TerminalStatus
  <2> QED
    BY <1>1, <1>3, <1>4, <2>1, <2>6, ToldStutter
<1>5. CASE /\ stage' = [stage EXCEPT ![r] = NextTry(stage[r])]
           /\ plan' = IF stage[r] = "commit2" THEN [plan EXCEPT ![r] = FailSafe(plan[r])] ELSE plan
           /\ UNCHANGED <<row, attempt>>
           /\ \/ Fault
              \/ NoFault /\ plan[r].withAttempt /\ attempt[r].status # "running"
  <2>1. /\ stage[r] = "commit1" => stage'[r] = "commit2"
        /\ stage[r] = "commit2" => stage'[r] = "commit3"
        /\ stage[r] = "commit3" => stage'[r] = "failed"
    BY <1>5 DEF NextTry
  <2>2. plan'[r].withAttempt = plan[r].withAttempt
    BY <1>5 DEF FailSafe, Plans
  <2>3. faults' = faults + 1 \/ Blocked(r)
    <3>1. CASE Fault
      BY <3>1 DEF Fault
    <3>2. CASE plan[r].withAttempt /\ attempt[r].status # "running"
      <4>1. attempt[r] = NoRow
        BY <1>2, <3>2 DEF Told, Dead, Row
      <4> QED
        BY <3>2, <4>1 DEF Blocked
    <3> QED
      BY <1>5, <3>1, <3>2
  <2>4. Blocked(r)' <=> Blocked(r)
    BY <1>1, <1>5, <2>2 DEF Blocked
  <2>5. /\ stage'[r] = "commit2" => faults' >= 1 \/ Blocked(r)'
        /\ stage'[r] = "commit3" => faults' >= 2 \/ Blocked(r)'
        /\ stage'[r] = "failed"  => faults' >= 3 \/ Blocked(r)'
    BY <1>1, <1>3, <2>1, <2>3, <2>4 DEF Told, Dead
  <2>6. Told(r)'
    BY <1>1, <1>2, <1>5, <2>1, <2>2, <2>5 DEF Told, Dead, Settled, Outside, Open, Terminal
  <2>7. \A s \in Runs : s # r => stage'[s] = stage[s] /\ plan'[s] = plan[s]
    BY <1>5
  <2> QED
    BY <1>1, <1>3, <1>5, <2>6, <2>7, ToldStutter
<1> QED
  BY <1>2, <1>4, <1>5, CommitEffect DEF TerminalStatus

(* The terminal event tells the status of the plan, which the row has. *)
LEMMA Publish_Told ==
  ASSUME OutcomeInv, NEW r \in Runs, JournalOutcome(r) \/ PublishOutcome(r)
  PROVE  ToldOK'
<1> USE DEF OutcomeInv, RunInv, ToldOK, OwnTypeOK, OutcomeTypeOK
<1>1. faults \in Nat /\ faults' \in Nat /\ faults' >= faults
  BY FaultsGrow, ConcludeFrame DEF Conclude
<1>2. CASE JournalOutcome(r)
  <2>1. /\ stage[r] = "committed" /\ stage'[r] = "recorded"
        /\ UNCHANGED <<pc, row, attempt, attemptSet, plan, published, raced>>
        /\ \A s \in Runs : s # r => stage'[s] = stage[s]
    BY <1>2 DEF JournalOutcome, rows
  <2>2. Told(r)'
    BY <2>1 DEF Told, Dead, Settled, Open, Terminal
  <2> QED
    BY <1>1, <2>1, <2>2, ToldStutter
<1>3. CASE PublishOutcome(r)
  <2>1. /\ stage[r] = "recorded" /\ stage'[r] = "published"
        /\ published'[r] = Append(published[r], plan[r].status)
        /\ UNCHANGED <<pc, row, attempt, attemptSet, plan, raced>>
        /\ \A s \in Runs : s # r => stage'[s] = stage[s] /\ published'[s] = published[s]
    BY <1>3 DEF PublishOutcome, rows
  <2>2. published[r] = <<>> /\ plan[r].status \in TerminalStatus
    BY <2>1 DEF ControlOK, Control, Dead, Plans
  <2>3. published'[r] = <<plan[r].status>> /\ Head(published'[r]) = plan[r].status
    BY <2>1, <2>2
  <2>4. ~raced[r] => row[r].status = plan[r].status
    BY <2>1 DEF Told, Dead, Settled
  <2>5. Told(r)'
    BY <2>1, <2>2, <2>3, <2>4 DEF Told, Dead, Settled, Open, Terminal
  <2> QED
    BY <1>1, <2>1, <2>5, ToldStutter
<1> QED
  BY <1>2, <1>3

(* The restart ends a run and its running attempt alike. *)
LEMMA Process_Told ==
  ASSUME OutcomeInv, Crash \/ Restart \/ StartAccepting \/ \E r \in Runs : ReconcileRun(r)
  PROVE  ToldOK'
<1> USE DEF OutcomeInv, RunInv, ToldOK, OwnTypeOK, DurableTypeOK
<1>1. faults \in Nat
  BY RunAssumption DEF EnvTypeOK
<1>2. CASE Crash
  <2>1. ASSUME NEW s \in Runs PROVE Told(s)'
    <3>1. /\ pc'[s] \in {"idle", "refused"} => pc[s] = pc'[s]
          /\ pc'[s] \notin {"idle", "refused"} => pc'[s] = "gone"
          /\ stage'[s] = "none" /\ UNCHANGED <<row, attempt, published, raced>>
      BY <1>2 DEF Crash, rows, Outside
    <3>2. Told(s)
      OBVIOUS
    <3> QED
      BY <1>1, <3>1, <3>2 DEF Told, Dead, Outside, Settled, Open, Terminal
  <2> QED
    BY <2>1
<1>3. CASE Restart \/ StartAccepting
  <2>1. /\ UNCHANGED <<row, attempt, attemptSet, stage, plan, published, raced>>
        /\ \A s \in Runs : pc'[s] = pc[s] \/ (Open(s) /\ pc'[s] = "listed")
    BY <1>3 DEF Restart, StartAccepting, rows, endVars, ExecutorTypeOK
  <2>2. faults' \in Nat /\ faults' >= faults
    BY <1>3, FaultsGrow DEF Restart, StartAccepting
  <2>3. ASSUME NEW s \in Runs, Open(s), pc'[s] = "listed", up # "up" PROVE Told(s)'
    <3>1. Dead(s) /\ stage[s] = "none"
      BY <2>3 DEF LinkedOK, Linked, Outside, Told, Open, NoRow, Row, ControlOK, Control, Dead
    <3> QED
      BY <1>1, <2>1, <2>2, <2>3, <3>1 DEF Told, Dead, Blocked, Outside, Settled, Open, Terminal
  <2>4. up # "up"
    BY <1>3 DEF Restart, StartAccepting
  <2> QED
    BY <1>1, <2>1, <2>2, <2>3, <2>4, ToldStutter
<1>4. ASSUME NEW r \in Runs, ReconcileRun(r) PROVE ToldOK'
  <2>1. /\ UNCHANGED <<attemptSet, stage, plan, published, raced>>
        /\ pc[r] = "listed" /\ pc'[r] \in {"listed", "gone"}
        /\ \A s \in Runs : s # r =>
             row'[s] = row[s] /\ attempt'[s] = attempt[s] /\ pc'[s] = pc[s]
    BY <1>4 DEF ReconcileRun, endVars, Goto, ExecutorTypeOK
  <2>2. faults' \in Nat /\ faults' >= faults
    BY <1>4, FaultsGrow DEF ReconcileRun
  <2>3. stage[r] = "none" /\ Dead(r) /\ Dead(r)'
    BY <2>1 DEF ControlOK, Control, Dead
  <2>4. CASE UNCHANGED <<row, attempt>>
    <3>1. Told(r)'
      BY <1>1, <2>1, <2>2, <2>3, <2>4 DEF Told, Dead, Blocked, Outside, Settled, Open, Terminal
    <3> QED
      BY <1>1, <2>1, <2>2, <3>1, ToldStutter
  <2>5. CASE /\ row' = [row EXCEPT ![r] = Row("failed", "RUN_INTERRUPTED")] /\ Open(r)
             /\ attempt' = IF attempt[r].status = "running"
                             THEN [attempt EXCEPT ![r] = Row("failed", "RUN_INTERRUPTED")]
                             ELSE attempt
    <3>1. /\ row'[r] = Row("failed", "RUN_INTERRUPTED")
          /\ attempt'[r] = IF attempt[r].status = "running" THEN row'[r] ELSE attempt[r]
      BY <2>5
    <3>2. /\ ~raced[r] => published[r] = <<>>
          /\ attempt'[r] \in {NoRow, row'[r]}
      BY <2>5, <3>1 DEF Told, Open, Terminal, TerminalStatus, Row
    <3>3. Told(r)'
      BY <2>1, <2>3, <3>1, <3>2
         DEF Told, Dead, Outside, Settled, Open, Terminal, TerminalStatus, Row
    <3> QED
      BY <1>1, <2>1, <2>2, <3>3, ToldStutter
  <2> QED
    BY <1>4, <2>4, <2>5 DEF ReconcileRun
<1> QED
  BY <1>2, <1>3, <1>4

(* Every step keeps Told. *)
LEMMA Step_Told ==
  ASSUME OutcomeInv, Next
  PROVE  ToldOK'
<1>1. ASSUME NEW r \in Runs, Execute(r) \/ CallReturns(r) PROVE ToldOK'
  BY <1>1, Lane_Told, MarkRunning_Told, AnnounceAttempt_Told, CreateAttempt_Told, Turn_Told,
     Decide_Told DEF Execute, Turn
<1>2. ASSUME NEW r \in Runs, \/ Admit(r) \/ DrainLane(r) \/ PermitGranted(r) \/ Cancel(r)
                             \/ CancelReturns(r) \/ Conclude(r)
      PROVE  ToldOK'
  BY <1>2, Admit_Told, Lane_Told, Decide_Told, StartFinalize_Told, Commit_Told, Publish_Told
     DEF Conclude
<1> QED
  BY <1>1, <1>2, Process_Told DEF Next, Progress, Recover

-----------------------------------------------------------------------------
(* Blamed: where an aborted signal comes from.                             *)

(* A step that leaves what Blamed reads of a run alone. *)
LEMMA BlamedStutter ==
  ASSUME NEW s \in Runs, Blamed(s), faults \in Nat, faults' \in Nat, faults' >= faults,
         pc'[s] = pc[s], aborted'[s] = aborted[s], plan'[s] = plan[s],
         canceller'[s] = canceller[s]
  PROVE  Blamed(s)'
BY DEF Blamed

LEMMA Init_Blamed == Init => BlamedOK
BY DEF Init, BlamedOK, Blamed, NoPlan

(* Steps that move the executor without aborting it. *)
LEMMA Quiet_Blamed ==
  ASSUME OutcomeInv, NEW r \in Runs,
         \/ Admit(r) \/ EnqueueRun(r) \/ DrainLane(r) \/ PermitGranted(r) \/ MarkRunning(r)
         \/ AnnounceAttempt(r) \/ CreateAttempt(r) \/ Finish(r)
  PROVE  BlamedOK'
<1> USE DEF OutcomeInv, RunInv, BlamedOK, OwnTypeOK, ExecutorTypeOK
<1>1. /\ pc'[r] \in {pc[r], "over"} \/ pc[r] \in {"idle", "created", "admitted", "marked", "announced"}
      /\ pc'[r] \notin {"cycleCancel", "cancelled"} \/ pc'[r] = pc[r]
      /\ UNCHANGED <<aborted, plan, canceller>>
      /\ \A s \in Runs : s # r => pc'[s] = pc[s]
  BY DEF Admit, EnqueueRun, DrainLane, PermitGranted, MarkRunning, AnnounceAttempt,
     CreateAttempt, Finish, Goto, rows, endVars, cancelVars
<1>2. faults \in Nat /\ faults' \in Nat /\ faults' >= faults
  BY FaultsGrow DEF Admit, EnqueueRun, DrainLane, PermitGranted, MarkRunning, AnnounceAttempt,
     CreateAttempt, Finish, JournalBestEffort, envVars, NoFault
<1>3. Blamed(r)'
  BY <1>1, <1>2 DEF Blamed
<1> QED
  BY <1>1, <1>2, <1>3, BlamedStutter

(* In a turn the signal is aborted by the run timer, which leads to        *)
(* catchTimeout unless a storage failure hides it.                         *)
LEMMA Turn_Blamed ==
  ASSUME OutcomeInv, NEW r \in Runs, Turn(r)
  PROVE  BlamedOK'
<1> USE DEF OutcomeInv, RunInv, BlamedOK, OwnTypeOK, ExecutorTypeOK
<1>1. UNCHANGED <<plan, canceller>> /\ \A s \in Runs : s # r => pc'[s] = pc[s]
  BY TurnFrame
<1>2. faults \in Nat /\ faults' \in Nat /\ faults' >= faults
  BY FaultsGrow, TurnFrame
<1>3. CASE CallTimesOut(r)
  <2>1. \/ pc'[r] = "catchTimeout"
        \/ pc'[r] = "catch" /\ faults' # 0
    BY <1>2, <1>3 DEF CallTimesOut, Goto, Fault
  <2>2. \A s \in Runs : s # r => aborted'[s] = aborted[s]
    BY <1>3 DEF CallTimesOut
  <2>3. Blamed(r)'
    BY <1>1, <1>2, <2>1 DEF Blamed
  <2> QED
    BY <1>1, <1>2, <2>2, <2>3, BlamedStutter
<1>4. CASE ~CallTimesOut(r)
  <2>1. /\ aborted' = aborted
        /\ pc'[r] = "cycleCancel" => aborted[r]
        /\ pc'[r] = "cancelled" => pc[r] = "cycleCancel"
        /\ pc[r] \in {"catchTimeout", "awaiting", "finally", "over"} =>
             pc'[r] \in {"catchTimeout", "awaiting", "finally", "over"}
    BY <1>4 DEF Turn, JournalAccepted, BeginTurn, CallReturns, AppendText, CompleteAttempt,
       ToolsReturn, EndCycle, AwaitFinalization, AppendExchange, AppendFails, CycleDecision,
       Goto, cancelVars
  <2>2. Blamed(r)'
    BY <1>1, <1>2, <2>1 DEF Blamed
  <2> QED
    BY <1>1, <1>2, <2>1, <2>2, BlamedStutter
<1> QED
  BY <1>3, <1>4

(* The executor reports a cancellation when its signal is aborted, which   *)
(* without storage failures only cancel() does.                            *)
LEMMA SignalCheckpoint_Blamed ==
  ASSUME OutcomeInv, NEW r \in Runs, SignalCheckpoint(r)
  PROVE  BlamedOK'
<1> USE DEF OutcomeInv, RunInv, BlamedOK, OwnTypeOK, ExecutorTypeOK, OutcomeTypeOK
<1>1. /\ pc[r] \in {"succeed", "cancelled", "exhausted", "catch", "catchTimeout"}
      /\ pc'[r] \in {"finally", "awaiting"}
      /\ UNCHANGED <<aborted, canceller>>
      /\ \A s \in Runs : s # r => pc'[s] = pc[s] /\ plan'[s] = plan[s]
  BY DEF SignalCheckpoint, Decide, Goto, cancelVars, endVars
<1>2. faults \in Nat /\ faults' \in Nat /\ faults' >= faults
  BY FaultsGrow DEF SignalCheckpoint, Decide
<1>3. plan'[r].status = "cancelled" => plan'[r] = plan[r] \/ Signal(r).kind = "cancel"
  <2>1. Signal(r).kind \in {"success", "cancel", "failure"}
    BY <1>1, SignalType
  <2> QED
    BY <2>1 DEF SignalCheckpoint, Decide, Decided, endVars
<1>4. Signal(r).kind = "cancel" => pc[r] \in {"cancelled", "catch"} /\ aborted[r]
  BY <1>1 DEF Signal, Blamed
<1>5. Blamed(r)'
  BY <1>1, <1>2, <1>3, <1>4 DEF Blamed
<1> QED
  BY <1>1, <1>2, <1>5, BlamedStutter

(* cancel() is a canceller from its first segment to its answer. *)
LEMMA Cancel_Blamed ==
  ASSUME OutcomeInv, NEW r \in Runs, Cancel(r) \/ CancelReturns(r)
  PROVE  BlamedOK'
<1> USE DEF OutcomeInv, RunInv, BlamedOK, OwnTypeOK, ExecutorTypeOK, OutcomeTypeOK
<1>1. /\ pc' = pc /\ canceller'[r] # "none"
      /\ aborted'[r] = aborted[r] \/ pc[r] \notin {"cycleCancel", "cancelled"} \/ aborted'[r]
      /\ \A s \in Runs : s # r => /\ plan'[s] = plan[s] /\ aborted'[s] = aborted[s]
                                  /\ canceller'[s] = canceller[s]
  BY DEF Cancel, CancelReturns, Decide, endVars
<1>2. faults \in Nat /\ faults' \in Nat /\ faults' >= faults
  BY FaultsGrow DEF Cancel, CancelReturns, Decide, envVars, NoFault
<1>3. Blamed(r)'
  BY <1>1, <1>2 DEF Blamed
<1> QED
  BY <1>1, <1>2, <1>3, BlamedStutter

(* The finalization never turns a plan into a cancellation. *)
LEMMA Conclude_Blamed ==
  ASSUME OutcomeInv, NEW r \in Runs, Conclude(r)
  PROVE  BlamedOK'
<1> USE DEF OutcomeInv, RunInv, BlamedOK, OwnTypeOK, OutcomeTypeOK
<1>1. UNCHANGED <<pc, aborted, canceller>>
  BY ConcludeFrame
<1>2. faults \in Nat /\ faults' \in Nat /\ faults' >= faults
  BY FaultsGrow, ConcludeFrame
<1>3. /\ plan'[r].status \in {plan[r].status, "failed"}
      /\ \A s \in Runs : s # r => plan'[s] = plan[s]
  <2>1. \/ plan' = plan
        \/ plan' = [plan EXCEPT ![r].withAttempt = attemptSet[r]]
        \/ plan' = [plan EXCEPT ![r] = FailSafe(plan[r])]
    BY DEF Conclude, StartFinalize, Commit, JournalOutcome, PublishOutcome
  <2> QED
    BY <2>1 DEF FailSafe, Plans
<1>4. Blamed(r)'
  BY <1>1, <1>2, <1>3 DEF Blamed
<1> QED
  BY <1>1, <1>2, <1>3, <1>4, BlamedStutter

(* A dead process has no signals. *)
LEMMA Process_Blamed ==
  ASSUME OutcomeInv, Crash \/ Restart \/ StartAccepting \/ \E r \in Runs : ReconcileRun(r)
  PROVE  BlamedOK'
<1> USE DEF OutcomeInv, RunInv, BlamedOK, OwnTypeOK
<1>1. CASE Crash
  <2>1. ASSUME NEW s \in Runs PROVE Blamed(s)'
    <3>1. /\ pc'[s] \notin {"cycleCancel", "cancelled"}
          /\ ~aborted'[s] /\ plan'[s].status = "none"
      BY <1>1 DEF Crash, NoPlan
    <3> QED
      BY <3>1 DEF Blamed
  <2> QED
    BY <2>1
<1>2. CASE Restart \/ StartAccepting \/ \E r \in Runs : ReconcileRun(r)
  <2>1. /\ UNCHANGED <<aborted, plan, canceller>>
        /\ \A s \in Runs : pc'[s] = pc[s] \/ pc'[s] \in {"listed", "gone"}
    BY <1>2 DEF Restart, StartAccepting, ReconcileRun, Goto, ExecutorTypeOK, cancelVars, endVars
  <2>2. faults \in Nat /\ faults' \in Nat /\ faults' >= faults
    BY <1>2, FaultsGrow DEF Restart, StartAccepting, ReconcileRun
  <2>3. ASSUME NEW s \in Runs, pc'[s] \in {"listed", "gone"}, up # "up" PROVE Blamed(s)'
    <3>1. pc[s] \in Outside
      BY <2>3 DEF LinkedOK, Linked
    <3> QED
      BY <2>1, <2>2, <2>3, <3>1 DEF Blamed, Outside
  <2>4. up # "up"
    BY <1>2 DEF Restart, StartAccepting, ReconcileRun
  <2> QED
    BY <2>1, <2>2, <2>3, <2>4, BlamedStutter
<1> QED
  BY <1>1, <1>2

(* Every step keeps Blamed. *)
LEMMA Step_Blamed ==
  ASSUME OutcomeInv, Next
  PROVE  BlamedOK'
<1>1. ASSUME NEW r \in Runs, Execute(r) \/ CallReturns(r) PROVE BlamedOK'
  BY <1>1, Quiet_Blamed, Turn_Blamed, SignalCheckpoint_Blamed DEF Execute, Turn
<1>2. ASSUME NEW r \in Runs, \/ Admit(r) \/ DrainLane(r) \/ PermitGranted(r) \/ Cancel(r)
                             \/ CancelReturns(r) \/ Conclude(r)
      PROVE  BlamedOK'
  BY <1>2, Quiet_Blamed, Cancel_Blamed, Conclude_Blamed
<1> QED
  BY <1>1, <1>2, Process_Blamed DEF Next, Progress, Recover

-----------------------------------------------------------------------------
(* The invariant is inductive. *)
LEMMA OutcomeInv_Init == Init => OutcomeInv
BY Init_Inv, Init_Linked, Init_Told, Init_Blamed DEF OutcomeInv

LEMMA OutcomeInv_Next == OutcomeInv /\ [Next]_vars => OutcomeInv'
<1> SUFFICES ASSUME OutcomeInv, [Next]_vars PROVE OutcomeInv'
  OBVIOUS
<1>1. RunInv'
  BY Next_Inv DEF OutcomeInv
<1>2. CASE Next
  BY <1>1, <1>2, Step_Linked, Step_Told, Step_Blamed DEF OutcomeInv
<1>3. CASE UNCHANGED vars
  <2> USE <1>3 DEF vars, rows, cancelVars, endVars, laneVars, permitVars, envVars
  <2>1. LinkedOK'
    BY LinkedStutter DEF OutcomeInv, LinkedOK
  <2>2. faults \in Nat
    BY RunAssumption DEF OutcomeInv, RunInv, OwnTypeOK, EnvTypeOK
  <2>3. ToldOK'
    BY <2>2, ToldStutter DEF OutcomeInv, ToldOK
  <2>4. BlamedOK'
    BY <2>2, BlamedStutter DEF OutcomeInv, BlamedOK
  <2> QED
    BY <1>1, <2>1, <2>3, <2>4 DEF OutcomeInv
<1> QED
  BY <1>2, <1>3

(* And hence holds throughout. *)
LEMMA OutcomeInvariant == Spec => []OutcomeInv
BY OutcomeInv_Init, OutcomeInv_Next, PTL DEF Spec

(* The terminal event of a run tells the status its row has, then and      *)
(* afterwards, whatever failed or crashed in between.                      *)
THEOREM EventsTellTheRow == Spec => []PublishedIsDurable
<1>1. OutcomeInv => PublishedIsDurable
  BY DEF OutcomeInv, ToldOK, Told, Dead, PublishedIsDurable
<1> QED
  BY <1>1, OutcomeInvariant, PTL

(* The attempt row of a run that has ended has its status and its code, or *)
(* is still running, the latter only if the run was cancelled while its    *)
(* executor was starting.                                                  *)
THEOREM AttemptsEndWithRuns == Spec => []AttemptEndsWithRun
<1>1. OutcomeInv => AttemptEndsWithRun
  BY DEF OutcomeInv, ToldOK, Told, Dead, AttemptEndsWithRun
<1> QED
  BY <1>1, OutcomeInvariant, PTL

(* No step writes the row of a run that has ended: a late executor, a     *)
(* second commit and the restart all find it otherwise.                    *)
LEMMA TerminalRowStays ==
  ASSUME OutcomeInv, [Next]_vars, NEW r \in Runs, Terminal(r), ~raced[r]
  PROVE  row'[r] = row[r]
<1> USE DEF OutcomeInv, RunInv, OwnTypeOK, DurableTypeOK
<1>1. ~Open(r) /\ row[r] # NoRow
  BY DEF Terminal, TerminalStatus, Open, NoRow, Row
<1>2. CASE Crash \/ Restart \/ StartAccepting \/ UNCHANGED vars
  BY <1>2 DEF Crash, Restart, StartAccepting, vars, rows
<1>3. ASSUME NEW s \in Runs, Admit(s) \/ MarkRunning(s) \/ Commit(s) \/ ReconcileRun(s)
      PROVE  row'[r] = row[r]
  <2>1. CASE s # r
    BY <1>3, <2>1 DEF Admit, MarkRunning, Commit, CommitOutcome, ReconcileRun
  <2>2. CASE s = r /\ Admit(r)
    BY <1>1, <2>2 DEF Admit, ToldOK, Told, Dead
  <2>3. CASE s = r /\ MarkRunning(r)
    <3>1. stage[r] = "none" /\ pc[r] = "admitted"
      BY <2>3, StartingIsUndecided DEF MarkRunning
    <3> QED
      BY <1>1, <3>1 DEF ToldOK, Told, Dead, Settled, Outside
  <2>4. CASE s = r /\ Commit(r)
    <3>1. stage[r] \in {"commit1", "commit2", "commit3"} /\ pc[r] \notin Outside
      BY <2>4, ConcludeFrame DEF Commit, Conclude
    <3> QED
      BY <1>1, <3>1 DEF ToldOK, Told, Dead, Settled
  <2>5. CASE s = r /\ ReconcileRun(r)
    BY <1>1, <2>5 DEF ReconcileRun
  <2> QED
    BY <1>3, <2>1, <2>2, <2>3, <2>4, <2>5
<1>4. ASSUME NEW s \in Runs,
             \/ Cancel(s) \/ DrainLane(s) \/ PermitGranted(s) \/ CancelReturns(s)
             \/ EnqueueRun(s) \/ AnnounceAttempt(s) \/ CreateAttempt(s) \/ Turn(s)
             \/ SignalCheckpoint(s) \/ Finish(s)
             \/ StartFinalize(s) \/ JournalOutcome(s) \/ PublishOutcome(s)
      PROVE  row'[r] = row[r]
  BY <1>4, TurnFrame DEF Cancel, DrainLane, PermitGranted, CancelReturns, EnqueueRun,
     AnnounceAttempt, CreateAttempt, SignalCheckpoint, Finish, StartFinalize, JournalOutcome,
     PublishOutcome, rows
<1> QED
  BY <1>2, <1>3, <1>4 DEF Next, Progress, Execute, Turn, Conclude, Recover

(* A row that has become terminal is not written again. *)
THEOREM TerminalRowsAreFinal == Spec => TerminalRowIsFinal
<1>1. OutcomeInv /\ [Next]_vars => [\A r \in Runs : Terminal(r) /\ ~raced[r] => row'[r] = row[r]]_row
  BY TerminalRowStays
<1> QED
  BY <1>1, OutcomeInvariant, PTL DEF Spec, TerminalRowIsFinal

(* Three storage failures are needed to make the finalization of a run     *)
(* give up, unless its plan names an attempt that has no row.              *)
THEOREM FinalizationIsRobust == Spec => []FinalizationGivesUpLate
<1>1. OutcomeInv => FinalizationGivesUpLate
  BY DEF OutcomeInv, ToldOK, Told, Dead, Blocked, FinalizationGivesUpLate
<1> QED
  BY <1>1, OutcomeInvariant, PTL

(* Without storage failures a run is announced as cancelled only when      *)
(* cancel() was called for it.                                             *)
THEOREM TimeoutsAreFailures == Spec => []TimeoutIsNotCancellation
<1>1. ASSUME OutcomeInv, NEW r \in Runs, published[r] = <<"cancelled">>, faults = 0,
             ~Dead(r)
      PROVE  canceller[r] # "none"
  <2>1. stage[r] = "published"
    BY <1>1 DEF OutcomeInv, RunInv, ControlOK, Control, Dead
  <2>2. published[r] = <<plan[r].status>>
    BY <1>1, <2>1 DEF OutcomeInv, ToldOK, Told, Dead
  <2>3. plan[r].status = "cancelled"
    BY <1>1, <2>2
  <2> QED
    BY <1>1, <2>3 DEF OutcomeInv, BlamedOK, Blamed
<1>2. OutcomeInv => TimeoutIsNotCancellation
  BY <1>1 DEF TimeoutIsNotCancellation
<1> QED
  BY <1>2, OutcomeInvariant, PTL

(* When the gateway accepts requests again, every run of an earlier        *)
(* process is settled, although the open runs are asked for only once and  *)
(* a storage call may fail anywhere in the pass: nobody is admitted while  *)
(* the process recovers, so the list is complete, and the gateway starts   *)
(* only after the whole of it has been settled (create-app.ts, start()).   *)
THEOREM RestartsSettle == Spec => []NoOrphanAfterRestart
<1>1. OutcomeInv => NoOrphanAfterRestart
  BY DEF OutcomeInv, LinkedOK, Linked, Dead, NoOrphanAfterRestart
<1> QED
  BY <1>1, OutcomeInvariant, PTL

(* A run can be cancelled as long as it is undecided.                      *)
THEOREM RunsStayCancellable == Spec => []CancellableWhileUndecided
<1>1. OutcomeInv => CancellableWhileUndecided
  BY DEF OutcomeInv, LinkedOK, Linked, Dead, Outside, CancellableWhileUndecided
<1> QED
  BY <1>1, OutcomeInvariant, PTL

(* A cancel() that reaches the lane finds the work of its run there.       *)
THEOREM CancelsFindTheirLane == Spec => []CancelFindsItsLane
<1>1. ASSUME OutcomeInv, NEW r \in Runs, entry[r], ~withdrawn[r]
      PROVE  work[r] \in {"queued", "running"}
  <2>1. pc[r] \in InFlight \cup {"admitted"}
    BY <1>1 DEF OutcomeInv, RunInv, OwnTypeOK, ExecutorTypeOK, ControlOK, Control, Dead, LinkedOK,
       Linked, InFlight, Outside
  <2> QED
    BY <1>1, <2>1 DEF OutcomeInv, LinkedOK, Linked, Dead
<1>2. OutcomeInv => CancelFindsItsLane
  BY <1>1 DEF CancelFindsItsLane
<1> QED
  BY <1>2, OutcomeInvariant, PTL
=============================================================================
