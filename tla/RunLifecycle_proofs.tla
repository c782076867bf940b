------------------------- MODULE RunLifecycle_proofs -------------------------
(***************************************************************************)
(* What the life of a run guarantees for every number of runs and          *)
(* sessions, every capacity and limit, and every number of storage         *)
(* failures and crashes.                                                   *)
(*                                                                         *)
(* RunInv composes three inductive invariants: that of the lanes and that  *)
(* of the permits, whose theorems are used as they stand because every     *)
(* step but a crash is a step of theirs or leaves them alone, and Control, *)
(* which ties the executor, the finalization and the events of a run       *)
(* together.                                                               *)
(***************************************************************************)
EXTENDS RunLifecycle, TLAPS

LaneP     == INSTANCE SessionRunLane_proofs WITH Works <- Runs
CapacityP == INSTANCE RuntimeCapacity_proofs WITH Clients <- Runs

Control(r) ==
  /\ stage[r] # "none" <=> checkpointed[r]
  /\ stage[r] # "none" => plan[r].status # "none"
  /\ Len(published[r]) <= 1
  /\ published[r] # <<>> => stage[r] = "published" \/ Dead(r)
  /\ Dead(r) \/ pc[r] \in {"idle", "refused", "created"} => ~entry[r] /\ stage[r] = "none"
  /\ pc[r] \in {"idle", "refused", "created"} => published[r] = <<>>
  /\ pc[r] \in {"awaiting", "finally", "over"} => checkpointed[r]
  /\ pc[r] = "cycleContinue" => iteration[r] + 1 < MaxToolIterations
  /\ up # "up" => Dead(r) \/ pc[r] \in {"idle", "refused"}

ControlOK == \A r \in Runs : Control(r)

RunInv == OwnTypeOK /\ ControlOK /\ LaneP!LaneInv /\ CapacityP!CapacityInv

-----------------------------------------------------------------------------
(* The assumptions of the two components follow from those of the runtime. *)
LEMMA ComponentAssumptions == LaneP!LaneAssumption /\ CapacityP!CapacityAssumption
BY RunAssumption DEF LaneP!LaneAssumption, CapacityP!CapacityAssumption

(* The lane actions the runtime calls preserve the invariant of the lanes. *)
LEMMA LaneStep ==
  ASSUME LaneP!LaneInv, NEW r \in Runs,
         \/ Lane!Reserve(r) \/ Lane!RejectFull(r) \/ Lane!Enqueue(r) \/ Lane!Withdraw(r)
         \/ Lane!Return(r) \/ Lane!DrainNext(r) \/ Lane!DrainEnd(r)
  PROVE  LaneP!LaneInv'
<1>1. CASE Lane!Reserve(r)
  <2>1. LaneP!Reserve(r)
    BY <1>1 DEF Lane!Reserve, LaneP!Reserve, Lane!LaneFull, LaneP!LaneFull,
       Lane!Occupancy,
       LaneP!Occupancy
  <2> QED
    BY <2>1, ComponentAssumptions, LaneP!Reserve_Inv
<1>2. CASE Lane!RejectFull(r)
  <2>1. LaneP!RejectFull(r)
    BY <1>2 DEF Lane!RejectFull, LaneP!RejectFull, Lane!LaneFull, LaneP!LaneFull,
       Lane!Occupancy, LaneP!Occupancy
  <2> QED
    BY <2>1, ComponentAssumptions, LaneP!Idle_Inv
<1>3. CASE Lane!Enqueue(r)
  <2>1. LaneP!Enqueue(r)
    BY <1>3 DEF Lane!Enqueue, LaneP!Enqueue
  <2> QED
    BY <2>1, ComponentAssumptions, LaneP!Enqueue_Inv
<1>4. CASE Lane!Withdraw(r)
  <2>1. LaneP!Withdraw(r)
    BY <1>4 DEF Lane!Withdraw, LaneP!Withdraw
  <2> QED
    BY <2>1, ComponentAssumptions, LaneP!Withdraw_Inv
<1>5. CASE Lane!Return(r)
  <2>1. LaneP!Return(r)
    BY <1>5 DEF Lane!Return, LaneP!Return
  <2> QED
    BY <2>1, ComponentAssumptions, LaneP!Return_Inv
<1>6. CASE Lane!DrainNext(r)
  <2>1. LaneP!DrainNext(r)
    BY <1>6 DEF Lane!DrainNext, LaneP!DrainNext, Lane!Wanted, LaneP!Wanted
  <2> QED
    BY <2>1, ComponentAssumptions, LaneP!DrainNext_Inv
<1>7. CASE Lane!DrainEnd(r)
  <2>1. LaneP!DrainEnd(r)
    BY <1>7 DEF Lane!DrainEnd, LaneP!DrainEnd, Lane!Wanted, LaneP!Wanted
  <2> QED
    BY <2>1, ComponentAssumptions, LaneP!DrainEnd_Inv
<1> QED
  BY <1>1, <1>2, <1>3, <1>4, <1>5, <1>6, <1>7

(* A step that leaves the lanes alone. *)
LEMMA LaneStutter ==
  ASSUME LaneP!LaneInv, UNCHANGED laneVars
  PROVE  LaneP!LaneInv'
<1>1. UNCHANGED LaneP!laneVars
  BY DEF laneVars, LaneP!laneVars
<1> QED
  BY <1>1, ComponentAssumptions, LaneP!LaneNext_Inv

(* The same for the permits. *)
LEMMA CapacityStep ==
  ASSUME CapacityP!CapacityInv, NEW r \in Runs,
         Capacity!Acquire(r) \/ Capacity!WakeUp(r) \/ Capacity!Release(r)
  PROVE  CapacityP!CapacityInv'
<1>1. CASE Capacity!Acquire(r)
  <2>1. CapacityP!AcquireFree(r) \/ CapacityP!AcquireWait(r)
    BY <1>1 DEF Capacity!Acquire, Capacity!AcquireFree, Capacity!AcquireWait,
       CapacityP!AcquireFree, CapacityP!AcquireWait
  <2> QED
    BY <2>1, ComponentAssumptions, CapacityP!AcquireFree_Inv, CapacityP!AcquireWait_Inv
<1>2. CASE Capacity!WakeUp(r)
  <2>1. CapacityP!WakeUp(r)
    BY <1>2 DEF Capacity!WakeUp, CapacityP!WakeUp
  <2> QED
    BY <2>1, ComponentAssumptions, CapacityP!WakeUp_Inv
<1>3. CASE Capacity!Release(r)
  <2>1. CapacityP!Release(r)
    BY <1>3 DEF Capacity!Release, CapacityP!Release
  <2> QED
    BY <2>1, ComponentAssumptions, CapacityP!Release_Inv
<1> QED
  BY <1>1, <1>2, <1>3

(* A step that leaves the permits alone. *)
LEMMA CapacityStutter ==
  ASSUME CapacityP!CapacityInv, UNCHANGED permitVars
  PROVE  CapacityP!CapacityInv'
<1>1. UNCHANGED CapacityP!capacityVars
  BY DEF permitVars, CapacityP!capacityVars
<1> QED
  BY <1>1, ComponentAssumptions, CapacityP!CapacityNext_Inv

(* A step that leaves what Control reads of a run alone. *)
LEMMA ControlStutter ==
  ASSUME NEW s \in Runs, Control(s),
         pc'[s] = pc[s], stage'[s] = stage[s], plan'[s] = plan[s], entry'[s] = entry[s],
         checkpointed'[s] = checkpointed[s], published'[s] = published[s],
         iteration'[s] = iteration[s], up = "up" => up' = "up"
  PROVE  Control(s)'
BY DEF Control, Dead

(* The initial states satisfy the invariant. *)
LEMMA Init_Inv == Init => RunInv
<1> SUFFICES ASSUME Init PROVE RunInv
  OBVIOUS
<1>1. OwnTypeOK
  BY RunAssumption DEF Init, OwnTypeOK, DurableTypeOK, ExecutorTypeOK, OutcomeTypeOK,
     EnvTypeOK, NoRow, Row, PCs, Stages, NoPlan, Plans, Codes
<1>2. ControlOK
  BY RunAssumption DEF Init, ControlOK, Control, Dead
<1>3. LaneP!LaneInv
  <2>1. LaneP!LaneInit
    BY DEF Init, Lane!LaneInit, LaneP!LaneInit
  <2> QED
    BY <2>1, ComponentAssumptions, LaneP!LaneInit_Inv
<1>4. CapacityP!CapacityInv
  <2>1. CapacityP!CapacityInit
    BY DEF Init, Capacity!CapacityInit, CapacityP!CapacityInit
  <2> QED
    BY <2>1, ComponentAssumptions, CapacityP!CapacityInit_Inv
<1> QED
  BY <1>1, <1>2, <1>3, <1>4 DEF RunInv

(* The count of storage failures stays within its bound. *)
LEMMA FaultCounted ==
  ASSUME EnvTypeOK, Fault \/ NoFault
  PROVE  faults' \in 0..MaxFaults
BY RunAssumption DEF EnvTypeOK, Fault, NoFault

(* The rows the runtime writes. *)
LEMMA RowType ==
  ASSUME NEW st \in RunStatus \cup {"absent"}, NEW code \in Codes
  PROVE  Row(st, code) \in [status : RunStatus \cup {"absent"}, code : Codes]
BY DEF Row

(* Appending an exchange keeps transcripts sequences of entries. *)
LEMMA ExchangeType ==
  ASSUME DurableTypeOK, NEW r \in Runs, NEW kind \in EntryKinds, AppendExchange(r, kind)
  PROVE  transcript' \in [Keys -> Seq([run : Runs, kind : EntryKinds])]
<1> DEFINE E == [run : Runs, kind : EntryKinds]
           k == KeyOf[r]
           x == IF inputDone[r] THEN <<Entry(r, kind)>>
                                ELSE <<Entry(r, "input"), Entry(r, kind)>>
<1>1. k \in Keys /\ transcript[k] \in Seq(E)
  BY RunAssumption DEF DurableTypeOK
<1>2. Entry(r, kind) \in E /\ Entry(r, "input") \in E
  BY DEF Entry, EntryKinds
<1>3. x \in Seq(E)
  <2>1. CASE inputDone[r]
    BY <2>1, <1>2
  <2>2. CASE ~inputDone[r]
    BY <2>2, <1>2
  <2> QED
    BY <2>1, <2>2
<1>4. transcript[k] \o x \in Seq(E)
  BY <1>1, <1>3
<1>5. transcript' = [transcript EXCEPT ![k] = transcript[k] \o x]
  BY DEF AppendExchange
<1> QED
  BY <1>1, <1>4, <1>5 DEF DurableTypeOK

(* What the checkpoint writes for the run it decides, and that it writes   *)
(* nothing for another.                                                    *)
LEMMA DecideEffect ==
  ASSUME OwnTypeOK, NEW r \in Runs, NEW signal \in {"success", "cancel", "failure"},
         NEW code \in Codes, Decide(r, signal, code)
  PROVE  /\ OutcomeTypeOK' /\ (Fault \/ NoFault)
         /\ checkpointed'[r] /\ stage'[r] = "decided" /\ plan'[r].status # "none"
         /\ published' = published
         /\ \A s \in Runs : s # r => /\ stage'[s] = stage[s] /\ plan'[s] = plan[s]
                                     /\ checkpointed'[s] = checkpointed[s]
<1> USE DEF OwnTypeOK, OutcomeTypeOK
<1>1. Decided(signal) \in TerminalStatus
  BY DEF Decided, TerminalStatus
<1>2. PICK p \in Plans : /\ plan' = [plan EXCEPT ![r] = p] /\ p.status # "none"
                         /\ (Fault \/ NoFault)
                         /\ \/ UNCHANGED journalOk
                            \/ journalOk' = [journalOk EXCEPT ![r] = FALSE]
  <2>1. CASE /\ NoFault /\ UNCHANGED journalOk
             /\ plan' = [plan EXCEPT ![r] = [status |-> Decided(signal), code |-> code,
                                             withAttempt |-> FALSE]]
    <3>1. /\ [status |-> Decided(signal), code |-> code, withAttempt |-> FALSE] \in Plans
          /\ Decided(signal) # "none"
      BY <1>1 DEF Plans, TerminalStatus
    <3> QED
      BY <2>1, <3>1
  <2>2. CASE /\ Fault /\ journalOk' = [journalOk EXCEPT ![r] = FALSE]
             /\ plan' = [plan EXCEPT ![r] = [status |-> "failed", code |-> "RUN_JOURNAL_FAILED",
                                             withAttempt |-> FALSE]]
    <3>1. [status |-> "failed", code |-> "RUN_JOURNAL_FAILED", withAttempt |-> FALSE] \in Plans
      BY DEF Plans, TerminalStatus, Codes
    <3> QED
      BY <2>2, <3>1
  <2> QED
    BY <2>1, <2>2 DEF Decide
<1>3. /\ checkpointed' = [checkpointed EXCEPT ![r] = TRUE]
      /\ stage' = [stage EXCEPT ![r] = "decided"] /\ published' = published
      /\ raced' = [raced EXCEPT ![r] = @ \/ Starting(r)]
  BY DEF Decide
<1>4. raced' \in [Runs -> BOOLEAN]
  <2>1. (raced[r] \/ Starting(r)) \in BOOLEAN
    OBVIOUS
  <2> QED
    BY <1>3, <2>1
<1>5. OutcomeTypeOK'
  BY <1>2, <1>3, <1>4 DEF Stages
<1> QED
  BY <1>2, <1>3, <1>5

(* The signal an executor brings to the checkpoint. *)
LEMMA SignalType ==
  ASSUME NEW r \in Runs, pc[r] \in {"succeed", "cancelled", "exhausted", "catch", "catchTimeout"}
  PROVE  Signal(r).kind \in {"success", "cancel", "failure"} /\ Signal(r).code \in Codes
BY DEF Signal, Codes

(* Admission touches the row and where the executor stands. *)
LEMMA Admit_Own ==
  ASSUME OwnTypeOK, ControlOK, NEW r \in Runs, Admit(r)
  PROVE  OwnTypeOK' /\ ControlOK'
<1> USE DEF OwnTypeOK
<1>1. OutcomeTypeOK'
  BY DEF OutcomeTypeOK, Admit, rows, turnVars, cancelVars, endVars, envVars
<1>2. DurableTypeOK'
  <2>1. row' = row \/ row' = [row EXCEPT ![r] = Row("queued", "none")]
    BY DEF Admit
  <2>2. Row("queued", "none") \in [status : RunStatus \cup {"absent"}, code : Codes]
    BY RowType DEF RunStatus, Codes
  <2> QED
    BY <2>1, <2>2 DEF DurableTypeOK, Admit
<1>3. ExecutorTypeOK'
  BY RunAssumption DEF ExecutorTypeOK, Admit, rows, turnVars, cancelVars, endVars,
     envVars, Goto, PCs
<1>4. EnvTypeOK'
  BY FaultCounted DEF EnvTypeOK, Admit, rows, turnVars, cancelVars, endVars, envVars
<1>5. Control(r)'
  BY RunAssumption DEF ExecutorTypeOK, OutcomeTypeOK, ControlOK, Control, Dead, Admit, rows,
     turnVars, cancelVars, endVars, envVars, Goto, Decide, Fault, NoFault,
     JournalBestEffort
<1>6. \A s \in Runs : s # r => Control(s)'
  BY ControlStutter DEF ExecutorTypeOK, OutcomeTypeOK, ControlOK, Admit, rows, turnVars,
     cancelVars, endVars, envVars, Goto, Decide, Fault, NoFault, JournalBestEffort,
     AppendFails
<1> QED
  BY <1>1, <1>2, <1>3, <1>4, <1>5, <1>6 DEF OwnTypeOK, ControlOK

(* Enqueueing gives the run its cancellation entry; nothing is decided     *)
(* yet.                                                                    *)
LEMMA EnqueueRun_Own ==
  ASSUME OwnTypeOK, ControlOK, NEW r \in Runs, EnqueueRun(r)
  PROVE  OwnTypeOK' /\ ControlOK'
<1> USE DEF OwnTypeOK
<1>1. DurableTypeOK' /\ OutcomeTypeOK' /\ EnvTypeOK'
  BY DEF DurableTypeOK, OutcomeTypeOK, EnvTypeOK, EnqueueRun, rows, turnVars,
     cancelVars, endVars, envVars
<1>2. ExecutorTypeOK'
  BY RunAssumption DEF ExecutorTypeOK, EnqueueRun, rows, turnVars, cancelVars, endVars,
     envVars, Goto, PCs
<1>3. Control(r)'
  BY RunAssumption DEF ExecutorTypeOK, OutcomeTypeOK, ControlOK, Control, Dead, EnqueueRun,
     rows, turnVars, cancelVars, endVars, envVars, Goto, Decide, Fault, NoFault,
     JournalBestEffort
<1>4. \A s \in Runs : s # r => Control(s)'
  BY ControlStutter DEF ExecutorTypeOK, OutcomeTypeOK, ControlOK, EnqueueRun, rows,
     turnVars, cancelVars, endVars, envVars, Goto, Decide, Fault, NoFault,
     JournalBestEffort, AppendFails
<1> QED
  BY <1>1, <1>2, <1>3, <1>4 DEF OwnTypeOK, ControlOK

(* The drain loop touches the lane and the permits only. *)
LEMMA DrainLane_Own ==
  ASSUME OwnTypeOK, ControlOK, NEW r \in Runs, DrainLane(r)
  PROVE  OwnTypeOK' /\ ControlOK'
<1> USE DEF OwnTypeOK
<1>1. DurableTypeOK' /\ ExecutorTypeOK' /\ OutcomeTypeOK' /\ EnvTypeOK'
  BY DEF DurableTypeOK, ExecutorTypeOK, OutcomeTypeOK, EnvTypeOK, DrainLane, rows,
     turnVars, cancelVars, endVars, envVars
<1>2. Control(r)'
  BY RunAssumption DEF ExecutorTypeOK, OutcomeTypeOK, ControlOK, Control, Dead, DrainLane,
     rows, turnVars, cancelVars, endVars, envVars, Goto, Decide, Fault, NoFault,
     JournalBestEffort
<1>3. \A s \in Runs : s # r => Control(s)'
  BY ControlStutter DEF ExecutorTypeOK, OutcomeTypeOK, ControlOK, DrainLane, rows,
     turnVars, cancelVars, endVars, envVars, Goto, Decide, Fault, NoFault,
     JournalBestEffort, AppendFails
<1> QED
  BY <1>1, <1>2, <1>3 DEF OwnTypeOK, ControlOK

(* A granted permit touches the permits only. *)
LEMMA PermitGranted_Own ==
  ASSUME OwnTypeOK, ControlOK, NEW r \in Runs, PermitGranted(r)
  PROVE  OwnTypeOK' /\ ControlOK'
<1> USE DEF OwnTypeOK
<1>1. DurableTypeOK' /\ ExecutorTypeOK' /\ OutcomeTypeOK' /\ EnvTypeOK'
  BY DEF DurableTypeOK, ExecutorTypeOK, OutcomeTypeOK, EnvTypeOK, PermitGranted, rows,
     turnVars, cancelVars, endVars, envVars
<1>2. Control(r)'
  BY RunAssumption DEF ExecutorTypeOK, OutcomeTypeOK, ControlOK, Control, Dead, PermitGranted,
     rows, turnVars, cancelVars, endVars, envVars, Goto, Decide, Fault, NoFault,
     JournalBestEffort
<1>3. \A s \in Runs : s # r => Control(s)'
  BY ControlStutter DEF ExecutorTypeOK, OutcomeTypeOK, ControlOK, PermitGranted, rows,
     turnVars, cancelVars, endVars, envVars, Goto, Decide, Fault, NoFault,
     JournalBestEffort, AppendFails
<1> QED
  BY <1>1, <1>2, <1>3 DEF OwnTypeOK, ControlOK

(* The row becomes running, or its executor goes to the catch block. *)
LEMMA MarkRunning_Own ==
  ASSUME OwnTypeOK, ControlOK, NEW r \in Runs, MarkRunning(r)
  PROVE  OwnTypeOK' /\ ControlOK'
<1> USE DEF OwnTypeOK
<1>1. OutcomeTypeOK'
  BY DEF OutcomeTypeOK, MarkRunning, rows, turnVars, cancelVars, endVars, envVars
<1>2. DurableTypeOK'
  <2>1. row' = row \/ row' = [row EXCEPT ![r] = Row("running", "none")]
    BY DEF MarkRunning
  <2>2. Row("running", "none") \in [status : RunStatus \cup {"absent"}, code : Codes]
    BY RowType DEF RunStatus, Codes
  <2> QED
    BY <2>1, <2>2 DEF DurableTypeOK, MarkRunning
<1>3. ExecutorTypeOK'
  BY RunAssumption DEF ExecutorTypeOK, MarkRunning, rows, turnVars, cancelVars, endVars,
     envVars, Goto, PCs
<1>4. EnvTypeOK'
  BY FaultCounted DEF EnvTypeOK, MarkRunning, rows, turnVars, cancelVars, endVars, envVars
<1>5. Control(r)'
  BY RunAssumption DEF ExecutorTypeOK, OutcomeTypeOK, ControlOK, Control, Dead, MarkRunning,
     rows, turnVars, cancelVars, endVars, envVars, Goto, Decide, Fault, NoFault,
     JournalBestEffort
<1>6. \A s \in Runs : s # r => Control(s)'
  BY ControlStutter DEF ExecutorTypeOK, OutcomeTypeOK, ControlOK, MarkRunning, rows,
     turnVars, cancelVars, endVars, envVars, Goto, Decide, Fault, NoFault,
     JournalBestEffort, AppendFails
<1> QED
  BY <1>1, <1>2, <1>3, <1>4, <1>5, <1>6 DEF OwnTypeOK, ControlOK

(* The attempt is named and announced. *)
LEMMA AnnounceAttempt_Own ==
  ASSUME OwnTypeOK, ControlOK, NEW r \in Runs, AnnounceAttempt(r)
  PROVE  OwnTypeOK' /\ ControlOK'
<1> USE DEF OwnTypeOK
<1>1. DurableTypeOK'
  BY DEF DurableTypeOK, AnnounceAttempt, rows, turnVars, cancelVars, endVars, envVars
<1>2. ExecutorTypeOK'
  BY RunAssumption DEF ExecutorTypeOK, AnnounceAttempt, rows, turnVars, cancelVars,
     endVars, envVars, Goto, PCs
<1>3. OutcomeTypeOK'
  BY RunAssumption DEF OutcomeTypeOK, AnnounceAttempt, rows, turnVars, cancelVars,
     endVars, envVars, JournalBestEffort, Fault, NoFault
<1>4. EnvTypeOK'
  BY FaultCounted DEF EnvTypeOK, AnnounceAttempt, rows, turnVars, cancelVars, endVars,
     envVars, JournalBestEffort
<1>5. Control(r)'
  BY RunAssumption DEF ExecutorTypeOK, OutcomeTypeOK, ControlOK, Control, Dead,
     AnnounceAttempt, rows, turnVars, cancelVars, endVars, envVars, Goto, Decide, Fault,
     NoFault, JournalBestEffort
<1>6. \A s \in Runs : s # r => Control(s)'
  BY ControlStutter DEF ExecutorTypeOK, OutcomeTypeOK, ControlOK, AnnounceAttempt, rows,
     turnVars, cancelVars, endVars, envVars, Goto, Decide, Fault, NoFault,
     JournalBestEffort, AppendFails
<1> QED
  BY <1>1, <1>2, <1>3, <1>4, <1>5, <1>6 DEF OwnTypeOK, ControlOK

(* The attempt gets its row, or its executor goes to the catch block. *)
LEMMA CreateAttempt_Own ==
  ASSUME OwnTypeOK, ControlOK, NEW r \in Runs, CreateAttempt(r)
  PROVE  OwnTypeOK' /\ ControlOK'
<1> USE DEF OwnTypeOK
<1>1. OutcomeTypeOK'
  BY DEF OutcomeTypeOK, CreateAttempt, rows, turnVars, cancelVars, endVars, envVars
<1>2. DurableTypeOK'
  <2>1. attempt' = attempt \/ attempt' = [attempt EXCEPT ![r] = Row("running", "none")]
    BY DEF CreateAttempt
  <2>2. Row("running", "none") \in [status : RunStatus \cup {"absent"}, code : Codes]
    BY RowType DEF RunStatus, Codes
  <2> QED
    BY <2>1, <2>2 DEF DurableTypeOK, CreateAttempt
<1>3. ExecutorTypeOK'
  BY RunAssumption DEF ExecutorTypeOK, CreateAttempt, rows, turnVars, cancelVars,
     endVars, envVars, Goto, PCs
<1>4. EnvTypeOK'
  BY FaultCounted DEF EnvTypeOK, CreateAttempt, rows, turnVars, cancelVars, endVars,
     envVars
<1>5. Control(r)'
  BY RunAssumption DEF ExecutorTypeOK, OutcomeTypeOK, ControlOK, Control, Dead, CreateAttempt,
     rows, turnVars, cancelVars, endVars, envVars, Goto, Decide, Fault, NoFault,
     JournalBestEffort
<1>6. \A s \in Runs : s # r => Control(s)'
  BY ControlStutter DEF ExecutorTypeOK, OutcomeTypeOK, ControlOK, CreateAttempt, rows,
     turnVars, cancelVars, endVars, envVars, Goto, Decide, Fault, NoFault,
     JournalBestEffort, AppendFails
<1> QED
  BY <1>1, <1>2, <1>3, <1>4, <1>5, <1>6 DEF OwnTypeOK, ControlOK

(* The required journal entry is written or fails. *)
LEMMA JournalAccepted_Own ==
  ASSUME OwnTypeOK, ControlOK, NEW r \in Runs, JournalAccepted(r)
  PROVE  OwnTypeOK' /\ ControlOK'
<1> USE DEF OwnTypeOK
<1>1. DurableTypeOK' /\ OutcomeTypeOK'
  BY DEF DurableTypeOK, OutcomeTypeOK, JournalAccepted, rows, turnVars, cancelVars,
     endVars, envVars
<1>2. ExecutorTypeOK'
  BY RunAssumption DEF ExecutorTypeOK, JournalAccepted, rows, turnVars, cancelVars,
     endVars, envVars, Goto, PCs
<1>3. EnvTypeOK'
  BY FaultCounted DEF EnvTypeOK, JournalAccepted, rows, turnVars, cancelVars, endVars,
     envVars
<1>4. Control(r)'
  BY RunAssumption DEF ExecutorTypeOK, OutcomeTypeOK, ControlOK, Control, Dead,
     JournalAccepted, rows, turnVars, cancelVars, endVars, envVars, Goto, Decide, Fault,
     NoFault, JournalBestEffort
<1>5. \A s \in Runs : s # r => Control(s)'
  BY ControlStutter DEF ExecutorTypeOK, OutcomeTypeOK, ControlOK, JournalAccepted, rows,
     turnVars, cancelVars, endVars, envVars, Goto, Decide, Fault, NoFault,
     JournalBestEffort, AppendFails
<1> QED
  BY <1>1, <1>2, <1>3, <1>4, <1>5 DEF OwnTypeOK, ControlOK

(* A turn begins; the iteration count is still below its limit, so the     *)
(* loop does not end by itself.                                            *)
LEMMA BeginTurn_Own ==
  ASSUME OwnTypeOK, ControlOK, NEW r \in Runs, BeginTurn(r)
  PROVE  OwnTypeOK' /\ ControlOK'
<1> USE DEF OwnTypeOK
<1>1. DurableTypeOK' /\ OutcomeTypeOK' /\ EnvTypeOK'
  BY DEF DurableTypeOK, OutcomeTypeOK, EnvTypeOK, BeginTurn, rows, turnVars, cancelVars,
     endVars, envVars
<1>2. ExecutorTypeOK'
  <2>1. PICK label \in PCs : pc' = [pc EXCEPT ![r] = label]
    BY DEF BeginTurn, Goto, PCs
  <2>2. pageTail' \in [Runs -> Nat]
    <3>1. transcript[KeyOf[r]] \in Seq([run : Runs, kind : EntryKinds])
      BY RunAssumption DEF DurableTypeOK
    <3>2. Len(transcript[KeyOf[r]]) \in Nat
      BY <3>1
    <3> QED
      BY <3>2, RunAssumption DEF BeginTurn, ExecutorTypeOK
  <2> QED
    BY <2>1, <2>2 DEF ExecutorTypeOK, BeginTurn, cancelVars
<1>3. Control(r)'
  BY RunAssumption DEF ExecutorTypeOK, OutcomeTypeOK, ControlOK, Control, Dead, BeginTurn,
     rows, turnVars, cancelVars, endVars, envVars, Goto, Decide, Fault, NoFault,
     JournalBestEffort
<1>4. \A s \in Runs : s # r => Control(s)'
  BY ControlStutter DEF ExecutorTypeOK, OutcomeTypeOK, ControlOK, BeginTurn, rows,
     turnVars, cancelVars, endVars, envVars, Goto, Decide, Fault, NoFault,
     JournalBestEffort, AppendFails
<1> QED
  BY <1>1, <1>2, <1>3, <1>4 DEF OwnTypeOK, ControlOK

(* The model call returns. *)
LEMMA CallReturns_Own ==
  ASSUME OwnTypeOK, ControlOK, NEW r \in Runs, CallReturns(r)
  PROVE  OwnTypeOK' /\ ControlOK'
<1> USE DEF OwnTypeOK
<1>1. DurableTypeOK' /\ OutcomeTypeOK' /\ EnvTypeOK'
  BY DEF DurableTypeOK, OutcomeTypeOK, EnvTypeOK, CallReturns, rows, turnVars,
     cancelVars, endVars, envVars
<1>2. ExecutorTypeOK'
  BY RunAssumption DEF ExecutorTypeOK, CallReturns, rows, turnVars, cancelVars, endVars,
     envVars, Goto, PCs
<1>3. Control(r)'
  BY RunAssumption DEF ExecutorTypeOK, OutcomeTypeOK, ControlOK, Control, Dead, CallReturns,
     rows, turnVars, cancelVars, endVars, envVars, Goto, Decide, Fault, NoFault,
     JournalBestEffort
<1>4. \A s \in Runs : s # r => Control(s)'
  BY ControlStutter DEF ExecutorTypeOK, OutcomeTypeOK, ControlOK, CallReturns, rows,
     turnVars, cancelVars, endVars, envVars, Goto, Decide, Fault, NoFault,
     JournalBestEffort, AppendFails
<1> QED
  BY <1>1, <1>2, <1>3, <1>4 DEF OwnTypeOK, ControlOK

(* The run timer fires. *)
LEMMA CallTimesOut_Own ==
  ASSUME OwnTypeOK, ControlOK, NEW r \in Runs, CallTimesOut(r)
  PROVE  OwnTypeOK' /\ ControlOK'
<1> USE DEF OwnTypeOK
<1>1. DurableTypeOK' /\ OutcomeTypeOK'
  BY DEF DurableTypeOK, OutcomeTypeOK, CallTimesOut, rows, turnVars, cancelVars,
     endVars, envVars
<1>2. ExecutorTypeOK'
  BY RunAssumption DEF ExecutorTypeOK, CallTimesOut, rows, turnVars, cancelVars,
     endVars, envVars, Goto, PCs
<1>3. EnvTypeOK'
  BY FaultCounted DEF EnvTypeOK, CallTimesOut, rows, turnVars, cancelVars, endVars,
     envVars
<1>4. Control(r)'
  BY RunAssumption DEF ExecutorTypeOK, OutcomeTypeOK, ControlOK, Control, Dead, CallTimesOut,
     rows, turnVars, cancelVars, endVars, envVars, Goto, Decide, Fault, NoFault,
     JournalBestEffort
<1>5. \A s \in Runs : s # r => Control(s)'
  BY ControlStutter DEF ExecutorTypeOK, OutcomeTypeOK, ControlOK, CallTimesOut, rows,
     turnVars, cancelVars, endVars, envVars, Goto, Decide, Fault, NoFault,
     JournalBestEffort, AppendFails
<1> QED
  BY <1>1, <1>2, <1>3, <1>4, <1>5 DEF OwnTypeOK, ControlOK

(* The final exchange is appended, or a conflict or failure ends the turn. *)
LEMMA AppendText_Own ==
  ASSUME OwnTypeOK, ControlOK, NEW r \in Runs, AppendText(r)
  PROVE  OwnTypeOK' /\ ControlOK'
<1> USE DEF OwnTypeOK
<1>1. OutcomeTypeOK'
  BY DEF OutcomeTypeOK, AppendText, rows, turnVars, cancelVars, endVars, envVars
<1>2. DurableTypeOK'
  <2>1. transcript' = transcript \/ AppendExchange(r, "output")
    BY DEF AppendText, AppendFails
  <2>2. transcript' \in [Keys -> Seq([run : Runs, kind : EntryKinds])]
    BY <2>1, ExchangeType DEF DurableTypeOK, EntryKinds
  <2> QED
    BY <2>2 DEF DurableTypeOK, AppendText
<1>3. ExecutorTypeOK'
  BY RunAssumption DEF ExecutorTypeOK, AppendText, rows, turnVars, cancelVars, endVars,
     envVars, Goto, PCs, AppendFails
<1>4. EnvTypeOK'
  BY FaultCounted DEF EnvTypeOK, AppendText, rows, turnVars, cancelVars, endVars,
     envVars, AppendExchange, AppendFails
<1>5. Control(r)'
  <2>1. pc[r] = "text" /\ pc'[r] \in {"appended", "catch"}
    BY DEF AppendText, AppendFails, Goto, ExecutorTypeOK
  <2> QED
    BY <2>1 DEF AppendText, ControlOK, Control, Dead, cancelVars, endVars
<1>6. \A s \in Runs : s # r => Control(s)'
  BY ControlStutter DEF ExecutorTypeOK, OutcomeTypeOK, ControlOK, AppendText, rows,
     turnVars, cancelVars, endVars, envVars, Goto, Decide, Fault, NoFault,
     JournalBestEffort, AppendFails
<1> QED
  BY <1>1, <1>2, <1>3, <1>4, <1>5, <1>6 DEF OwnTypeOK, ControlOK

(* attempt.completed is emitted and journalled. *)
LEMMA CompleteAttempt_Own ==
  ASSUME OwnTypeOK, ControlOK, NEW r \in Runs, CompleteAttempt(r)
  PROVE  OwnTypeOK' /\ ControlOK'
<1> USE DEF OwnTypeOK
<1>1. DurableTypeOK'
  BY DEF DurableTypeOK, CompleteAttempt, rows, turnVars, cancelVars, endVars, envVars
<1>2. ExecutorTypeOK'
  BY RunAssumption DEF ExecutorTypeOK, CompleteAttempt, rows, turnVars, cancelVars,
     endVars, envVars, Goto, PCs
<1>3. OutcomeTypeOK'
  BY RunAssumption DEF OutcomeTypeOK, CompleteAttempt, rows, turnVars, cancelVars,
     endVars, envVars, JournalBestEffort, Fault, NoFault
<1>4. EnvTypeOK'
  BY FaultCounted DEF EnvTypeOK, CompleteAttempt, rows, turnVars, cancelVars, endVars,
     envVars, JournalBestEffort
<1>5. Control(r)'
  BY RunAssumption DEF ExecutorTypeOK, OutcomeTypeOK, ControlOK, Control, Dead,
     CompleteAttempt, rows, turnVars, cancelVars, endVars, envVars, Goto, Decide, Fault,
     NoFault, JournalBestEffort
<1>6. \A s \in Runs : s # r => Control(s)'
  BY ControlStutter DEF ExecutorTypeOK, OutcomeTypeOK, ControlOK, CompleteAttempt, rows,
     turnVars, cancelVars, endVars, envVars, Goto, Decide, Fault, NoFault,
     JournalBestEffort, AppendFails
<1> QED
  BY <1>1, <1>2, <1>3, <1>4, <1>5, <1>6 DEF OwnTypeOK, ControlOK

(* The tool batch is appended and the cycle decided: it continues only     *)
(* below the limit.                                                        *)
LEMMA ToolsReturn_Own ==
  ASSUME OwnTypeOK, ControlOK, NEW r \in Runs, ToolsReturn(r)
  PROVE  OwnTypeOK' /\ ControlOK'
<1> USE DEF OwnTypeOK
<1>1. OutcomeTypeOK'
  BY DEF OutcomeTypeOK, ToolsReturn, rows, turnVars, cancelVars, endVars, envVars
<1>2. DurableTypeOK'
  <2>1. transcript' = transcript \/ AppendExchange(r, "tools")
    BY DEF ToolsReturn, AppendFails
  <2>2. transcript' \in [Keys -> Seq([run : Runs, kind : EntryKinds])]
    BY <2>1, ExchangeType DEF DurableTypeOK, EntryKinds
  <2> QED
    BY <2>2 DEF DurableTypeOK, ToolsReturn
<1>3. ExecutorTypeOK'
  BY RunAssumption DEF ExecutorTypeOK, ToolsReturn, rows, turnVars, cancelVars, endVars,
     envVars, Goto, PCs, AppendFails, CycleDecision
<1>4. EnvTypeOK'
  BY FaultCounted DEF EnvTypeOK, ToolsReturn, rows, turnVars, cancelVars, endVars,
     envVars, AppendExchange, AppendFails
<1>5. Control(r)'
  <2>1. /\ pc[r] = "tools"
        /\ pc'[r] \in {"cycleContinue", "cycleCancel", "cycleFail", "catch"}
        /\ pc'[r] = "cycleContinue" => iteration[r] + 1 < MaxToolIterations
    <3>1. CASE Goto(r, "catch")
      BY <3>1 DEF ToolsReturn, Goto, ExecutorTypeOK
    <3>2. CASE \E uncertain \in BOOLEAN : Goto(r, CycleDecision(r, uncertain))
      <4>1. PICK uncertain \in BOOLEAN : Goto(r, CycleDecision(r, uncertain))
        BY <3>2
      <4>2. /\ CycleDecision(r, uncertain) \in {"cycleContinue", "cycleCancel", "cycleFail"}
            /\ CycleDecision(r, uncertain) = "cycleContinue"
                 => iteration[r] + 1 < MaxToolIterations
        BY RunAssumption DEF CycleDecision, ExecutorTypeOK
      <4> QED
        BY <4>1, <4>2 DEF ToolsReturn, Goto, ExecutorTypeOK
    <3> QED
      BY <3>1, <3>2 DEF ToolsReturn, AppendFails
  <2> QED
    BY <2>1 DEF ToolsReturn, ControlOK, Control, Dead, cancelVars, endVars
<1>6. \A s \in Runs : s # r => Control(s)'
  BY ControlStutter DEF ExecutorTypeOK, OutcomeTypeOK, ControlOK, ToolsReturn, rows,
     turnVars, cancelVars, endVars, envVars, Goto, Decide, Fault, NoFault,
     JournalBestEffort, AppendFails
<1> QED
  BY <1>1, <1>2, <1>3, <1>4, <1>5, <1>6 DEF OwnTypeOK, ControlOK

(* The decision of the cycle is followed; the counter stays below its      *)
(* limit.                                                                  *)
LEMMA EndCycle_Own ==
  ASSUME OwnTypeOK, ControlOK, NEW r \in Runs, EndCycle(r)
  PROVE  OwnTypeOK' /\ ControlOK'
<1> USE DEF OwnTypeOK
<1>1. DurableTypeOK'
  BY DEF DurableTypeOK, EndCycle, rows, turnVars, cancelVars, endVars, envVars
<1>2. ExecutorTypeOK'
  <2>1. PICK label \in PCs : pc' = [pc EXCEPT ![r] = label]
    BY DEF EndCycle, Goto, PCs
  <2>2. iteration' \in [Runs -> 0..MaxToolIterations-1]
    <3>1. pc[r] = "cycleContinue" => iteration[r] + 1 \in 0..MaxToolIterations-1
      BY RunAssumption DEF ControlOK, Control, Dead, ExecutorTypeOK
    <3> QED
      BY <3>1 DEF EndCycle, ExecutorTypeOK
  <2> QED
    BY <2>1, <2>2 DEF ExecutorTypeOK, EndCycle, cancelVars
<1>3. OutcomeTypeOK'
  BY RunAssumption DEF OutcomeTypeOK, EndCycle, rows, turnVars, cancelVars, endVars,
     envVars, JournalBestEffort, Fault, NoFault
<1>4. EnvTypeOK'
  BY FaultCounted DEF EnvTypeOK, EndCycle, rows, turnVars, cancelVars, endVars, envVars,
     JournalBestEffort
<1>5. Control(r)'
  BY RunAssumption DEF ExecutorTypeOK, OutcomeTypeOK, ControlOK, Control, Dead, EndCycle,
     rows, turnVars, cancelVars, endVars, envVars, Goto, Decide, Fault, NoFault,
     JournalBestEffort
<1>6. \A s \in Runs : s # r => Control(s)'
  BY ControlStutter DEF ExecutorTypeOK, OutcomeTypeOK, ControlOK, EndCycle, rows,
     turnVars, cancelVars, endVars, envVars, Goto, Decide, Fault, NoFault,
     JournalBestEffort, AppendFails
<1> QED
  BY <1>1, <1>2, <1>3, <1>4, <1>5, <1>6 DEF OwnTypeOK, ControlOK

(* The executor signals the checkpoint, which decides at most once. *)
LEMMA SignalCheckpoint_Own ==
  ASSUME OwnTypeOK, ControlOK, NEW r \in Runs, SignalCheckpoint(r)
  PROVE  OwnTypeOK' /\ ControlOK'
<1> USE DEF OwnTypeOK
<1>1. DurableTypeOK'
  BY DEF DurableTypeOK, SignalCheckpoint, rows, turnVars, cancelVars, endVars, envVars
<1>2. ExecutorTypeOK'
  BY RunAssumption DEF ExecutorTypeOK, SignalCheckpoint, rows, turnVars, cancelVars,
     endVars, envVars, Goto, PCs
<1>3. OutcomeTypeOK'
  <2>1. CASE UNCHANGED endVars
    BY <2>1 DEF OutcomeTypeOK, endVars
  <2>2. CASE Decide(r, Signal(r).kind, Signal(r).code)
    BY <2>2, SignalType, DecideEffect DEF SignalCheckpoint
  <2> QED
    BY <2>1, <2>2 DEF SignalCheckpoint
<1>4. EnvTypeOK'
  BY FaultCounted DEF EnvTypeOK, SignalCheckpoint, rows, turnVars, cancelVars, endVars,
     envVars, Decide
<1>5. Control(r)'
  <2>1. /\ UNCHANGED <<entry, iteration, up>>
        /\ pc'[r] \in {"awaiting", "finally"} /\ pc[r] \notin {"idle", "gone", "listed", "refused", "created"}
    BY DEF SignalCheckpoint, Goto, ExecutorTypeOK, cancelVars, turnVars
  <2>2. CASE checkpointed[r]
    BY <2>1, <2>2 DEF SignalCheckpoint, endVars, ControlOK, Control, Dead
  <2>3. CASE ~checkpointed[r]
    <3>1. published[r] = <<>>
      BY <2>1, <2>3 DEF ControlOK, Control, Dead
    <3>2. /\ checkpointed'[r] /\ stage'[r] = "decided" /\ plan'[r].status # "none"
          /\ published' = published
      BY <2>3, SignalType, DecideEffect DEF SignalCheckpoint
    <3> QED
      BY <2>1, <3>1, <3>2 DEF ControlOK, Control, Dead
  <2> QED
    BY <2>2, <2>3
<1>6. \A s \in Runs : s # r => Control(s)'
  BY ControlStutter DEF ExecutorTypeOK, OutcomeTypeOK, ControlOK, SignalCheckpoint,
     rows, turnVars, cancelVars, endVars, envVars, Goto, Decide, Fault, NoFault,
     JournalBestEffort, AppendFails
<1> QED
  BY <1>1, <1>2, <1>3, <1>4, <1>5, <1>6 DEF OwnTypeOK, ControlOK

(* The executor sees the finalization end. *)
LEMMA AwaitFinalization_Own ==
  ASSUME OwnTypeOK, ControlOK, NEW r \in Runs, AwaitFinalization(r)
  PROVE  OwnTypeOK' /\ ControlOK'
<1> USE DEF OwnTypeOK
<1>1. DurableTypeOK' /\ OutcomeTypeOK' /\ EnvTypeOK'
  BY DEF DurableTypeOK, OutcomeTypeOK, EnvTypeOK, AwaitFinalization, rows, turnVars,
     cancelVars, endVars, envVars
<1>2. ExecutorTypeOK'
  BY RunAssumption DEF ExecutorTypeOK, AwaitFinalization, rows, turnVars, cancelVars,
     endVars, envVars, Goto, PCs
<1>3. Control(r)'
  BY RunAssumption DEF ExecutorTypeOK, OutcomeTypeOK, ControlOK, Control, Dead,
     AwaitFinalization, rows, turnVars, cancelVars, endVars, envVars, Goto, Decide,
     Fault, NoFault, JournalBestEffort
<1>4. \A s \in Runs : s # r => Control(s)'
  BY ControlStutter DEF ExecutorTypeOK, OutcomeTypeOK, ControlOK, AwaitFinalization,
     rows, turnVars, cancelVars, endVars, envVars, Goto, Decide, Fault, NoFault,
     JournalBestEffort, AppendFails
<1> QED
  BY <1>1, <1>2, <1>3, <1>4 DEF OwnTypeOK, ControlOK

(* The finally block. *)
LEMMA Finish_Own ==
  ASSUME OwnTypeOK, ControlOK, NEW r \in Runs, Finish(r)
  PROVE  OwnTypeOK' /\ ControlOK'
<1> USE DEF OwnTypeOK
<1>1. DurableTypeOK' /\ OutcomeTypeOK' /\ EnvTypeOK'
  BY DEF DurableTypeOK, OutcomeTypeOK, EnvTypeOK, Finish, rows, turnVars, cancelVars,
     endVars, envVars
<1>2. ExecutorTypeOK'
  BY RunAssumption DEF ExecutorTypeOK, Finish, rows, turnVars, cancelVars, endVars,
     envVars, Goto, PCs
<1>3. Control(r)'
  BY RunAssumption DEF ExecutorTypeOK, OutcomeTypeOK, ControlOK, Control, Dead, Finish, rows,
     turnVars, cancelVars, endVars, envVars, Goto, Decide, Fault, NoFault,
     JournalBestEffort
<1>4. \A s \in Runs : s # r => Control(s)'
  BY ControlStutter DEF ExecutorTypeOK, OutcomeTypeOK, ControlOK, Finish, rows,
     turnVars, cancelVars, endVars, envVars, Goto, Decide, Fault, NoFault,
     JournalBestEffort, AppendFails
<1> QED
  BY <1>1, <1>2, <1>3, <1>4 DEF OwnTypeOK, ControlOK

(* cancel() decides when nobody has, and answers when somebody has. *)
LEMMA Cancel_Own ==
  ASSUME OwnTypeOK, ControlOK, NEW r \in Runs, Cancel(r)
  PROVE  OwnTypeOK' /\ ControlOK'
<1> USE DEF OwnTypeOK
<1>1. DurableTypeOK'
  BY DEF DurableTypeOK, Cancel, rows, turnVars, cancelVars, endVars, envVars
<1>2. ExecutorTypeOK'
  BY RunAssumption DEF ExecutorTypeOK, Cancel, rows, turnVars, cancelVars, endVars,
     envVars
<1>3. OutcomeTypeOK'
  <2>1. CASE UNCHANGED endVars
    BY <2>1 DEF OutcomeTypeOK, endVars
  <2>2. CASE Decide(r, "cancel", "CANCELLED")
    BY <2>2, DecideEffect DEF Codes
  <2> QED
    BY <2>1, <2>2 DEF Cancel
<1>4. EnvTypeOK'
  BY FaultCounted DEF EnvTypeOK, Cancel, rows, turnVars, cancelVars, endVars, envVars,
     Decide
<1>5. Control(r)'
  <2>1. /\ UNCHANGED <<pc, iteration, up>>
        /\ pc[r] \notin {"idle", "gone", "listed", "refused", "created"}
    BY DEF Cancel, turnVars, ControlOK, Control, Dead
  <2>2. CASE checkpointed[r]
    BY <2>1, <2>2 DEF Cancel, endVars, ControlOK, Control, Dead
  <2>3. CASE ~checkpointed[r]
    <3>1. published[r] = <<>>
      BY <2>1, <2>3 DEF ControlOK, Control, Dead
    <3>2. /\ checkpointed'[r] /\ stage'[r] = "decided" /\ plan'[r].status # "none"
          /\ published' = published
      BY <2>3, DecideEffect DEF Cancel, Codes
    <3> QED
      BY <2>1, <3>1, <3>2 DEF ControlOK, Control, Dead
  <2> QED
    BY <2>2, <2>3
<1>6. \A s \in Runs : s # r => Control(s)'
  BY ControlStutter DEF ExecutorTypeOK, OutcomeTypeOK, ControlOK, Cancel, rows,
     turnVars, cancelVars, endVars, envVars, Goto, Decide, Fault, NoFault,
     JournalBestEffort, AppendFails
<1> QED
  BY <1>1, <1>2, <1>3, <1>4, <1>5, <1>6 DEF OwnTypeOK, ControlOK

(* cancel() answers after the finalization. *)
LEMMA CancelReturns_Own ==
  ASSUME OwnTypeOK, ControlOK, NEW r \in Runs, CancelReturns(r)
  PROVE  OwnTypeOK' /\ ControlOK'
<1> USE DEF OwnTypeOK
<1>1. DurableTypeOK' /\ OutcomeTypeOK' /\ EnvTypeOK'
  BY DEF DurableTypeOK, OutcomeTypeOK, EnvTypeOK, CancelReturns, rows, turnVars,
     cancelVars, endVars, envVars
<1>2. ExecutorTypeOK'
  BY RunAssumption DEF ExecutorTypeOK, CancelReturns, rows, turnVars, cancelVars,
     endVars, envVars
<1>3. Control(r)'
  BY RunAssumption DEF ExecutorTypeOK, OutcomeTypeOK, ControlOK, Control, Dead, CancelReturns,
     rows, turnVars, cancelVars, endVars, envVars, Goto, Decide, Fault, NoFault,
     JournalBestEffort
<1>4. \A s \in Runs : s # r => Control(s)'
  BY ControlStutter DEF ExecutorTypeOK, OutcomeTypeOK, ControlOK, CancelReturns, rows,
     turnVars, cancelVars, endVars, envVars, Goto, Decide, Fault, NoFault,
     JournalBestEffort, AppendFails
<1> QED
  BY <1>1, <1>2, <1>3, <1>4 DEF OwnTypeOK, ControlOK

(* The finalization completes its plan. *)
LEMMA StartFinalize_Own ==
  ASSUME OwnTypeOK, ControlOK, NEW r \in Runs, StartFinalize(r)
  PROVE  OwnTypeOK' /\ ControlOK'
<1> USE DEF OwnTypeOK
<1>1. DurableTypeOK' /\ ExecutorTypeOK'
  BY DEF DurableTypeOK, ExecutorTypeOK, StartFinalize, rows, turnVars, cancelVars,
     endVars, envVars
<1>2. OutcomeTypeOK'
  <2>1. [plan[r] EXCEPT !.withAttempt = attemptSet[r]] \in Plans
    BY DEF OutcomeTypeOK, ExecutorTypeOK, Plans
  <2>2. plan' \in [Runs -> Plans]
    BY <2>1 DEF StartFinalize, OutcomeTypeOK
  <2> QED
    BY <2>2 DEF StartFinalize, JournalBestEffort, OutcomeTypeOK, Stages
<1>3. EnvTypeOK'
  BY FaultCounted DEF EnvTypeOK, StartFinalize, rows, turnVars, cancelVars, endVars,
     envVars, JournalBestEffort
<1>4. Control(r)'
  BY RunAssumption DEF ExecutorTypeOK, OutcomeTypeOK, ControlOK, Control, Dead, StartFinalize,
     rows, turnVars, cancelVars, endVars, envVars, Goto, Decide, Fault, NoFault,
     JournalBestEffort
<1>5. \A s \in Runs : s # r => Control(s)'
  BY ControlStutter DEF ExecutorTypeOK, OutcomeTypeOK, ControlOK, StartFinalize, rows,
     turnVars, cancelVars, endVars, envVars, Goto, Decide, Fault, NoFault,
     JournalBestEffort, AppendFails
<1> QED
  BY <1>1, <1>2, <1>3, <1>4, <1>5 DEF OwnTypeOK, ControlOK

(* A commit succeeds, or the next attempt at it is planned; the plan keeps *)
(* a terminal status.                                                      *)
LEMMA Commit_Own ==
  ASSUME OwnTypeOK, ControlOK, NEW r \in Runs, Commit(r)
  PROVE  OwnTypeOK' /\ ControlOK'
<1> USE DEF OwnTypeOK
<1>1. ExecutorTypeOK'
  BY DEF ExecutorTypeOK, Commit, rows, turnVars, cancelVars, endVars, envVars
<1>2. DurableTypeOK'
  <2>1. CASE UNCHANGED <<row, attempt>>
    BY <2>1 DEF Commit, DurableTypeOK
  <2>2. CASE /\ CommitResult(r, plan[r]) = "committed"
             /\ CommitOutcome(r, plan[r])
    <3> DEFINE new == Row(plan[r].status, plan[r].code)
    <3>1. new \in [status : RunStatus \cup {"absent"}, code : Codes]
      <4>1. plan[r].status \in TerminalStatus /\ plan[r].code \in Codes
        BY DEF OutcomeTypeOK, Plans, Commit, ControlOK, Control, Dead
      <4> QED
        BY <4>1, RowType DEF RunStatus
    <3>2. /\ row' = [row EXCEPT ![r] = new]
          /\ attempt' = attempt \/ attempt' = [attempt EXCEPT ![r] = new]
      BY <2>2 DEF CommitOutcome
    <3> HIDE DEF new
    <3> QED
      BY <3>1, <3>2 DEF Commit, DurableTypeOK
  <2> QED
    BY <2>1, <2>2 DEF Commit, CommitOutcome
<1>3. OutcomeTypeOK'
  <2>1. plan' \in [Runs -> Plans]
    <3>1. FailSafe(plan[r]) \in Plans
      BY DEF FailSafe, OutcomeTypeOK, Plans, TerminalStatus, Codes
    <3>2. plan' = plan \/ plan' = [plan EXCEPT ![r] = FailSafe(plan[r])]
      BY DEF Commit
    <3> QED
      BY <3>1, <3>2 DEF OutcomeTypeOK
  <2>2. stage' \in [Runs -> Stages]
    <3>1. stage[r] \in {"commit1", "commit2", "commit3"} => NextTry(stage[r]) \in Stages
      BY DEF NextTry, Stages
    <3> QED
      BY <3>1 DEF Commit, OutcomeTypeOK, Stages
  <2> QED
    BY <2>1, <2>2 DEF Commit, OutcomeTypeOK
<1>4. EnvTypeOK'
  BY FaultCounted DEF EnvTypeOK, Commit, rows, turnVars, cancelVars, endVars, envVars,
     CommitOutcome
<1>5. Control(r)'
  <2>1. /\ UNCHANGED <<pc, entry, iteration, checkpointed, published, up>>
        /\ stage[r] \in {"commit1", "commit2", "commit3"}
    BY DEF Commit, turnVars, cancelVars
  <2>2. stage'[r] \in {"committed", "commit2", "commit3", "failed"}
    BY <2>1 DEF Commit, NextTry, OutcomeTypeOK
  <2>3. plan'[r].status # "none"
    <3>1. plan'[r] = plan[r] \/ plan'[r] = FailSafe(plan[r])
      BY DEF Commit, OutcomeTypeOK
    <3>2. plan[r].status # "none" /\ FailSafe(plan[r]).status = "failed"
      BY <2>1 DEF ControlOK, Control, FailSafe, OutcomeTypeOK, Plans
    <3> QED
      BY <3>1, <3>2
  <2> QED
    BY <2>1, <2>2, <2>3 DEF ControlOK, Control, Dead
<1>6. \A s \in Runs : s # r => Control(s)'
  BY ControlStutter DEF ExecutorTypeOK, OutcomeTypeOK, ControlOK, Commit, rows,
     turnVars, cancelVars, endVars, envVars, Goto, Decide, Fault, NoFault,
     JournalBestEffort, AppendFails
<1> QED
  BY <1>1, <1>2, <1>3, <1>4, <1>5, <1>6 DEF OwnTypeOK, ControlOK

(* The terminal entries are journalled if they can be. *)
LEMMA JournalOutcome_Own ==
  ASSUME OwnTypeOK, ControlOK, NEW r \in Runs, JournalOutcome(r)
  PROVE  OwnTypeOK' /\ ControlOK'
<1> USE DEF OwnTypeOK
<1>1. DurableTypeOK' /\ ExecutorTypeOK'
  BY DEF DurableTypeOK, ExecutorTypeOK, JournalOutcome, rows, turnVars, cancelVars,
     endVars, envVars
<1>2. OutcomeTypeOK'
  BY RunAssumption DEF OutcomeTypeOK, JournalOutcome, rows, turnVars, cancelVars,
     endVars, envVars, JournalBestEffort, Fault, NoFault, Stages
<1>3. EnvTypeOK'
  BY FaultCounted DEF EnvTypeOK, JournalOutcome, rows, turnVars, cancelVars, endVars,
     envVars, JournalBestEffort
<1>4. Control(r)'
  BY RunAssumption DEF ExecutorTypeOK, OutcomeTypeOK, ControlOK, Control, Dead,
     JournalOutcome, rows, turnVars, cancelVars, endVars, envVars, Goto, Decide, Fault,
     NoFault, JournalBestEffort
<1>5. \A s \in Runs : s # r => Control(s)'
  BY ControlStutter DEF ExecutorTypeOK, OutcomeTypeOK, ControlOK, JournalOutcome, rows,
     turnVars, cancelVars, endVars, envVars, Goto, Decide, Fault, NoFault,
     JournalBestEffort, AppendFails
<1> QED
  BY <1>1, <1>2, <1>3, <1>4, <1>5 DEF OwnTypeOK, ControlOK

(* The terminal event: it is the first, because only one finalization was  *)
(* started.                                                                *)
LEMMA PublishOutcome_Own ==
  ASSUME OwnTypeOK, ControlOK, NEW r \in Runs, PublishOutcome(r)
  PROVE  OwnTypeOK' /\ ControlOK'
<1> USE DEF OwnTypeOK
<1>1. DurableTypeOK' /\ ExecutorTypeOK' /\ EnvTypeOK'
  BY DEF DurableTypeOK, ExecutorTypeOK, EnvTypeOK, PublishOutcome, rows, turnVars,
     cancelVars, endVars, envVars
<1>2. OutcomeTypeOK'
  <2>1. plan[r].status \in TerminalStatus
    BY DEF PublishOutcome, ControlOK, Control, Dead, OutcomeTypeOK, Plans
  <2>2. Append(published[r], plan[r].status) \in Seq(TerminalStatus)
    BY <2>1 DEF OutcomeTypeOK
  <2> QED
    BY <2>2 DEF PublishOutcome, OutcomeTypeOK, Stages
<1>3. Control(r)'
  BY RunAssumption DEF ExecutorTypeOK, OutcomeTypeOK, ControlOK, Control, Dead,
     PublishOutcome, rows, turnVars, cancelVars, endVars, envVars, Goto, Decide, Fault,
     NoFault, JournalBestEffort
<1>4. \A s \in Runs : s # r => Control(s)'
  BY ControlStutter DEF ExecutorTypeOK, OutcomeTypeOK, ControlOK, PublishOutcome, rows,
     turnVars, cancelVars, endVars, envVars, Goto, Decide, Fault, NoFault,
     JournalBestEffort, AppendFails
<1> QED
  BY <1>1, <1>2, <1>3, <1>4 DEF OwnTypeOK, ControlOK

(* The restart settles an open run. *)
LEMMA ReconcileRun_Own ==
  ASSUME OwnTypeOK, ControlOK, NEW r \in Runs, ReconcileRun(r)
  PROVE  OwnTypeOK' /\ ControlOK'
<1> USE DEF OwnTypeOK
<1>1. ExecutorTypeOK' /\ OutcomeTypeOK'
  BY DEF ExecutorTypeOK, OutcomeTypeOK, ReconcileRun, Goto, PCs, rows, turnVars, cancelVars,
     endVars, envVars
<1>2. DurableTypeOK'
  <2> DEFINE failed == Row("failed", "RUN_INTERRUPTED")
  <2>1. /\ row' = row \/ row' = [row EXCEPT ![r] = failed]
        /\ attempt' = attempt \/ attempt' = [attempt EXCEPT ![r] = failed]
        /\ transcript' = transcript
    BY DEF ReconcileRun
  <2>2. failed \in [status : RunStatus \cup {"absent"}, code : Codes]
    BY RowType DEF RunStatus, TerminalStatus, Codes
  <2> HIDE DEF failed
  <2> QED
    BY <2>1, <2>2 DEF DurableTypeOK
<1>3. EnvTypeOK'
  BY FaultCounted DEF EnvTypeOK, ReconcileRun, rows, turnVars, cancelVars, endVars,
     envVars
<1>4. Control(r)'
  BY RunAssumption DEF ExecutorTypeOK, OutcomeTypeOK, ControlOK, Control, Dead, ReconcileRun,
     rows, turnVars, cancelVars, endVars, envVars, Goto, Decide, Fault, NoFault,
     JournalBestEffort
<1>5. \A s \in Runs : s # r => Control(s)'
  BY ControlStutter DEF ExecutorTypeOK, OutcomeTypeOK, ControlOK, ReconcileRun, rows,
     turnVars, cancelVars, endVars, envVars, Goto, Decide, Fault, NoFault,
     JournalBestEffort, AppendFails
<1> QED
  BY <1>1, <1>2, <1>3, <1>4, <1>5 DEF OwnTypeOK, ControlOK

-----------------------------------------------------------------------------
(* A crash empties the lanes and the permits. *)
LEMMA Crash_Lane ==
  ASSUME LaneP!LaneInv, Crash
  PROVE  LaneP!LaneInv'
<1>1. LaneP!LaneReset
  BY DEF Crash, LaneP!LaneReset, LaneP!LaneInv, LaneP!LaneTypeOK, LaneP!WorkStates
<1> QED
  BY <1>1, ComponentAssumptions, LaneP!LaneReset_Inv

(* And the permits. *)
LEMMA Crash_Capacity ==
  ASSUME Crash
  PROVE  CapacityP!CapacityInv'
<1>1. CapacityP!CapacityReset
  BY DEF Crash, CapacityP!CapacityReset
<1> QED
  BY <1>1, ComponentAssumptions, CapacityP!CapacityReset_Inv

(* A crash forgets every decision; a run that had an event cannot get      *)
(* another, because its executor is gone.                                  *)
LEMMA Crash_Own ==
  ASSUME OwnTypeOK, ControlOK, Crash
  PROVE  OwnTypeOK' /\ ControlOK'
<1> USE DEF OwnTypeOK
<1>1. DurableTypeOK'
  BY DEF DurableTypeOK, Crash, rows
<1>2. ExecutorTypeOK'
  BY RunAssumption DEF ExecutorTypeOK, Crash, PCs
<1>3. OutcomeTypeOK'
  BY DEF OutcomeTypeOK, Crash, Stages, Plans, NoPlan, Codes
<1>4. EnvTypeOK'
  BY RunAssumption DEF EnvTypeOK, Crash
<1>5. ASSUME NEW r \in Runs PROVE Control(r)'
  <2>1. /\ pc'[r] \in {"idle", "refused", "gone"}
        /\ pc'[r] \in {"idle", "refused"} => pc[r] = pc'[r]
        /\ stage'[r] = "none" /\ ~checkpointed'[r] /\ ~entry'[r]
        /\ published' = published
    BY DEF Crash
  <2> QED
    BY <2>1 DEF ControlOK, Control, Dead
<1> QED
  BY <1>1, <1>2, <1>3, <1>4, <1>5 DEF ControlOK

(* A restart and the opening of the gateway change the process, and which  *)
(* of its dead runs are listed.                                            *)
LEMMA Process_Own ==
  ASSUME OwnTypeOK, ControlOK, Restart \/ StartAccepting
  PROVE  OwnTypeOK' /\ ControlOK'
<1> USE DEF OwnTypeOK
<1>1. DurableTypeOK' /\ OutcomeTypeOK'
  BY DEF DurableTypeOK, OutcomeTypeOK, Restart, StartAccepting, rows, endVars
<1>2. EnvTypeOK'
  BY FaultCounted DEF EnvTypeOK, Restart, StartAccepting
<1>3. pc' = pc \/ (Restart /\ pc' = [r \in Runs |-> IF Open(r) THEN "listed" ELSE pc[r]])
  BY DEF Restart, StartAccepting
<1>4. ExecutorTypeOK'
  BY <1>3 DEF ExecutorTypeOK, PCs, Restart, StartAccepting, turnVars, cancelVars
<1>5. ASSUME NEW r \in Runs PROVE Control(r)'
  <2>1. UNCHANGED <<turnVars, cancelVars, endVars>>
    BY DEF Restart, StartAccepting
  <2>2. up # "up"
    BY DEF Restart, StartAccepting
  <2>3. pc'[r] = pc[r] \/ pc'[r] = "listed"
    BY <1>3
  <2> QED
    BY <2>1, <2>2, <2>3 DEF ControlOK, Control, Dead, turnVars, cancelVars, endVars
<1> QED
  BY <1>1, <1>2, <1>4, <1>5 DEF ControlOK

-----------------------------------------------------------------------------
(* Every step but a crash is one of the lanes' steps or leaves them alone. *)
LEMMA Step_Lane ==
  ASSUME RunInv, Next
  PROVE  LaneP!LaneInv'
<1> USE DEF RunInv
<1>1. CASE Crash
  BY <1>1, Crash_Lane
<1>2. CASE Restart \/ StartAccepting
  BY <1>2, LaneStutter DEF Restart, StartAccepting
<1>3. ASSUME NEW r \in Runs,
             Admit(r) \/ EnqueueRun(r) \/ DrainLane(r) \/ Finish(r) \/ Cancel(r)
      PROVE  LaneP!LaneInv'
  <2>1. \/ UNCHANGED laneVars
        \/ Lane!Reserve(r) \/ Lane!RejectFull(r) \/ Lane!Enqueue(r) \/ Lane!Withdraw(r)
        \/ Lane!Return(r) \/ Lane!DrainNext(r) \/ Lane!DrainEnd(r)
    BY <1>3 DEF Admit, EnqueueRun, DrainLane, Finish, Cancel
  <2> QED
    BY <2>1, LaneStep, LaneStutter
<1>4. ASSUME NEW r \in Runs,
             \/ PermitGranted(r) \/ MarkRunning(r) \/ AnnounceAttempt(r) \/ CreateAttempt(r)
             \/ JournalAccepted(r) \/ BeginTurn(r) \/ CallReturns(r) \/ CallTimesOut(r)
             \/ AppendText(r) \/ CompleteAttempt(r) \/ ToolsReturn(r) \/ EndCycle(r)
             \/ SignalCheckpoint(r) \/ AwaitFinalization(r) \/ CancelReturns(r)
             \/ Conclude(r) \/ ReconcileRun(r)
      PROVE  LaneP!LaneInv'
  <2>1. UNCHANGED laneVars
    BY <1>4 DEF PermitGranted, MarkRunning, AnnounceAttempt, CreateAttempt,
       JournalAccepted,
       BeginTurn, CallReturns, CallTimesOut, AppendText, CompleteAttempt, ToolsReturn,
       EndCycle, SignalCheckpoint, AwaitFinalization, CancelReturns, Conclude, StartFinalize,
       Commit, JournalOutcome, PublishOutcome, ReconcileRun
  <2> QED
    BY <2>1, LaneStutter
<1> QED
  BY <1>1, <1>2, <1>3, <1>4 DEF Next, Progress, Execute, Recover

(* The same for the permits. *)
LEMMA Step_Capacity ==
  ASSUME RunInv, Next
  PROVE  CapacityP!CapacityInv'
<1> USE DEF RunInv
<1>1. CASE Crash
  BY <1>1, Crash_Capacity
<1>2. CASE Restart \/ StartAccepting
  BY <1>2, CapacityStutter DEF Restart, StartAccepting
<1>3. ASSUME NEW r \in Runs, EnqueueRun(r) \/ DrainLane(r) \/ PermitGranted(r) \/ Finish(r)
      PROVE  CapacityP!CapacityInv'
  <2>1. \/ UNCHANGED permitVars
        \/ \E s \in Runs : Capacity!Acquire(s) \/ Capacity!WakeUp(s) \/ Capacity!Release(s)
    BY <1>3 DEF EnqueueRun, DrainLane, PermitGranted, Finish
  <2> QED
    BY <2>1, CapacityStep, CapacityStutter
<1>4. ASSUME NEW r \in Runs,
             \/ Admit(r) \/ MarkRunning(r) \/ AnnounceAttempt(r) \/ CreateAttempt(r)
             \/ JournalAccepted(r) \/ BeginTurn(r) \/ CallReturns(r) \/ CallTimesOut(r)
             \/ AppendText(r) \/ CompleteAttempt(r) \/ ToolsReturn(r) \/ EndCycle(r)
             \/ SignalCheckpoint(r) \/ AwaitFinalization(r) \/ Cancel(r) \/ CancelReturns(r)
             \/ Conclude(r) \/ ReconcileRun(r)
      PROVE  CapacityP!CapacityInv'
  <2>1. UNCHANGED permitVars
    BY <1>4 DEF Admit, MarkRunning, AnnounceAttempt, CreateAttempt, JournalAccepted,
       BeginTurn, CallReturns, CallTimesOut, AppendText, CompleteAttempt, ToolsReturn,
       EndCycle, SignalCheckpoint, AwaitFinalization, Cancel, CancelReturns, Conclude,
       StartFinalize, Commit, JournalOutcome, PublishOutcome, ReconcileRun
  <2> QED
    BY <2>1, CapacityStutter
<1> QED
  BY <1>1, <1>2, <1>3, <1>4 DEF Next, Progress, Execute, Recover

(* Every step keeps the types and Control. *)
LEMMA Step_Own ==
  ASSUME RunInv, Next
  PROVE  OwnTypeOK' /\ ControlOK'
<1> USE DEF RunInv
<1>1. CASE Crash \/ Restart \/ StartAccepting
  BY <1>1, Crash_Own, Process_Own
<1>2. ASSUME NEW r \in Runs, Execute(r) \/ CallReturns(r) PROVE OwnTypeOK' /\ ControlOK'
  BY <1>2, EnqueueRun_Own, MarkRunning_Own, AnnounceAttempt_Own, CreateAttempt_Own,
     JournalAccepted_Own, BeginTurn_Own, CallReturns_Own, CallTimesOut_Own, AppendText_Own,
     CompleteAttempt_Own, ToolsReturn_Own, EndCycle_Own, SignalCheckpoint_Own,
     AwaitFinalization_Own, Finish_Own DEF Execute
<1>3. ASSUME NEW r \in Runs, Conclude(r) PROVE OwnTypeOK' /\ ControlOK'
  BY <1>3, StartFinalize_Own, Commit_Own, JournalOutcome_Own, PublishOutcome_Own DEF
     Conclude
<1>4. ASSUME NEW r \in Runs, \/ Admit(r) \/ DrainLane(r) \/ PermitGranted(r) \/ Cancel(r)
                             \/ CancelReturns(r) \/ ReconcileRun(r)
      PROVE  OwnTypeOK' /\ ControlOK'
  BY <1>4, Admit_Own, DrainLane_Own, PermitGranted_Own, Cancel_Own, CancelReturns_Own,
     ReconcileRun_Own
<1> QED
  BY <1>1, <1>2, <1>3, <1>4 DEF Next, Progress, Recover

(* The invariant is inductive. *)
LEMMA Next_Inv == RunInv /\ [Next]_vars => RunInv'
<1> SUFFICES ASSUME RunInv, [Next]_vars PROVE RunInv'
  OBVIOUS
<1>1. CASE Next
  BY <1>1, Step_Lane, Step_Capacity, Step_Own DEF RunInv
<1>2. CASE UNCHANGED vars
  <2>1. LaneP!LaneInv' /\ CapacityP!CapacityInv'
    BY <1>2, LaneStutter, CapacityStutter DEF RunInv, vars
  <2>2. OwnTypeOK'
    BY <1>2 DEF RunInv, OwnTypeOK, DurableTypeOK, ExecutorTypeOK, OutcomeTypeOK,
       EnvTypeOK,
       vars, rows, turnVars, cancelVars, endVars, envVars
  <2>3. ControlOK'
    BY <1>2, ControlStutter DEF RunInv, ControlOK, vars, turnVars, cancelVars, endVars, envVars
  <2> QED
    BY <2>1, <2>2, <2>3 DEF RunInv
<1> QED
  BY <1>1, <1>2

(* And hence holds throughout. *)
LEMMA RunInvariant == Spec => []RunInv
BY Init_Inv, Next_Inv, PTL DEF Spec

(* Every variable keeps its type: in particular no executor counts past    *)
(* the last tool iteration.                                                *)
THEOREM TypesAreKept == Spec => []TypeOK
<1>1. RunInv => TypeOK
  BY DEF RunInv, TypeOK, LaneP!LaneInv, LaneP!LaneTypeOK, Lane!LaneTypeOK,
     LaneP!WorkStates,
     Lane!WorkStates, CapacityP!CapacityInv, CapacityP!CapacityTypeOK, Capacity!CapacityTypeOK,
     CapacityP!PermitStates, Capacity!PermitStates
<1> QED
  BY <1>1, RunInvariant, PTL

(* At most one terminal event leaves for a run, whoever signals, however   *)
(* often commits fail and whenever the process dies.                       *)
THEOREM OneEventPerRun == Spec => []OneTerminalEvent
<1>1. RunInv => OneTerminalEvent
  BY DEF RunInv, ControlOK, Control, Dead, OneTerminalEvent
<1> QED
  BY <1>1, RunInvariant, PTL

(* No executor ends without the outcome of its run having been decided. *)
THEOREM NoSilentExit == Spec => []ExitIsCheckpointed
<1>1. RunInv => ExitIsCheckpointed
  BY DEF RunInv, ControlOK, Control, Dead, ExitIsCheckpointed
<1> QED
  BY <1>1, RunInvariant, PTL

(* The lanes serialize and bound the runs of a session also inside the     *)
(* runtime, with its failures, cancellations and crashes.                  *)
THEOREM RuntimeLanesAreSerial == Spec => [](LaneP!OneDrainPerLane /\ LaneP!LaneBounded)
<1>1. RunInv => LaneP!OneDrainPerLane /\ LaneP!LaneBounded
  BY DEF RunInv, LaneP!LaneInv
<1> QED
  BY <1>1, RunInvariant, PTL
=============================================================================
