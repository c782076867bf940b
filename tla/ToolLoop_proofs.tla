--------------------------- MODULE ToolLoop_proofs ---------------------------
(* Proofs about ToolLoop: the type invariant, the decisions on approvals,  *)
(* what outcomes say about effects, and what the model is told of them.    *)
EXTENDS ToolLoop, SequenceTheorems, TLAPS

(* A request that is pending is undecided, and its clients have been told  *)
(* exactly what they decided.                                              *)
AnswersAreTold ==
  \A c \in Calls :
    /\ c \in pending => answer[c] = "none"
    /\ answer[c] = "none" => told[c] = {}
    /\ answer[c] \in {"allowed", "denied"} => told[c] = {answer[c]}

ApprovalInv == Approvals!ApprovalTypeOK /\ AnswersAreTold

(* Every step leaves the approvals alone or is one operation of theirs.    *)
ApprovalStep ==
  \/ \E c \in Calls : \/ \E b \in BOOLEAN : Approvals!Ask(c, b)
                      \/ \E d \in {"allowed", "denied"} : Approvals!Resolve(c, d)
                      \/ Approvals!Expire(c)
  \/ Approvals!CancelPending(Calls)
  \/ UNCHANGED <<pending, answer, told>>

LEMMA ApprovalInitially == ToolInit => ApprovalInv /\ Approvals!Decision!Init
  BY DEF ToolInit, ApprovalInv, AnswersAreTold, Approvals!ApprovalInit, Approvals!ApprovalTypeOK,
         Approvals!Decision!Init, Approvals!Statuses, Approvals!Answers

LEMMA AskDecides ==
  ASSUME ApprovalInv, NEW c \in Calls, NEW b \in BOOLEAN, Approvals!Ask(c, b)
  PROVE  ApprovalInv' /\ [Approvals!Decision!Next]_<<answer, told>>
<1> USE DEF ApprovalInv, AnswersAreTold, Approvals!ApprovalTypeOK, Approvals!Statuses,
            Approvals!Answers, Approvals!Ask, Approvals!Resolved
<1>1. ApprovalInv'
  <2>1. CASE b
    BY <2>1
  <2>2. CASE ~b
    BY <2>2
  <2> QED BY <2>1, <2>2
<1>2. [Approvals!Decision!Next]_<<answer, told>>
  <2>1. CASE b
    <3>1. Approvals!Decision!Lapse({c}, "cancelled")
      BY <2>1 DEF Approvals!Decision!Lapse
    <3> QED BY <3>1 DEF Approvals!Decision!Next, Approvals!Decision!Decisions, Approvals!Decision!Answers
  <2>2. CASE ~b
    BY <2>2
  <2> QED BY <2>1, <2>2
<1> QED BY <1>1, <1>2

LEMMA ResolveDecides ==
  ASSUME ApprovalInv, NEW c \in Calls, NEW d \in {"allowed", "denied"}, Approvals!Resolve(c, d)
  PROVE  ApprovalInv' /\ [Approvals!Decision!Next]_<<answer, told>>
<1> USE DEF ApprovalInv, AnswersAreTold, Approvals!ApprovalTypeOK, Approvals!Statuses,
            Approvals!Answers, Approvals!Resolve, Approvals!Resolved, Approvals!Finish
<1>0. /\ pending' = pending \ {c} /\ c \in pending
      /\ answer' = [answer EXCEPT ![c] = d]
      /\ told' = [told EXCEPT ![c] = {d}]
  <2>1. told[c] = {} /\ answer[c] = "none" /\ {c} \cap pending = {c}
    OBVIOUS
  <2> QED BY <2>1
<1>1. ApprovalInv'
  BY <1>0
<1>2. Approvals!Decision!Answer(c, d)
  BY <1>0 DEF Approvals!Decision!Answer
<1>3. Approvals!Decision!Next
  BY <1>2 DEF Approvals!Decision!Next, Approvals!Decision!Answers
<1> QED BY <1>1, <1>3

LEMMA FinishLapses ==
  ASSUME ApprovalInv, NEW S \in SUBSET Calls, NEW d \in {"expired", "cancelled"},
         Approvals!Finish(S, d), UNCHANGED told
  PROVE  ApprovalInv' /\ [Approvals!Decision!Next]_<<answer, told>>
<1> DEFINE T == S \cap pending
<1> USE DEF ApprovalInv, AnswersAreTold, Approvals!ApprovalTypeOK, Approvals!Statuses,
            Approvals!Answers, Approvals!Finish
<1>1. ApprovalInv'
  OBVIOUS
<1>2. Approvals!Decision!Lapse(T, d)
  BY DEF Approvals!Decision!Lapse
<1>3. Approvals!Decision!Next
  BY <1>2 DEF Approvals!Decision!Next, Approvals!Decision!Answers, Approvals!Decision!Decisions
<1> QED BY <1>1, <1>3

(* Whatever happens to the approvals keeps the invariant and is a step, or *)
(* a stutter, of the one-shot decision.                                    *)
LEMMA ApprovalStepDecides ==
  ASSUME ApprovalInv, ApprovalStep
  PROVE  ApprovalInv' /\ [Approvals!Decision!Next]_<<answer, told>>
<1>1. CASE \E c \in Calls, b \in BOOLEAN : Approvals!Ask(c, b)
  BY <1>1, AskDecides
<1>2. CASE \E c \in Calls, d \in {"allowed", "denied"} : Approvals!Resolve(c, d)
  BY <1>2, ResolveDecides
<1>3. CASE \E c \in Calls : Approvals!Expire(c)
  BY <1>3, FinishLapses DEF Approvals!Expire
<1>4. CASE Approvals!CancelPending(Calls)
  BY <1>4, FinishLapses DEF Approvals!CancelPending
<1>5. CASE UNCHANGED <<pending, answer, told>>
  BY <1>5 DEF ApprovalInv, AnswersAreTold, Approvals!ApprovalTypeOK
<1> QED BY <1>1, <1>2, <1>3, <1>4, <1>5 DEF ApprovalStep

(* Every step of the loop is one of a batch, and does one thing to the     *)
(* approvals.                                                              *)
LEMMA NextIsToolStep == Next => ToolNext
  BY DEF Next, ToolNext, RecordCycle, Conclusion

LEMMA ToolStepIsApprovalStep ==
  ASSUME ToolTypeOK, [ToolNext]_toolVars
  PROVE  ApprovalStep
<1> USE DEF ApprovalStep
<1>1. CASE Ask \/ CycleThrows \/ EndCycle \/ EndRun
  BY <1>1 DEF Ask, StartBatch, BudgetExhausted, CycleThrows, EndCycle, EndRun
<1>2. CASE Admission
  <2>1. CASE PolicyRequiresApproval
    BY <2>1 DEF PolicyRequiresApproval, ToolTypeOK
  <2> QED BY <1>2, <2>1 DEF Admission, PolicyRejects, PolicyAllows, ApprovalRefused, ApprovalGiven, Recheck
<1>3. CASE Client \/ ApprovalTimer \/ Dispose \/ Abort
  BY <1>3 DEF Client, ApprovalTimer, Dispose, Abort
<1>4. CASE \E c \in Calls : Execution(c) \/ TimeOut(c)
  BY <1>4 DEF Execution, Skip, Invoke, Settle, TimeOut
<1>5. CASE \E c \in Calls : Implementation(c)
  BY <1>5 DEF Implementation, ToolStarts, ToolNeverStarts, ToolReads, ToolInspected, ToolInspectFails,
     ToolWrites, ToolCheckFails, EffectLands, ToolWrote, ToolEnds, ToolMoves, runtimeVars
<1>6. CASE UNCHANGED toolVars
  BY <1>6 DEF toolVars
<1> QED BY <1>1, <1>2, <1>3, <1>4, <1>5, <1>6 DEF ToolNext

-----------------------------------------------------------------------------
(* What is known of one call at any time.                                  *)
CallInv(c) ==
  /\ resolution[c] = "none" => /\ tool[c] = "idle" /\ phase[c] = "prepared"
                               /\ c \notin written
  /\ resolution[c] # "none" => tool[c] # "idle" /\ admission[c] = "admitted"
  /\ resolution[c] \in {"result", "error"} => tool[c] = "ended"
  /\ tool[c] = "called" => c \notin written
  /\ tool[c] = "inspecting" => kind[c] = "write"
  /\ (tool[c] \in {"checking", "writing"} \/ c \in written) =>
       phase[c] = "side-effect-possible" /\ kind[c] \in Effects
  /\ outcome[c] # "none" => resolution[c] # "open"
  /\ outcome[c] = "completed" => resolution[c] = "result"
  /\ outcome[c] \in NoEffect => phase[c] # "side-effect-possible"
  /\ admission[c] = "admitted" /\ kind[c] \in Effects => answer[c] = "allowed"
  /\ c > last => resolution[c] = "none" /\ outcome[c] = "none" /\ admission[c] = "none"

Certain(c) == outcome[c] \notin {"none", "uncertain"}

(* What is known of the batch: before it is executed, while it is executed *)
(* in sequence, and when it has ended.                                     *)
BatchInv ==
  /\ \A c \in Calls : c < first => Certain(c)
  /\ at = "model" => \A c \in Batch : Certain(c)
  /\ at = "cycle" => \A c \in Batch : outcome[c] # "none"
  /\ at \in {"policy", "approval", "recheck"} =>
       /\ cur \in Batch
       /\ \A c \in Batch : resolution[c] = "none" /\ outcome[c] = "none"
  /\ at = "recheck" => answer[cur] = "allowed"
  /\ at = "run" /\ ~Parallel =>
       /\ cur \in Batch /\ outcome[cur] = "none"
       /\ \A c \in Batch :
            /\ c < cur => /\ outcome[c] # "none"
                          /\ kind[c] \in Effects /\ ~aborted => outcome[c] = "completed"
            /\ c > cur => outcome[c] = "none" /\ resolution[c] = "none"
  /\ \A c, d \in Batch : c < d /\ kind[c] \in Effects /\ resolution[d] # "none" =>
       outcome[c] = "completed"

Inv == ToolTypeOK /\ AnswersAreTold /\ (\A c \in Calls : CallInv(c)) /\ BatchInv

LEMMA InvImpliesProperties ==
  ASSUME Inv
  PROVE  EffectIsReported /\ EffectIsApproved /\ EffectsAreSerial
<1> USE DEF Inv
<1>1. EffectIsReported
  BY DEF CallInv, EffectIsReported
<1>2. EffectIsApproved
  BY DEF CallInv, EffectIsApproved, AnswersAreTold
<1>3. EffectsAreSerial
  <2> SUFFICES ASSUME NEW c \in Calls, NEW d \in Calls, c < d, kind[c] \in Effects, tool[d] # "idle"
               PROVE  tool[c] # "writing" /\ (c \in Batch => outcome[c] = "completed")
    BY DEF EffectsAreSerial
  <2>1. resolution[d] # "none" /\ d <= last /\ c <= last
    BY ToolAssumption DEF CallInv, ToolTypeOK, Calls
  <2>2. CASE c < first
    <3>1. outcome[c] \in NoEffect \cup {"completed"}
      BY <2>2 DEF BatchInv, Certain, ToolTypeOK, Outcomes
    <3> QED BY <3>1, <2>2 DEF CallInv, Batch, ToolTypeOK, Calls
  <2>3. CASE c >= first
    <3>1. c \in Batch /\ d \in Batch
      BY <2>3, <2>1 DEF Batch, ToolTypeOK, Calls
    <3>2. outcome[c] = "completed"
      BY <3>1, <2>1 DEF BatchInv
    <3> QED BY <3>2 DEF CallInv
  <2> QED BY <2>2, <2>3 DEF ToolTypeOK, Calls
<1> QED BY <1>1, <1>2, <1>3

-----------------------------------------------------------------------------
(* The invariant is inductive, one lemma per kind of step.                 *)

LEMMA BatchOfCalls ==
  ASSUME ToolTypeOK
  PROVE  Batch \subseteq Calls
<1>1. MaxPerRun \in Nat
  BY ToolAssumption
<1> QED BY <1>1 DEF Batch, ToolTypeOK, Calls

LEMMA InvInitially == Init => Inv
<1> SUFFICES ASSUME Init PROVE Inv
  OBVIOUS
<1> USE ToolAssumption DEF Init, ToolInit, Calls
<1>1. ApprovalInv
  BY ApprovalInitially
<1>2. ToolTypeOK
  <2>1. MaxPerRun \in Nat \ {0}
    OBVIOUS
  <2>2. first \in Calls /\ cur \in Calls /\ last \in 0 .. MaxPerRun
    BY <2>1
  <2> QED BY <1>1, <2>2 DEF ToolTypeOK, ApprovalInv, Points, Admissions, ToolPoints, Phases,
                            Resolutions, Outcomes
<1>3. ASSUME NEW c \in Calls PROVE CallInv(c)
  BY DEF CallInv, NoEffect
<1>4. BatchInv
  BY DEF BatchInv, Batch, Certain
<1> QED BY <1>1, <1>2, <1>3, <1>4 DEF Inv, ApprovalInv

(* The batch is planned.                                                   *)
LEMMA AdmitNextMoves ==
  ASSUME NEW adm, NEW lo \in Calls, NEW hi \in Calls, lo <= hi, AdmitNext(adm, lo, hi)
  PROVE  /\ at' \in {"run", "policy"} /\ cur' \in lo .. hi
         /\ at' = "run" => cur' = lo
BY DEF AdmitNext, Calls

(* A step that leaves the executions alone: the planning of a batch, its   *)
(* admission, and what happens to the approvals.                           *)
LEMMA AskKeepsInv ==
  ASSUME Inv, Ask
  PROVE  Inv'
<1> PICK ks \in Asks : StartBatch(ks) \/ BudgetExhausted(ks)
  BY DEF Ask
<1> USE DEF Inv
<1>1. CASE BudgetExhausted(ks)
  <2> USE <1>1 DEF BudgetExhausted
  <2>1. ToolTypeOK' /\ AnswersAreTold'
    BY DEF ToolTypeOK, AnswersAreTold, Points, batchVars, execVars, Approvals!ApprovalTypeOK
  <2>2. ASSUME NEW c \in Calls PROVE CallInv(c)'
    BY DEF CallInv, batchVars, execVars
  <2>3. BatchInv'
    BY DEF BatchInv, Batch, Certain, Parallel, batchVars, execVars
  <2> QED BY <2>1, <2>2, <2>3
<1>2. CASE StartBatch(ks)
  <2> DEFINE new == last + 1 .. last + Len(ks)
  <2>0. /\ at = "model" /\ ks \in Seq(Kinds) /\ Len(ks) \in Nat \ {0}
        /\ last + Len(ks) <= MaxPerRun
        /\ first' = last + 1 /\ last' = last + Len(ks)
        /\ kind' = [c \in Calls |-> IF c \in new THEN ks[c - last] ELSE kind[c]]
        /\ admission' = [c \in Calls |-> IF c \in new THEN Planned(kind'[c]) ELSE admission[c]]
        /\ UNCHANGED <<aborted, tool, phase, resolution, written, outcome, pending, answer, told>>
    BY <1>2, ToolAssumption DEF StartBatch, execVars, ToolTypeOK, Calls
  <2>1. first' \in Calls /\ last' \in Calls /\ first' <= last' /\ new \subseteq Calls
    <3>1. MaxPerRun \in Nat /\ last \in Nat
      BY ToolAssumption DEF ToolTypeOK
    <3>2. PICK n \in Nat \ {0} : n = Len(ks)
      BY <2>0
    <3> QED BY <2>0, <3>1, <3>2 DEF Calls
  <2>2. /\ at' \in {"run", "policy"} /\ cur' \in new
        /\ at' = "run" => cur' = first'
    BY <1>2, <2>0, <2>1, AdmitNextMoves DEF StartBatch
  <2>3. \A k : Planned(k) \in {"unadmitted", "rejected", "none"}
    BY DEF Planned
  <2>4. ToolTypeOK'
    <3>1. kind' \in [Calls -> Kinds \cup {"none"}]
      BY <2>0, <2>1 DEF ToolTypeOK, Calls
    <3>2. admission' \in [Calls -> Admissions]
      BY <2>0, <2>3 DEF ToolTypeOK, Admissions
    <3> QED BY <2>0, <2>1, <2>2, <3>1, <3>2 DEF ToolTypeOK, Points, Approvals!ApprovalTypeOK, Calls
  <2>5. AnswersAreTold'
    BY <2>0 DEF AnswersAreTold
  <2>6. ASSUME NEW c \in Calls PROVE CallInv(c)'
    <3>1. CASE c \in new
      <4>1. c > last
        BY <3>1 DEF ToolTypeOK, Calls
      <4>2. resolution[c] = "none" /\ outcome[c] = "none" /\ tool[c] = "idle" /\ phase[c] = "prepared" /\ c \notin written
        BY <4>1 DEF CallInv
      <4>3. admission'[c] # "admitted"
        BY <2>0, <2>3, <3>1
      <4> QED BY <2>0, <3>1, <4>2, <4>3 DEF CallInv, NoEffect, Calls
    <3>2. CASE c \notin new
      <4>1. kind'[c] = kind[c] /\ admission'[c] = admission[c] /\ (c > last' => c > last)
        BY <2>0, <3>2 DEF ToolTypeOK, Calls
      <4> QED BY <2>0, <4>1 DEF CallInv
    <3> QED BY <3>1, <3>2
  <2>7. BatchInv'
    <3>1. Batch' = new
      BY <2>0 DEF Batch
    <3>2. \A c \in new : resolution[c] = "none" /\ outcome[c] = "none"
      BY <2>1 DEF CallInv, ToolTypeOK, Calls
    <3>3. \A c \in Calls : c < first' => Certain(c)'
      BY <2>0 DEF BatchInv, Batch, Certain, ToolTypeOK, Calls
    <3> HIDE DEF new
    <3>4. at' = "run" => cur' \in new /\ \A c \in new : ~(c < cur')
      BY <2>2, <2>0, <2>1, <3>1 DEF Batch, Calls
    <3> QED BY <2>0, <2>2, <3>1, <3>2, <3>3, <3>4 DEF BatchInv
  <2> QED BY <2>4, <2>5, <2>6, <2>7
<1> QED BY <1>1, <1>2

LEMMA AnswersStay ==
  ASSUME ApprovalInv, ApprovalStep, NEW c \in Calls, answer[c] # "none"
  PROVE  answer'[c] = answer[c]
<1> USE DEF ApprovalInv, AnswersAreTold, Approvals!ApprovalTypeOK
<1>1. CASE \E d \in Calls, b \in BOOLEAN : Approvals!Ask(d, b)
  BY <1>1 DEF Approvals!Ask, Approvals!Resolved
<1>2. CASE \E d \in Calls, a \in {"allowed", "denied"} : Approvals!Resolve(d, a)
  BY <1>2 DEF Approvals!Resolve, Approvals!Finish
<1>3. CASE \E d \in Calls : Approvals!Expire(d)
  BY <1>3 DEF Approvals!Expire, Approvals!Finish
<1>4. CASE Approvals!CancelPending(Calls)
  BY <1>4 DEF Approvals!CancelPending, Approvals!Finish
<1>5. CASE UNCHANGED <<pending, answer, told>>
  BY <1>5
<1> QED BY <1>1, <1>2, <1>3, <1>4, <1>5 DEF ApprovalStep

(* What happens to the approvals alone.                                    *)
LEMMA ApprovalStepKeepsInv ==
  ASSUME Inv, ApprovalStep, UNCHANGED <<at, batchVars, cur, admission, aborted, execVars>>
  PROVE  Inv'
<1> USE DEF Inv
<1>0. ApprovalInv /\ ApprovalInv'
  BY ApprovalStepDecides DEF ApprovalInv, ToolTypeOK
<1>1. ToolTypeOK' /\ AnswersAreTold'
  BY <1>0 DEF ToolTypeOK, ApprovalInv, batchVars, execVars
<1>2. ASSUME NEW c \in Calls PROVE CallInv(c)'
  <2>1. answer[c] # "none" => answer'[c] = answer[c]
    BY <1>0, AnswersStay
  <2> QED BY <2>1 DEF CallInv, batchVars, execVars
<1>3. BatchInv'
  <2>1. answer[cur] # "none" => answer'[cur] = answer[cur]
    BY <1>0, AnswersStay DEF ToolTypeOK
  <2> QED BY <2>1 DEF BatchInv, Batch, Certain, Parallel, batchVars, execVars
<1> QED BY <1>1, <1>2, <1>3

(* The call being admitted gets its status; only an allowed effect, or a   *)
(* read, gets to be admitted.                                              *)
LEMMA AdmittedKeepsInv ==
  ASSUME Inv, NEW status \in Admissions \ {"none"}, at \in {"policy", "approval", "recheck"},
         Admitted(status), UNCHANGED <<pending, answer, told>>,
         status = "admitted" /\ kind[cur] \in Effects => answer[cur] = "allowed"
  PROVE  Inv'
<1> USE DEF Inv
<1>1. /\ cur \in Batch /\ first <= last /\ first \in Calls /\ last \in Calls
      /\ admission' = [admission EXCEPT ![cur] = status]
      /\ UNCHANGED <<first, last, kind, aborted, tool, phase, resolution, written, outcome>>
  BY DEF BatchInv, Admitted, Batch, batchVars, execVars, ToolTypeOK, Calls
<1>2. at' \in {"run", "policy"} /\ cur' \in first .. last /\ (at' = "run" => cur' = first)
  BY <1>1, AdmitNextMoves DEF Admitted
<1>3. ToolTypeOK' /\ AnswersAreTold'
  <2>1. admission' \in [Calls -> Admissions]
    BY <1>1 DEF ToolTypeOK
  <2>2. cur' \in Calls /\ at' \in Points
    BY <1>1, <1>2, BatchOfCalls DEF Points, Batch
  <2> QED BY <1>1, <2>1, <2>2 DEF ToolTypeOK, AnswersAreTold, Approvals!ApprovalTypeOK
<1>4. ASSUME NEW c \in Calls PROVE CallInv(c)'
  <2>1. CASE c = cur
    BY <1>1, <2>1 DEF CallInv, BatchInv, Batch, ToolTypeOK, Calls
  <2>2. CASE c # cur
    BY <1>1, <2>2 DEF CallInv, ToolTypeOK
  <2> QED BY <2>1, <2>2
<1>5. BatchInv'
  <2>1. Batch' = Batch /\ \A c \in Batch : resolution[c] = "none" /\ outcome[c] = "none"
    BY <1>1 DEF Batch, BatchInv
  <2>2. at' = "run" => cur' \in Batch /\ \A c \in Batch : ~(c < cur')
    BY <1>1, <1>2 DEF Batch, Calls
  <2> QED BY <1>1, <1>2, <2>1, <2>2 DEF BatchInv, Certain, Batch
<1> QED BY <1>3, <1>4, <1>5

LEMMA AdmissionKeepsInv ==
  ASSUME Inv, Admission
  PROVE  Inv'
<1>1. CASE PolicyRejects
  BY <1>1, AdmittedKeepsInv DEF PolicyRejects, Admissions
<1>2. CASE PolicyAllows
  BY <1>2, AdmittedKeepsInv DEF PolicyAllows, Admissions
<1>3. CASE ApprovalRefused
  BY <1>3, AdmittedKeepsInv DEF ApprovalRefused, Admissions
<1>4. CASE Recheck
  <2>1. PICK verdict \in {"admitted", "rejected"} : Admitted(verdict)
    BY <1>4 DEF Recheck
  <2>2. at = "recheck" /\ answer[cur] = "allowed" /\ UNCHANGED <<pending, answer, told>>
    BY <1>4 DEF Recheck, Inv, BatchInv
  <2> QED BY <2>1, <2>2, AdmittedKeepsInv DEF Admissions
<1>5. CASE PolicyRequiresApproval
  <2> USE <1>5 DEF PolicyRequiresApproval, Inv
  <2>1. ApprovalStep /\ cur \in Calls
    BY DEF ToolTypeOK, ApprovalStep
  <2>2. ApprovalInv /\ ApprovalInv'
    BY <2>1, ApprovalStepDecides DEF ApprovalInv, ToolTypeOK
  <2>3. ToolTypeOK' /\ AnswersAreTold'
    BY <2>2 DEF ToolTypeOK, ApprovalInv, batchVars, execVars, Points
  <2>4. ASSUME NEW c \in Calls PROVE CallInv(c)'
    <3>1. answer[c] # "none" => answer'[c] = answer[c]
      BY <2>1, <2>2, AnswersStay
    <3> QED BY <3>1 DEF CallInv, batchVars, execVars
  <2>5. BatchInv'
    BY DEF BatchInv, Batch, Certain, Parallel, batchVars, execVars
  <2> QED BY <2>3, <2>4, <2>5
<1>6. CASE ApprovalGiven
  <2> USE <1>6 DEF ApprovalGiven, Inv
  <2>1. ToolTypeOK' /\ AnswersAreTold'
    BY DEF ToolTypeOK, AnswersAreTold, Approvals!ApprovalTypeOK, batchVars, execVars, Points
  <2>2. ASSUME NEW c \in Calls PROVE CallInv(c)'
    BY DEF CallInv, batchVars, execVars
  <2>3. BatchInv'
    BY DEF BatchInv, Batch, Certain, Parallel, batchVars, execVars
  <2> QED BY <2>1, <2>2, <2>3
<1> QED BY <1>1, <1>2, <1>3, <1>4, <1>5, <1>6 DEF Admission

(* A cycle, or the run, ends.                                              *)
LEMMA CycleKeepsInv ==
  ASSUME Inv, CycleThrows \/ EndCycle \/ EndRun
  PROVE  Inv'
<1> USE DEF Inv
<1>1. /\ at' \in {"model", "over"}
      /\ UNCHANGED <<batchVars, cur, admission, aborted, execVars, pending, answer, told>>
  BY DEF CycleThrows, EndCycle, EndRun, batchVars, execVars
<1>2. at' = "model" => \A c \in Batch : Certain(c)
  BY DEF CycleThrows, EndCycle, EndRun, CycleDecision, BatchInv, Certain
<1>3. ToolTypeOK' /\ AnswersAreTold'
  BY <1>1 DEF ToolTypeOK, AnswersAreTold, Approvals!ApprovalTypeOK, batchVars, execVars, Points
<1>4. ASSUME NEW c \in Calls PROVE CallInv(c)'
  BY <1>1 DEF CallInv, batchVars, execVars
<1>5. BatchInv'
  BY <1>1, <1>2 DEF BatchInv, Batch, Certain, batchVars, execVars
<1> QED BY <1>3, <1>4, <1>5

-----------------------------------------------------------------------------
(* The execution of a call.                                                *)

LEMMA InvokeKeepsInv ==
  ASSUME Inv, NEW c \in Calls, Invoke(c)
  PROVE  Inv'
<1> USE DEF Inv
<1>1. /\ at = "run" /\ c \in Batch /\ outcome[c] = "none" /\ resolution[c] = "none"
      /\ admission[c] = "admitted" /\ ~aborted /\ (~Parallel => c = cur)
      /\ resolution' = [resolution EXCEPT ![c] = "open"]
      /\ tool' = [tool EXCEPT ![c] = "called"]
      /\ UNCHANGED <<at, first, last, kind, cur, admission, aborted, phase, written, outcome,
                     pending, answer, told>>
  BY DEF Invoke, Turn, batchVars
<1>2. ToolTypeOK' /\ AnswersAreTold'
  BY <1>1 DEF ToolTypeOK, AnswersAreTold, Approvals!ApprovalTypeOK, ToolPoints, Resolutions
<1>3. ASSUME NEW d \in Calls PROVE CallInv(d)'
  <2>1. CASE d = c
    BY <1>1, <2>1 DEF CallInv, ToolTypeOK, Batch, NoEffect
  <2>2. CASE d # c
    BY <1>1, <2>2 DEF CallInv, ToolTypeOK
  <2> QED BY <2>1, <2>2
<1>4. BatchInv'
  <2>1. Batch' = Batch /\ Parallel' = Parallel
    BY <1>1 DEF Batch, Parallel
  <2>2. \A d \in Calls : d # c => resolution'[d] = resolution[d]
    BY <1>1 DEF ToolTypeOK
  <2>3. ASSUME NEW a \in Batch, NEW d \in Batch, a < d, kind[a] \in Effects, resolution'[d] # "none"
        PROVE  outcome[a] = "completed"
    <3>1. CASE d = c
      <4>1. ~Parallel
        BY <2>3 DEF Parallel
      <4> QED BY <1>1, <2>3, <3>1, <4>1 DEF BatchInv
    <3>2. CASE d # c
      <4>1. d \in Calls
        BY BatchOfCalls
      <4> QED BY <1>1, <2>2, <2>3, <3>2, <4>1 DEF BatchInv
    <3> QED BY <3>1, <3>2
  <2>4. ~Parallel => \A d \in Batch : d > cur => resolution'[d] = "none"
    <3>1. Batch \subseteq Calls
      BY BatchOfCalls
    <3> QED BY <1>1, <2>2, <3>1 DEF BatchInv, ToolTypeOK, Calls
  <2> QED BY <1>1, <2>1, <2>3, <2>4 DEF BatchInv, Certain
<1> QED BY <1>2, <1>3, <1>4

(* The signal of an invocation fires: no tool moves and no effect lands.   *)
LEMMA SignalKeepsInv ==
  ASSUME Inv, ApprovalStep,
         UNCHANGED <<at, batchVars, cur, admission, tool, phase, written, outcome>>,
         aborted' \in BOOLEAN, aborted => aborted', resolution' \in [Calls -> Resolutions],
         \A c \in Calls : \/ resolution'[c] = resolution[c]
                         \/ (resolution[c] = "open" /\ resolution'[c] \in {"cancelled", "timeout"})
  PROVE  Inv'
<1> USE DEF Inv
<1>0. ApprovalInv /\ ApprovalInv'
  BY ApprovalStepDecides DEF ApprovalInv, ToolTypeOK
<1>1. ToolTypeOK' /\ AnswersAreTold'
  BY <1>0 DEF ToolTypeOK, ApprovalInv, batchVars
<1>2. ASSUME NEW c \in Calls PROVE CallInv(c)'
  <2>1. answer[c] # "none" => answer'[c] = answer[c]
    BY <1>0, AnswersStay
  <2> QED BY <2>1 DEF CallInv, batchVars
<1>3. BatchInv'
  <2>1. answer[cur] # "none" => answer'[cur] = answer[cur]
    BY <1>0, AnswersStay DEF ToolTypeOK
  <2>2. \A c \in Calls : resolution'[c] = "none" <=> resolution[c] = "none"
    OBVIOUS
  <2>3. Batch' = Batch /\ Parallel' = Parallel /\ Batch \subseteq Calls
    BY BatchOfCalls DEF Batch, Parallel, batchVars
  <2> QED BY <2>1, <2>2, <2>3 DEF BatchInv, Certain, batchVars
<1> QED BY <1>1, <1>2, <1>3

LEMMA TimeOutKeepsInv ==
  ASSUME Inv, NEW c \in Calls, TimeOut(c)
  PROVE  Inv'
<1>1. ApprovalStep /\ aborted' \in BOOLEAN /\ aborted' = aborted
  BY DEF TimeOut, ApprovalStep, Inv, ToolTypeOK
<1>2. UNCHANGED <<at, batchVars, cur, admission, tool, phase, written, outcome>>
  BY DEF TimeOut
<1>3. resolution[c] = "open" /\ resolution' = [resolution EXCEPT ![c] = "timeout"]
  BY DEF TimeOut, ResolveOnce
<1>4. resolution \in [Calls -> Resolutions] /\ resolution' \in [Calls -> Resolutions]
  BY <1>3 DEF Inv, ToolTypeOK, Resolutions
<1>5. \A d \in Calls : \/ resolution'[d] = resolution[d]
                      \/ (resolution[d] = "open" /\ resolution'[d] \in {"cancelled", "timeout"})
  BY <1>3, <1>4
<1> QED BY <1>1, <1>2, <1>4, <1>5, SignalKeepsInv

LEMMA AbortKeepsInv ==
  ASSUME Inv, Abort
  PROVE  Inv'
<1>1. ApprovalStep /\ aborted' \in BOOLEAN /\ aborted'
  BY DEF Abort, ApprovalStep
<1>2. UNCHANGED <<at, batchVars, cur, admission, tool, phase, written, outcome>>
  BY DEF Abort
<1>3. resolution' \in [Calls -> Resolutions]
  BY DEF Abort, Inv, ToolTypeOK, Resolutions
<1>4. \A d \in Calls : \/ resolution'[d] = resolution[d]
                      \/ (resolution[d] = "open" /\ resolution'[d] \in {"cancelled", "timeout"})
  BY DEF Abort
<1> QED BY <1>1, <1>2, <1>3, <1>4, SignalKeepsInv

(* A call gets its outcome; when the batch ends with it, the later calls,  *)
(* which were never started, get theirs.                                   *)
LEMMA ReportKeepsInv ==
  ASSUME Inv, NEW c \in Batch, NEW state \in Outcomes \ {"none"}, NEW halts \in BOOLEAN,
         at = "run", outcome[c] = "none", resolution[c] # "open", ~Parallel => c = cur,
         state = "completed" => resolution[c] = "result",
         state \in NoEffect => phase[c] # "side-effect-possible",
         halts => ~Parallel,
         ~Parallel /\ ~aborted /\ kind[c] \in Effects /\ state # "completed" => halts,
         Report(c, state, halts),
         UNCHANGED <<batchVars, admission, aborted, tool, phase, resolution, written,
                     pending, answer, told>>
  PROVE  Inv'
<1> USE DEF Inv
<1> DEFINE later == {d \in Calls : halts /\ d \in c + 1 .. last}
<1>0. c \in Calls /\ Batch \subseteq Calls /\ Calls \subseteq Nat
  BY BatchOfCalls DEF Calls
<1>1. /\ outcome' = [d \in Calls |-> IF d = c THEN state
                                   ELSE IF d \in later THEN "not-started" ELSE outcome[d]]
      /\ cur' = IF Parallel \/ halts \/ c = last THEN cur ELSE c + 1
      /\ at' = IF \A d \in Batch : outcome'[d] # "none" THEN "cycle" ELSE at
      /\ UNCHANGED <<first, last, kind, admission, aborted, tool, phase, resolution, written,
                     pending, answer, told>>
  BY DEF Report, batchVars
<1>2. \A d \in later : /\ d \in Batch /\ d # c /\ ~Parallel /\ d > cur
                      /\ outcome[d] = "none" /\ resolution[d] = "none"
  <2> SUFFICES ASSUME NEW d \in later
               PROVE  /\ d \in Batch /\ d # c /\ ~Parallel /\ d > cur
                      /\ outcome[d] = "none" /\ resolution[d] = "none"
    OBVIOUS
  <2>1. ~Parallel /\ c = cur /\ d \in Nat /\ d > c /\ d \in Batch
    BY <1>0 DEF Batch, ToolTypeOK
  <2> QED BY <2>1, <1>0 DEF BatchInv
<1>3. \A d \in Calls : d # c /\ d \notin later => outcome'[d] = outcome[d]
  BY <1>1
<1> HIDE DEF later
<1>4. outcome'[c] = state /\ \A d \in later : outcome'[d] = "not-started"
  BY <1>0, <1>1, <1>2
<1>5. ToolTypeOK' /\ AnswersAreTold'
  <2>1. outcome' \in [Calls -> Outcomes]
    BY <1>1 DEF ToolTypeOK, Outcomes, NoEffect
  <2>2. cur' \in Calls
    <3>1. CASE Parallel \/ halts \/ c = last
      BY <1>1, <3>1 DEF ToolTypeOK
    <3>2. CASE ~(Parallel \/ halts \/ c = last)
      <4>1. cur' = c + 1 /\ c + 1 \in Batch
        BY <1>0, <1>1, <3>2 DEF Batch, ToolTypeOK
      <4> QED BY <1>0, <4>1
    <3> QED BY <3>1, <3>2
  <2>3. at' \in Points
    BY <1>1 DEF Points
  <2> QED BY <1>1, <2>1, <2>2, <2>3 DEF ToolTypeOK, AnswersAreTold, Approvals!ApprovalTypeOK
<1>6. ASSUME NEW d \in Calls PROVE CallInv(d)'
  <2>1. CASE d = c
    <3>1. d <= last
      BY <2>1 DEF Batch
    <3> QED BY <1>0, <1>1, <1>4, <2>1, <3>1 DEF CallInv, ToolTypeOK
  <2>2. CASE d \in later
    <3>1. phase[d] # "side-effect-possible" /\ d <= last
      BY <1>2, <2>2 DEF CallInv, Batch
    <3> QED BY <1>1, <1>2, <1>4, <2>2, <3>1 DEF CallInv, ToolTypeOK, Calls
  <2>3. CASE d # c /\ d \notin later
    BY <1>1, <1>3, <2>3 DEF CallInv
  <2> QED BY <2>1, <2>2, <2>3
<1>7. BatchInv'
  <2>0. Batch' = Batch /\ Parallel' = Parallel
    BY <1>1 DEF Batch, Parallel
  <2>1. \A d \in Calls : outcome[d] # "none" => outcome'[d] = outcome[d]
    BY <1>0, <1>2, <1>3
  <2>2. \A d \in Calls : d < first => Certain(d)'
    BY <1>1, <2>1 DEF BatchInv, Certain
  <2>3. at' \in {"run", "cycle"} /\ (at' = "cycle" => \A d \in Batch : outcome'[d] # "none")
    BY <1>1
  <2>4. ASSUME at' = "run", ~Parallel
        PROVE  /\ cur' \in Batch /\ outcome'[cur'] = "none"
               /\ \A d \in Batch :
                    /\ d < cur' => /\ outcome'[d] # "none"
                                   /\ kind[d] \in Effects /\ ~aborted => outcome'[d] = "completed"
                    /\ d > cur' => outcome'[d] = "none" /\ resolution[d] = "none"
    <3>1. c = cur /\ \A d \in Batch : d < c => outcome[d] # "none"
      BY <2>4 DEF BatchInv
    <3>2. PICK e \in Batch : outcome'[e] = "none"
      BY <2>4, <1>1
    <3>3. e # c /\ e \notin later /\ ~(e < c)
      BY <1>4, <2>1, <3>1, <3>2, <1>0
    <3>4. ~halts /\ c # last /\ e > c
      BY <3>3, <1>0, <2>4 DEF later, Batch, ToolTypeOK
    <3>5. cur' = c + 1 /\ c + 1 \in Batch /\ later = {}
      BY <1>0, <1>1, <2>4, <3>4 DEF Batch, ToolTypeOK, later
    <3>6. kind[c] \in Effects /\ ~aborted => state = "completed"
      BY <3>4, <2>4
    <3>7. \A d \in Batch : d # c => outcome'[d] = outcome[d]
      BY <1>0, <1>3, <3>5
    <3> HIDE DEF BatchInv
    <3>8. \A d \in Batch : d > c => outcome'[d] = "none" /\ resolution[d] = "none"
      BY <3>1, <3>7, <2>4, <1>0 DEF BatchInv
    <3>9. \A d \in Batch : d < c + 1 =>
            outcome'[d] # "none" /\ (kind[d] \in Effects /\ ~aborted => outcome'[d] = "completed")
      <4> SUFFICES ASSUME NEW d \in Batch, d < c + 1
                   PROVE  /\ outcome'[d] # "none"
                          /\ kind[d] \in Effects /\ ~aborted => outcome'[d] = "completed"
        OBVIOUS
      <4>1. CASE d = c
        BY <4>1, <1>4, <3>6
      <4>2. CASE d # c
        <5>1. d < cur
          BY <4>2, <1>0, <3>1
        <5> QED BY <5>1, <4>2, <3>7, <2>4 DEF BatchInv
      <4> QED BY <4>1, <4>2
    <3>10. \A d \in Batch : d > c + 1 => d > c
      BY <1>0
    <3>11. outcome'[c + 1] = "none"
      BY <3>8, <3>5, <1>0
    <3> QED BY <3>5, <3>8, <3>9, <3>10, <3>11
  <2>5. ASSUME NEW a \in Batch, NEW d \in Batch, a < d, kind[a] \in Effects, resolution[d] # "none"
        PROVE  outcome'[a] = "completed"
    BY <1>0, <2>1, <2>5 DEF BatchInv
  <2> QED BY <1>1, <2>0, <2>2, <2>3, <2>4, <2>5 DEF BatchInv
<1> QED BY <1>5, <1>6, <1>7

LEMMA ConcludeKeepsInv ==
  ASSUME Inv, NEW c \in Batch, NEW state \in Outcomes \ {"none"},
         at = "run", outcome[c] = "none", resolution[c] # "open", ~Parallel => c = cur,
         state = "completed" => resolution[c] = "result",
         state \in NoEffect => phase[c] # "side-effect-possible",
         Conclude(c, state),
         UNCHANGED <<batchVars, admission, aborted, tool, phase, resolution, written,
                     pending, answer, told>>
  PROVE  Inv'
<1> DEFINE halts == ~Parallel /\ kind[c] \in SideEffecting /\ state # "completed"
<1>1. halts \in BOOLEAN /\ (halts => ~Parallel)
  OBVIOUS
<1>2. ~Parallel /\ ~aborted /\ kind[c] \in Effects /\ state # "completed" => halts
  BY DEF SideEffecting
<1>3. Report(c, state, halts)
  BY DEF Conclude
<1> HIDE DEF halts
<1> QED BY <1>1, <1>2, <1>3, ReportKeepsInv

LEMMA SkipKeepsInv ==
  ASSUME Inv, NEW c \in Calls, Skip(c)
  PROVE  Inv'
<1>1. /\ at = "run" /\ c \in Batch /\ outcome[c] = "none" /\ resolution[c] = "none"
      /\ ~Parallel => c = cur
      /\ UNCHANGED <<batchVars, admission, aborted, tool, phase, resolution, written,
                     pending, answer, told>>
  BY DEF Skip, Turn
<1>2. phase[c] # "side-effect-possible" /\ resolution[c] # "open"
  BY <1>1 DEF Inv, CallInv
<1>3. CASE aborted /\ Report(c, "cancelled", FALSE)
  <2>1. "cancelled" \in Outcomes \ {"none"}
    BY DEF Outcomes, NoEffect
  <2> QED BY <1>1, <1>2, <1>3, <2>1, ReportKeepsInv
<1>4. CASE \E state \in {"cancelled", "failed-before"} : Conclude(c, state)
  <2>1. {"cancelled", "failed-before"} \subseteq Outcomes \ {"none", "completed"}
    BY DEF Outcomes, NoEffect
  <2> QED BY <1>1, <1>2, <1>4, <2>1, ConcludeKeepsInv
<1> QED BY <1>3, <1>4 DEF Skip

LEMMA SettleKeepsInv ==
  ASSUME Inv, NEW c \in Calls, Settle(c)
  PROVE  Inv'
<1>1. PICK valid \in BOOLEAN : Conclude(c, TerminalState(c, valid))
  BY DEF Settle
<1>2. /\ at = "run" /\ c \in Batch /\ outcome[c] = "none"
      /\ resolution[c] # "open" /\ resolution[c] # "none"
      /\ UNCHANGED <<batchVars, admission, aborted, tool, phase, resolution, written,
                     pending, answer, told>>
  BY DEF Settle, InFlight
<1>3. ~Parallel => c = cur
  <2> SUFFICES ASSUME ~Parallel PROVE c = cur
    OBVIOUS
  <2>1. ~(c > cur) /\ ~(c < cur) /\ c \in Nat /\ cur \in Nat
    BY <1>2 DEF Inv, BatchInv, ToolTypeOK, Calls
  <2> QED BY <2>1
<1>4. /\ TerminalState(c, valid) \in Outcomes \ {"none"}
      /\ TerminalState(c, valid) = "completed" => resolution[c] = "result"
      /\ TerminalState(c, valid) \in NoEffect => phase[c] # "side-effect-possible"
  <2>1. CASE resolution[c] = "result" /\ valid
    BY <2>1 DEF TerminalState, Outcomes, NoEffect
  <2>2. CASE ~(resolution[c] = "result" /\ valid) /\ phase[c] = "side-effect-possible"
    BY <2>2 DEF TerminalState, Outcomes, NoEffect
  <2>3. CASE ~(resolution[c] = "result" /\ valid) /\ phase[c] # "side-effect-possible"
    <3>1. TerminalState(c, valid) \in {"cancelled", "failed-before"}
      BY <2>3 DEF TerminalState
    <3> QED BY <2>3, <3>1 DEF Outcomes, NoEffect
  <2> QED BY <2>1, <2>2, <2>3
<1> QED BY <1>1, <1>2, <1>3, <1>4, ConcludeKeepsInv

-----------------------------------------------------------------------------
(* The implementations.                                                    *)

(* An implementation moves, and may mark its phase, end with a resolution, *)
(* or have its effect: what the invariant needs to know of such a step.    *)
LEMMA ToolMoveKeepsInv ==
  ASSUME Inv, NEW c \in Calls, UNCHANGED runtimeVars, ToolTypeOK', resolution[c] # "none",
         \A d \in Calls \ {c} : /\ tool'[d] = tool[d] /\ phase'[d] = phase[d]
                                /\ resolution'[d] = resolution[d]
                                /\ d \in written' <=> d \in written,
         tool'[c] \notin {"idle", "called"},
         resolution'[c] = resolution[c]
           \/ (resolution[c] = "open" /\ resolution'[c] \in {"result", "error"} /\ tool'[c] = "ended"),
         resolution[c] \in {"result", "error"} => tool'[c] = "ended",
         tool'[c] = "inspecting" => kind[c] = "write",
         (tool'[c] \in {"checking", "writing"} \/ c \in written') =>
            phase'[c] = "side-effect-possible" /\ kind[c] \in Effects,
         phase'[c] = phase[c] \/ resolution[c] = "open"
  PROVE  Inv'
<1> USE DEF Inv, runtimeVars, batchVars
<1>1. AnswersAreTold'
  BY DEF AnswersAreTold
<1>2. ASSUME NEW d \in Calls PROVE CallInv(d)'
  <2>1. CASE d = c
    BY <2>1 DEF CallInv, NoEffect
  <2>2. CASE d # c
    BY <2>2 DEF CallInv
  <2> QED BY <2>1, <2>2
<1>3. BatchInv'
  <2>1. \A d \in Calls : resolution'[d] = "none" <=> resolution[d] = "none"
    OBVIOUS
  <2>2. Batch' = Batch /\ Parallel' = Parallel /\ Batch \subseteq Calls
    BY BatchOfCalls DEF Batch, Parallel
  <2> QED BY <2>1, <2>2 DEF BatchInv, Certain
<1> QED BY <1>1, <1>2, <1>3

LEMMA ImplementationKeepsInv ==
  ASSUME Inv, NEW c \in Calls, Implementation(c)
  PROVE  Inv'
<1> USE DEF ToolEnds, ToolMoves, Mark, Sealed, SignalAborted, ResolveOnce
<1>0. ToolTypeOK /\ CallInv(c)
  BY DEF Inv
<1>1. ToolTypeOK'
  <2>1. CASE ToolStarts(c) \/ ToolInspected(c) \/ ToolWrites(c) \/ EffectLands(c)
    BY <2>1, <1>0 DEF ToolTypeOK, Approvals!ApprovalTypeOK, runtimeVars, batchVars, ToolStarts, ToolInspected, ToolWrites,
       EffectLands, ToolPoints, Phases
  <2>2. CASE ToolNeverStarts(c) \/ ToolReads(c) \/ ToolInspectFails(c) \/ ToolCheckFails(c) \/ ToolWrote(c)
    BY <2>2, <1>0 DEF ToolTypeOK, Approvals!ApprovalTypeOK, runtimeVars, batchVars, ToolNeverStarts, ToolReads,
       ToolInspectFails, ToolCheckFails, ToolWrote, ToolPoints, Resolutions
  <2> QED BY <2>1, <2>2 DEF Implementation
<1>2. CASE ToolStarts(c)
  <2>1. resolution[c] = "open" /\ UNCHANGED <<resolution, written>> /\ UNCHANGED runtimeVars
    BY <1>2 DEF ToolStarts
  <2>2. CASE kind[c] = "read" \/ kind[c] = "write"
    <3>1. /\ tool[c] = "called" /\ kind[c] \in {"read", "write"}
          /\ tool' = [tool EXCEPT ![c] = IF kind[c] = "read" THEN "reading" ELSE "inspecting"]
          /\ phase' = [phase EXCEPT ![c] = "io-started"]
      BY <1>2, <2>1, <2>2 DEF ToolStarts
    <3> QED BY <1>0, <1>1, <2>1, <3>1, ToolMoveKeepsInv DEF CallInv, ToolTypeOK
  <2>3. CASE kind[c] = "create"
    <3>1. /\ tool[c] = "called" /\ kind[c] \in Effects
          /\ tool' = [tool EXCEPT ![c] = "checking"]
          /\ phase' = [phase EXCEPT ![c] = "side-effect-possible"]
      BY <1>2, <2>1, <2>3 DEF ToolStarts, Effects
    <3> QED BY <1>0, <1>1, <2>1, <3>1, ToolMoveKeepsInv DEF CallInv, ToolTypeOK
  <2> QED BY <1>2, <2>2, <2>3 DEF ToolStarts
<1>3. CASE ToolInspected(c)
  <2>1. /\ tool[c] = "inspecting" /\ kind[c] \in Effects /\ resolution[c] = "open"
        /\ tool' = [tool EXCEPT ![c] = "checking"]
        /\ phase' = [phase EXCEPT ![c] = "side-effect-possible"]
        /\ UNCHANGED <<resolution, written>> /\ UNCHANGED runtimeVars
    <3>1. tool[c] = "inspecting" /\ resolution[c] \notin {"cancelled", "timeout"}
      BY <1>3 DEF ToolInspected
    <3>2. resolution[c] = "open" /\ kind[c] \in Effects
      BY <1>0, <3>1 DEF CallInv, ToolTypeOK, Resolutions, Effects
    <3> QED BY <1>3, <3>1, <3>2 DEF ToolInspected
  <2> QED BY <1>0, <1>1, <2>1, ToolMoveKeepsInv DEF CallInv, ToolTypeOK
<1>4. CASE ToolWrites(c)
  <2>1. /\ tool[c] = "checking" /\ tool' = [tool EXCEPT ![c] = "writing"]
        /\ UNCHANGED <<phase, resolution, written>> /\ UNCHANGED runtimeVars
    BY <1>4 DEF ToolWrites
  <2> QED BY <1>0, <1>1, <2>1, ToolMoveKeepsInv DEF CallInv, ToolTypeOK
<1>5. CASE EffectLands(c)
  <2>1. /\ tool[c] = "writing" /\ written' = written \cup {c}
        /\ UNCHANGED <<tool, phase, resolution>> /\ UNCHANGED runtimeVars
    BY <1>5 DEF EffectLands, runtimeVars
  <2> QED BY <1>0, <1>1, <2>1, ToolMoveKeepsInv DEF CallInv, ToolTypeOK
<1>6. CASE ToolNeverStarts(c) \/ ToolReads(c) \/ ToolInspectFails(c) \/ ToolCheckFails(c) \/ ToolWrote(c)
  <2>1. /\ tool[c] # "idle" /\ tool' = [tool EXCEPT ![c] = "ended"]
        /\ \E how \in {"result", "error"} :
             resolution' = [resolution EXCEPT ![c] = IF @ = "open" THEN how ELSE @]
        /\ UNCHANGED <<phase, written>> /\ UNCHANGED runtimeVars
    BY <1>6 DEF ToolNeverStarts, ToolReads, ToolInspectFails, ToolCheckFails, ToolWrote
  <2> QED BY <1>0, <1>1, <2>1, ToolMoveKeepsInv DEF CallInv, ToolTypeOK
<1> QED BY <1>2, <1>3, <1>4, <1>5, <1>6 DEF Implementation

-----------------------------------------------------------------------------
LEMMA NextKeepsInv ==
  ASSUME Inv, [Next]_vars
  PROVE  Inv'
<1>1. CASE Ask \/ CycleThrows \/ EndCycle \/ EndRun \/ Admission
  BY <1>1, AskKeepsInv, CycleKeepsInv, AdmissionKeepsInv
<1>2. CASE Client \/ ApprovalTimer \/ Dispose
  <2>1. ApprovalStep
    BY <1>2 DEF Client, ApprovalTimer, Dispose, ApprovalStep
  <2> QED BY <1>2, <2>1, ApprovalStepKeepsInv DEF Client, ApprovalTimer, Dispose
<1>3. CASE Abort
  BY <1>3, AbortKeepsInv
<1>4. CASE \E c \in Calls : Execution(c) \/ TimeOut(c) \/ Implementation(c)
  BY <1>4, SkipKeepsInv, InvokeKeepsInv, SettleKeepsInv, TimeOutKeepsInv, ImplementationKeepsInv
     DEF Execution
<1>5. CASE UNCHANGED vars
  <2>1. ApprovalStep /\ UNCHANGED <<at, batchVars, cur, admission, aborted, execVars>>
    BY <1>5 DEF vars, toolVars, ApprovalStep
  <2> QED BY <2>1, ApprovalStepKeepsInv
<1> QED BY <1>1, <1>2, <1>3, <1>4, <1>5, NextIsToolStep DEF ToolNext

LEMMA InvIsInvariant == Spec => []Inv
  BY InvInitially, NextKeepsInv, PTL DEF Spec

(* A call that is reported to have had no effect never has one, for any    *)
(* number of calls, any batches and any limits.                            *)
THEOREM EffectsAreReported == Spec => []EffectIsReported
  BY InvIsInvariant, InvImpliesProperties, PTL

(* Nothing reaches the filesystem that no client allowed.                  *)
THEOREM EffectsAreApproved == Spec => []EffectIsApproved
  BY InvIsInvariant, InvImpliesProperties, PTL

(* Effects do not overlap, and none is started after one that failed.      *)
THEOREM OneEffectAtATime == Spec => []EffectsAreSerial
  BY InvIsInvariant, InvImpliesProperties, PTL

(* The variables of the loop keep their types.                             *)
THEOREM ToolTypesAreKept == Spec => []ToolTypeOK
<1>1. Inv => ToolTypeOK
  BY DEF Inv
<1> QED BY <1>1, InvIsInvariant, PTL

(* The approvals of the loop implement the one-shot decision.              *)
THEOREM ApprovalsAreDecidedOnce == Spec => DecidesOnce
<1>1. Init => Approvals!Decision!Init
  BY ApprovalInitially DEF Init
<1>2. Inv /\ [Next]_vars => [Approvals!Decision!Next]_<<answer, told>>
  <2> SUFFICES ASSUME Inv, [Next]_vars PROVE [Approvals!Decision!Next]_<<answer, told>>
    OBVIOUS
  <2>1. [ToolNext]_toolVars
    BY NextIsToolStep DEF vars
  <2>2. ApprovalStep
    BY <2>1, ToolStepIsApprovalStep DEF Inv
  <2> QED BY <2>2, ApprovalStepDecides DEF Inv, ApprovalInv, ToolTypeOK
<1> QED BY <1>1, <1>2, InvIsInvariant, PTL DEF Spec, DecidesOnce, Approvals!Decision!Spec
-----------------------------------------------------------------------------
(* What the model is told.                                                 *)

(* How many calls the transcript has: those of the batches before this     *)
(* one, and when the model is called those of the batch that has ended.    *)
Recorded == IF at = "model" THEN last ELSE first - 1

InputIsNew == \A h \in Histories : Message("user", Input) \notin ToSet(h)

(* Of the transcript the first n entries are of earlier runs, and the rest *)
(* is the input of this run and m calls, each followed by its result.      *)
Records(h, n, m) ==
  /\ Len(h) = n + (IF m = 0 THEN 0 ELSE 1 + 2 * m)
  /\ \A i \in 1 .. n : /\ h[i].call \notin Calls
                       /\ InputIsNew => h[i] # Message("user", Input)
  /\ m > 0 => h[n + 1] = Message("user", Input)
  /\ \A c \in 1 .. m : /\ h[n + 2 * c] = ToolCall(c)
                       /\ h[n + 2 * c + 1] = ToolResult(c, outcome[c])

HistoryInv ==
  /\ history \in Seq(Entries) /\ CompleteGroups(history)
  /\ at # "over" => \E n \in Nat : Records(history, n, Recorded)

(* What a call returns it has done.                                        *)
Performed(c) ==
  /\ tool[c] = "reading" => kind[c] \notin Effects
  /\ resolution[c] = "result" /\ kind[c] \in Effects => c \in written

ContextInv ==
  /\ Inv /\ HistoryInv
  /\ \A c \in Calls : Performed(c)
  /\ at \notin {"model", "over"} => first <= last

LEMMA ContextInitially == Init => ContextInv
<1> SUFFICES ASSUME Init PROVE ContextInv
  OBVIOUS
<1>1. Inv
  BY InvInitially
<1>2. history \in Seq(Entries) /\ CompleteGroups(history)
  BY HistoryAssumption DEF Init
<1>3. Records(history, Len(history), Recorded)
  <2>1. Recorded = 0
    BY DEF Init, ToolInit, Recorded
  <2>2. Len(history) \in Nat /\ DOMAIN history = 1 .. Len(history)
    BY <1>2, LenProperties
  <2>3. \A i \in 1 .. Len(history) : /\ history[i].call \notin Calls
                                     /\ InputIsNew => history[i] # Message("user", Input)
    BY <2>2, HistoryAssumption DEF Init, InputIsNew, ToSet
  <2> QED
    BY <2>1, <2>2, <2>3 DEF Records
<1>4. \A c \in Calls : Performed(c)
  BY DEF Init, ToolInit, Performed
<1>5. Len(history) \in Nat
  BY <1>2
<1> QED
  BY <1>1, <1>2, <1>3, <1>4, <1>5 DEF ContextInv, HistoryInv, Init, ToolInit

(* Every step but the end of a cycle or of the run.                        *)
Other ==
  \/ Ask \/ Admission \/ CycleThrows \/ Client \/ ApprovalTimer \/ Dispose \/ Abort
  \/ \E c \in Calls : Execution(c) \/ TimeOut(c) \/ Implementation(c)

(* It leaves the calls that the transcript has as they are, or ends the    *)
(* run.                                                                    *)
LEMMA RecordedStay ==
  ASSUME ContextInv, Other
  PROVE  \/ at' = "over"
         \/ /\ at # "over" /\ Recorded' = Recorded
            /\ \A c \in 1 .. Recorded : outcome'[c] = outcome[c]
            /\ at' # "model" => first' <= last'
         \/ at = "over" /\ at' = "over"
<1> USE DEF ContextInv
<1>0. ToolTypeOK
  BY DEF Inv
<1>1. CASE CycleThrows \/ \E ks \in Asks : BudgetExhausted(ks)
  BY <1>1 DEF CycleThrows, BudgetExhausted
<1>2. ASSUME NEW ks \in Asks, StartBatch(ks)
      PROVE  /\ at # "over" /\ Recorded' = Recorded /\ first' <= last'
             /\ \A c \in 1 .. Recorded : outcome'[c] = outcome[c]
  <2>1. /\ at = "model" /\ first' = last + 1 /\ last' = last + Len(ks)
        /\ outcome' = outcome /\ at' \in {"run", "policy"}
    BY <1>2 DEF StartBatch, AdmitNext, execVars
  <2>2. Len(ks) \in Nat \ {0} /\ last \in Nat
    <3>1. ks \in Seq(Kinds) /\ ks # <<>>
      BY ToolAssumption
    <3> QED
      BY <1>0, <3>1, EmptySeq DEF ToolTypeOK
  <2> QED
    BY <2>1, <2>2 DEF Recorded
<1>3. CASE Admission
  BY <1>3 DEF Admission, PolicyRejects, PolicyAllows, PolicyRequiresApproval, ApprovalRefused,
     ApprovalGiven, Recheck, Admitted, AdmitNext, batchVars, execVars, Recorded
<1>4. CASE \/ Client \/ ApprovalTimer \/ Dispose \/ Abort
           \/ \E c \in Calls : Invoke(c) \/ TimeOut(c) \/ Implementation(c)
  <2>1. at' = at /\ first' = first /\ last' = last /\ outcome' = outcome
    BY <1>4 DEF Client, ApprovalTimer, Dispose, Abort, Invoke, TimeOut, batchVars, execVars,
       Implementation, ToolStarts, ToolNeverStarts, ToolReads, ToolInspected, ToolInspectFails,
       ToolWrites, ToolCheckFails, EffectLands, ToolWrote, ToolEnds, ToolMoves, runtimeVars
  <2> QED
    BY <2>1 DEF Recorded
<1>5. ASSUME NEW c \in Calls, Skip(c) \/ Settle(c)
      PROVE  /\ at # "over" /\ Recorded' = Recorded /\ first' <= last'
             /\ \A d \in 1 .. Recorded : outcome'[d] = outcome[d]
  <2>1. /\ at = "run" /\ c \in Batch /\ first' = first /\ last' = last
        /\ \E state, halts : Report(c, state, halts)
    BY <1>5 DEF Skip, Settle, Turn, InFlight, Conclude, batchVars
  <2>2. PICK state, halts : Report(c, state, halts)
    BY <2>1
  <2>3. at' \in {"run", "cycle"}
    BY <2>1, <2>2 DEF Report
  <2>4. \A d \in 1 .. first - 1 : outcome'[d] = outcome[d]
    <3> SUFFICES ASSUME NEW d \in 1 .. first - 1 PROVE outcome'[d] = outcome[d]
      OBVIOUS
    <3>1. d \in Calls /\ d # c /\ d \notin c + 1 .. last
      BY <1>0, <2>1, ToolAssumption DEF ToolTypeOK, Calls, Batch
    <3> QED
      BY <2>2, <3>1 DEF Report
  <2> QED
    BY <2>1, <2>3, <2>4 DEF Recorded
<1> QED
  BY <1>1, <1>2, <1>3, <1>4, <1>5 DEF Other, Ask, Execution

LEMMA OtherKeepsHistory ==
  ASSUME ContextInv, Other, UNCHANGED history
  PROVE  HistoryInv' /\ (at' \notin {"model", "over"} => first' <= last')
<1>1. history' \in Seq(Entries) /\ CompleteGroups(history')
  BY DEF ContextInv, HistoryInv
<1>2. CASE at' = "over"
  BY <1>1, <1>2 DEF HistoryInv
<1>3. CASE at' # "over"
  <2>1. /\ at # "over" /\ Recorded' = Recorded
        /\ \A c \in 1 .. Recorded : outcome'[c] = outcome[c]
        /\ at' # "model" => first' <= last'
    BY <1>3, RecordedStay
  <2>2. PICK n \in Nat : Records(history, n, Recorded)
    BY <2>1 DEF ContextInv, HistoryInv
  <2>3. Records(history, n, Recorded)'
    BY <2>1, <2>2 DEF Records
  <2> QED
    BY <1>1, <2>1, <2>3 DEF HistoryInv
<1> QED
  BY <1>2, <1>3

(* What a cycle adds: the input if it is the first, and every call of the  *)
(* batch with its result.                                                  *)
Brought == IF first = 1 THEN 1 ELSE 0

LEMMA CycleEntriesAre ==
  ASSUME Inv, first <= last
  PROVE  /\ CycleEntries \in Seq(Entries)
         /\ Len(CycleEntries) = Brought + 2 * (last - first + 1)
         /\ first = 1 => CycleEntries[1] = Message("user", Input)
         /\ \A c \in first .. last :
              /\ CycleEntries[Brought + 2 * (c - first) + 1] = ToolCall(c)
              /\ CycleEntries[Brought + 2 * (c - first) + 2] = ToolResult(c, outcome[c])
<1> DEFINE b == Brought
           k == last - first + 1
           of(i) == first + (i - 1) \div 2
           e(i) == IF i % 2 = 1 THEN ToolCall(of(i)) ELSE ToolResult(of(i), outcome[of(i)])
           pairs == [i \in 1 .. 2 * k |-> e(i)]
           brings == InputEntry(first = 1)
<1>1. first \in Nat /\ last \in Nat /\ k \in Nat \ {0} /\ first .. last \subseteq Calls
  BY BatchOfCalls DEF Inv, ToolTypeOK, Calls, Batch
<1>2. \A i \in 1 .. 2 * k : of(i) \in first .. last
  BY <1>1
<1>3. \A i \in 1 .. 2 * k : e(i) \in Entries
  <2> SUFFICES ASSUME NEW i \in 1 .. 2 * k PROVE e(i) \in Entries
    OBVIOUS
  <2>1. of(i) \in Nat /\ outcome[of(i)] \in Texts
    <3>1. of(i) \in Calls
      BY <1>1, <1>2
    <3>2. outcome[of(i)] \in Outcomes
      BY <3>1 DEF Inv, ToolTypeOK
    <3> QED
      BY <3>1, <3>2, HistoryAssumption DEF Calls
  <2> HIDE DEF of
  <2>2. ToolCall(of(i)) \in Entries /\ ToolResult(of(i), outcome[of(i)]) \in Entries
    BY <2>1, HistoryAssumption DEF ToolCall, ToolResult, Entries
  <2> QED
    BY <2>2
<1>4. pairs \in Seq(Entries) /\ Len(pairs) = 2 * k
  <2>1. 2 * k \in Nat
    BY <1>1
  <2> HIDE DEF e
  <2>2. pairs \in [1 .. 2 * k -> Entries]
    BY <1>3
  <2> QED
    BY <2>1, <2>2, SeqDef
<1>5. \A c \in first .. last : /\ pairs[2 * (c - first) + 1] = ToolCall(c)
                               /\ pairs[2 * (c - first) + 2] = ToolResult(c, outcome[c])
  <2> SUFFICES ASSUME NEW c \in first .. last
               PROVE  /\ pairs[2 * (c - first) + 1] = ToolCall(c)
                      /\ pairs[2 * (c - first) + 2] = ToolResult(c, outcome[c])
    OBVIOUS
  <2> DEFINE i == 2 * (c - first) + 1
             j == 2 * (c - first) + 2
  <2>1. i \in 1 .. 2 * k /\ j \in 1 .. 2 * k /\ i % 2 = 1 /\ j % 2 = 0
    BY <1>1
  <2>2. of(i) = c /\ of(j) = c
    BY <1>1
  <2> HIDE DEF i, j, of, k
  <2> QED
    BY <2>1, <2>2 DEF i, j
<1>6. /\ brings \in Seq(Entries) /\ Len(brings) = b
      /\ first = 1 => brings[1] = Message("user", Input)
  <2>1. Message("user", Input) \in Entries
    BY HistoryAssumption DEF Message, Entries
  <2> QED
    BY <2>1 DEF InputEntry, Brought
<1>7. CycleEntries = brings \o pairs
  BY DEF CycleEntries
<1>8. b \in {0, 1}
  BY DEF Brought
<1> HIDE DEF pairs, of, e, brings
<1>9. /\ CycleEntries \in Seq(Entries)
      /\ Len(CycleEntries) = b + 2 * k
      /\ \A i \in 1 .. b + 2 * k :
           CycleEntries[i] = IF i <= b THEN brings[i] ELSE pairs[i - b]
  <2>1. /\ brings \o pairs \in Seq(Entries)
        /\ Len(brings \o pairs) = Len(brings) + Len(pairs)
        /\ \A i \in 1 .. Len(brings) + Len(pairs) :
             (brings \o pairs)[i] = IF i <= Len(brings) THEN brings[i] ELSE pairs[i - Len(brings)]
    BY <1>4, <1>6, ConcatProperties
  <2> QED
    BY <1>4, <1>6, <1>7, <2>1
<1>10. \A c \in first .. last : /\ CycleEntries[b + 2 * (c - first) + 1] = ToolCall(c)
                                /\ CycleEntries[b + 2 * (c - first) + 2] = ToolResult(c, outcome[c])
  <2> SUFFICES ASSUME NEW c \in first .. last
               PROVE  /\ CycleEntries[b + 2 * (c - first) + 1] = ToolCall(c)
                      /\ CycleEntries[b + 2 * (c - first) + 2] = ToolResult(c, outcome[c])
    OBVIOUS
  <2> DEFINE i == b + 2 * (c - first) + 1
             j == b + 2 * (c - first) + 2
  <2>1. /\ i \in 1 .. b + 2 * k /\ j \in 1 .. b + 2 * k /\ ~(i <= b) /\ ~(j <= b)
        /\ i - b = 2 * (c - first) + 1 /\ j - b = 2 * (c - first) + 2
    BY <1>1, <1>8
  <2>2. CycleEntries[i] = pairs[i - b] /\ CycleEntries[j] = pairs[j - b]
    BY <1>9, <2>1
  <2> QED
    BY <1>5, <2>1, <2>2
<1>11. first = 1 => CycleEntries[1] = Message("user", Input)
  <2> SUFFICES ASSUME first = 1 PROVE CycleEntries[1] = Message("user", Input)
    OBVIOUS
  <2>1. b = 1 /\ 1 \in 1 .. b + 2 * k
    BY <1>1 DEF Brought
  <2> QED
    BY <1>6, <1>9, <2>1
<1> QED
  BY <1>9, <1>10, <1>11

(* It goes on where the records ended.                                     *)
LEMMA CycleIsRecorded ==
  ASSUME ContextInv, at = "cycle", NEW n \in Nat, Records(history, n, first - 1)
  PROVE  LET h == history \o CycleEntries
         IN  h \in Seq(Entries) /\ CompleteGroups(h) /\ Records(h, n, last)
<1> DEFINE h == history \o CycleEntries
           b == Brought
           k == last - first + 1
           l == Len(history)
<1>1. /\ first \in Nat \ {0} /\ last \in Nat /\ first <= last /\ Inv
      /\ history \in Seq(Entries)
  BY DEF ContextInv, HistoryInv, Inv, ToolTypeOK, Calls
<1>2. /\ CycleEntries \in Seq(Entries) /\ Len(CycleEntries) = b + 2 * k
      /\ first = 1 => CycleEntries[1] = Message("user", Input)
      /\ \A c \in first .. last :
           /\ CycleEntries[b + 2 * (c - first) + 1] = ToolCall(c)
           /\ CycleEntries[b + 2 * (c - first) + 2] = ToolResult(c, outcome[c])
  BY <1>1, CycleEntriesAre
<1>3. /\ h \in Seq(Entries) /\ Len(h) = l + b + 2 * k
      /\ \A i \in 1 .. l : h[i] = history[i]
      /\ \A i \in 1 .. b + 2 * k : h[l + i] = CycleEntries[i]
  <2>1. l \in Nat /\ b \in Nat /\ k \in Nat
    BY <1>1 DEF Brought
  <2>2. /\ h \in Seq(Entries) /\ Len(h) = l + (b + 2 * k)
        /\ \A i \in 1 .. l + (b + 2 * k) : h[i] = IF i <= l THEN history[i] ELSE CycleEntries[i - l]
    BY <1>1, <1>2, ConcatProperties
  <2> HIDE DEF h, k, b, l
  <2>3. \A i \in 1 .. b + 2 * k : l + i \in 1 .. l + (b + 2 * k) /\ ~(l + i <= l) /\ (l + i) - l = i
    BY <2>1
  <2>4. \A i \in 1 .. l : i \in 1 .. l + (b + 2 * k) /\ i <= l
    BY <2>1
  <2>5. l + (b + 2 * k) = l + b + 2 * k
    BY <2>1
  <2>6. \A i \in 1 .. b + 2 * k : h[l + i] = CycleEntries[i]
    BY <2>2, <2>3
  <2>7. \A i \in 1 .. l : h[i] = history[i]
    BY <2>2, <2>4
  <2> QED
    BY <2>2, <2>5, <2>6, <2>7
<1>4. l = n + (IF first = 1 THEN 0 ELSE 2 * first - 1)
  BY <1>1 DEF Records
<1>5. l + b = n + 2 * first - 1 /\ b \in {0, 1} /\ l \in Nat
  BY <1>1, <1>4 DEF Brought
<1> HIDE DEF h, l
<1>6. \A c \in first .. last : /\ h[n + 2 * c] = ToolCall(c)
                               /\ h[n + 2 * c + 1] = ToolResult(c, outcome[c])
  <2> SUFFICES ASSUME NEW c \in first .. last
               PROVE  /\ h[n + 2 * c] = ToolCall(c)
                      /\ h[n + 2 * c + 1] = ToolResult(c, outcome[c])
    OBVIOUS
  <2>1. /\ b + 2 * (c - first) + 1 \in 1 .. b + 2 * k
        /\ b + 2 * (c - first) + 2 \in 1 .. b + 2 * k
    BY <1>1, <1>5
  <2>2. /\ l + (b + 2 * (c - first) + 1) = n + 2 * c
        /\ l + (b + 2 * (c - first) + 2) = n + 2 * c + 1
    BY <1>1, <1>5
  <2>3. /\ h[l + (b + 2 * (c - first) + 1)] = ToolCall(c)
        /\ h[l + (b + 2 * (c - first) + 2)] = ToolResult(c, outcome[c])
    BY <1>2, <1>3, <2>1
  <2> QED
    BY <2>2, <2>3
<1>7. \A c \in 1 .. first - 1 : /\ h[n + 2 * c] = ToolCall(c)
                                /\ h[n + 2 * c + 1] = ToolResult(c, outcome[c])
  <2> SUFFICES ASSUME NEW c \in 1 .. first - 1
               PROVE  /\ h[n + 2 * c] = ToolCall(c)
                      /\ h[n + 2 * c + 1] = ToolResult(c, outcome[c])
    OBVIOUS
  <2>1. n + 2 * c \in 1 .. l /\ n + 2 * c + 1 \in 1 .. l
    BY <1>1, <1>4
  <2> QED
    BY <1>3, <2>1 DEF Records
<1>8. h[n + 1] = Message("user", Input)
  <2>1. CASE first = 1
    <3>1. n + 1 = l + 1 /\ 1 \in 1 .. b + 2 * k
      BY <1>1, <1>4, <1>5, <2>1
    <3> QED
      BY <1>2, <1>3, <2>1, <3>1
  <2>2. CASE first # 1
    <3>1. n + 1 \in 1 .. l /\ first - 1 > 0
      BY <1>1, <1>4, <2>2
    <3> QED
      BY <1>3, <3>1 DEF Records
  <2> QED
    BY <2>1, <2>2
<1>9. Records(h, n, last)
  <2>1. Len(h) = n + (IF last = 0 THEN 0 ELSE 1 + 2 * last)
    BY <1>1, <1>3, <1>5
  <2>2. ASSUME NEW i \in 1 .. n
        PROVE  h[i].call \notin Calls /\ (InputIsNew => h[i] # Message("user", Input))
    <3>1. i \in 1 .. l
      BY <1>1, <1>4
    <3> QED
      BY <1>3, <3>1 DEF Records
  <2>3. \A c \in 1 .. last : c \in 1 .. first - 1 \/ c \in first .. last
    BY <1>1
  <2> QED
    BY <1>6, <1>7, <1>8, <2>1, <2>2, <2>3 DEF Records
<1>10. CompleteGroups(h)
  <2>1. Len(h) = n + 2 * last + 1 /\ last \in first .. last
    BY <1>1, <1>3, <1>5
  <2>2. h[Len(h)].type = "result"
    <3>1. h[n + 2 * last + 1] = ToolResult(last, outcome[last])
      BY <1>6, <2>1
    <3> QED
      BY <2>1, <3>1 DEF ToolResult
  <2> QED
    BY <2>2 DEF CompleteGroups, Last
<1> QED
  BY <1>3, <1>9, <1>10 DEF h

LEMMA RecordKeepsHistory ==
  ASSUME ContextInv, RecordCycle
  PROVE  HistoryInv' /\ at' \in {"model", "over"}
<1>1. /\ at = "cycle" /\ at' \in {"model", "over"} /\ last' = last /\ outcome' = outcome
      /\ history' = history \o CycleEntries \/ (at' = "over" /\ history' = history)
  BY DEF RecordCycle, EndCycle, batchVars, execVars
<1>2. PICK n \in Nat : Records(history, n, first - 1)
  BY <1>1 DEF ContextInv, HistoryInv, Recorded
<1>3. CASE at' = "over" /\ history' = history
  BY <1>3 DEF ContextInv, HistoryInv
<1>4. CASE history' = history \o CycleEntries
  <2>1. history' \in Seq(Entries) /\ CompleteGroups(history') /\ Records(history', n, last)
    BY <1>1, <1>2, <1>4, CycleIsRecorded
  <2>2. at' = "model" => Records(history, n, Recorded)'
    BY <1>1, <2>1 DEF Recorded, Records
  <2> QED
    BY <1>1, <2>1, <2>2 DEF HistoryInv
<1> QED
  BY <1>1, <1>3, <1>4

LEMMA ConclusionKeepsHistory ==
  ASSUME ContextInv, Conclusion
  PROVE  HistoryInv' /\ at' = "over"
<1>1. at' = "over"
  BY DEF Conclusion, EndRun
<1>2. CASE history' = history
  BY <1>1, <1>2 DEF ContextInv, HistoryInv
<1>3. CASE history' = history \o InputEntry(last = 0) \o <<Message("assistant", "answer")>>
  <2> DEFINE before == history \o InputEntry(last = 0)
             answer1 == Message("assistant", "answer")
  <2>1. answer1 \in Entries /\ Message("user", Input) \in Entries /\ history \in Seq(Entries)
    BY HistoryAssumption DEF ContextInv, HistoryInv, Message, Entries
  <2>2. before \in Seq(Entries)
    BY <2>1 DEF InputEntry
  <2>3. answer1.type = "assistant"
    BY DEF Message
  <2> HIDE DEF before, answer1
  <2>4. history' = Append(before, answer1)
    BY <1>3, <2>1, <2>2 DEF before, answer1
  <2>5. /\ history' \in Seq(Entries) /\ history'[Len(history')] = answer1
    BY <2>1, <2>2, <2>4
  <2> QED
    BY <1>1, <2>3, <2>5 DEF HistoryInv, CompleteGroups, Last
<1> QED
  BY <1>2, <1>3 DEF Conclusion

(* A call returns nothing before it has done it.                           *)
LEMMA PerformedStays ==
  ASSUME ContextInv, [Next]_vars, NEW c \in Calls
  PROVE  Performed(c)'
<1> USE DEF Performed
<1>1. Inv /\ ToolTypeOK /\ CallInv(c) /\ Performed(c)
  BY DEF ContextInv, Inv
<1>2. CASE \/ Admission \/ CycleThrows \/ EndCycle \/ EndRun \/ Client \/ ApprovalTimer \/ Dispose
           \/ UNCHANGED toolVars \/ \E ks \in Asks : BudgetExhausted(ks)
  <2>1. UNCHANGED <<tool, kind, resolution, written>>
    BY <1>2 DEF Admission, PolicyRejects, PolicyAllows, PolicyRequiresApproval, ApprovalRefused,
       ApprovalGiven, Recheck, Admitted, CycleThrows, EndCycle, EndRun, Client, ApprovalTimer,
       Dispose, BudgetExhausted, batchVars, execVars, toolVars
  <2> QED
    BY <1>1, <2>1
<1>3. ASSUME NEW ks \in Asks, StartBatch(ks) PROVE Performed(c)'
  <2>1. UNCHANGED <<tool, resolution, written>>
    BY <1>3 DEF StartBatch, execVars
  <2>2. kind'[c] = kind[c] \/ c > last
    BY <1>1, <1>3 DEF StartBatch, ToolTypeOK, Calls
  <2> QED
    BY <1>1, <2>1, <2>2 DEF CallInv
<1>4. CASE Abort \/ \E d \in Calls : Skip(d) \/ Invoke(d) \/ Settle(d) \/ TimeOut(d)
  <2>1. UNCHANGED <<kind, written>> /\ (resolution'[c] = "result" => resolution[c] = "result")
        /\ (tool'[c] = "reading" => tool[c] = "reading")
    BY <1>1, <1>4 DEF Abort, Skip, Invoke, Settle, TimeOut, ResolveOnce, batchVars, ToolTypeOK
  <2> QED
    BY <1>1, <2>1
<1>5. ASSUME NEW d \in Calls, Implementation(d) PROVE Performed(c)'
  <2>1. kind' = kind
    BY <1>5 DEF Implementation, ToolStarts, ToolNeverStarts, ToolReads, ToolInspected,
       ToolInspectFails, ToolWrites, ToolCheckFails, EffectLands, ToolWrote, ToolEnds, ToolMoves,
       runtimeVars, batchVars
  <2>2. CASE d # c
    <3>1. tool'[c] = tool[c] /\ resolution'[c] = resolution[c] /\ (c \in written => c \in written')
      BY <1>1, <1>5, <2>2 DEF Implementation, ToolStarts, ToolNeverStarts, ToolReads, ToolInspected,
         ToolInspectFails, ToolWrites, ToolCheckFails, EffectLands, ToolWrote, ToolEnds, ToolMoves,
         ResolveOnce, ToolTypeOK
    <3> QED
      BY <1>1, <2>1, <3>1
  <2>3. CASE d = c
    <3> USE <1>1, <2>1, <2>3 DEF ToolTypeOK, ToolEnds, ToolMoves, ResolveOnce
    <3>1. CASE ToolStarts(c)
      BY <3>1 DEF ToolStarts, Effects
    <3>2. CASE ToolNeverStarts(c)
      BY <3>2 DEF ToolNeverStarts, Sealed
    <3>3. CASE ToolReads(c)
      BY <3>3 DEF ToolReads
    <3>4. CASE ToolInspected(c) \/ ToolWrites(c) \/ EffectLands(c)
      BY <3>4 DEF ToolInspected, ToolWrites, EffectLands
    <3>5. CASE ToolInspectFails(c) \/ ToolCheckFails(c)
      BY <3>5 DEF ToolInspectFails, ToolCheckFails
    <3>6. CASE ToolWrote(c)
      BY <3>6 DEF ToolWrote
    <3> QED
      BY <1>5, <3>1, <3>2, <3>3, <3>4, <3>5, <3>6 DEF Implementation
  <2> QED
    BY <2>2, <2>3
<1> QED
  BY <1>2, <1>3, <1>4, <1>5, NextIsToolStep DEF ToolNext, Ask, Execution, vars

LEMMA ContextInv_Next == ContextInv /\ [Next]_vars => ContextInv'
<1> SUFFICES ASSUME ContextInv, [Next]_vars PROVE ContextInv'
  OBVIOUS
<1>1. Inv'
  BY NextKeepsInv DEF ContextInv
<1>2. \A c \in Calls : Performed(c)'
  BY PerformedStays
<1>3. HistoryInv' /\ (at' \notin {"model", "over"} => first' <= last')
  <2>1. CASE RecordCycle \/ Conclusion
    BY <2>1, RecordKeepsHistory, ConclusionKeepsHistory
  <2>2. CASE Other /\ UNCHANGED history
    BY <2>2, OtherKeepsHistory
  <2>3. CASE UNCHANGED vars
    BY <2>3 DEF ContextInv, HistoryInv, Records, Recorded, vars, toolVars, batchVars, execVars
  <2> QED
    BY <2>1, <2>2, <2>3 DEF Next, Other
<1> QED
  BY <1>1, <1>2, <1>3 DEF ContextInv

LEMMA ContextInvariant == Spec => []ContextInv
  BY ContextInitially, ContextInv_Next, PTL DEF Spec

(* The turns of a model call are the transcript, after the first cycle; at *)
(* the first call they end with the input.                                 *)
LEMMA TurnsAre ==
  ASSUME ContextInv, at = "model", NEW n \in Nat, Records(history, n, last)
  PROVE  /\ last > 0 => Turns = history
         /\ \/ Turns = history
            \/ Turns = Append(history, Message("user", Input))
         /\ last = 0 /\ InputIsNew => Turns = Append(history, Message("user", Input))
<1>1. /\ history \in Seq(Entries) /\ last \in Nat /\ DOMAIN history = 1 .. Len(history)
  BY LenProperties DEF ContextInv, HistoryInv, Inv, ToolTypeOK
<1>2. last > 0 => Message("user", Input) \in ToSet(history)
  <2> SUFFICES ASSUME last > 0 PROVE Message("user", Input) \in ToSet(history)
    OBVIOUS
  <2>1. n + 1 \in DOMAIN history /\ history[n + 1] = Message("user", Input)
    BY <1>1 DEF Records
  <2> QED
    BY <2>1 DEF ToSet
<1>3. last = 0 /\ InputIsNew => Message("user", Input) \notin ToSet(history)
  BY <1>1 DEF Records, ToSet
<1> QED
  BY <1>2, <1>3 DEF Turns, PreparedTurns

(* What a run leaves behind is accepted, and a model call is told of every *)
(* call in order, unless an earlier run had an input with the same text    *)
(* (the run ToolLoopRepeatedInput).                                        *)
THEOREM ContextsAreComplete ==
  ASSUME \A h \in Histories : Message("user", Input) \notin ToSet(h)
  PROVE  Spec => []ContextIsComplete
<1>0. InputIsNew
  BY DEF InputIsNew
<1>1. ASSUME ContextInv, at = "model"
      PROVE  \E i \in DOMAIN Turns :
               /\ Turns[i] = Message("user", Input)
               /\ Len(Turns) = i + 2 * last
               /\ \A c \in 1 .. last : /\ Turns[i + 2 * c - 1] = ToolCall(c)
                                       /\ Turns[i + 2 * c] = ToolResult(c, outcome[c])
  <2>1. PICK n \in Nat : Records(history, n, last)
    BY <1>1 DEF ContextInv, HistoryInv, Recorded
  <2>2. history \in Seq(Entries) /\ last \in Nat /\ Message("user", Input) \in Entries
    BY <1>1, HistoryAssumption DEF ContextInv, HistoryInv, Inv, ToolTypeOK, Message, Entries
  <2>3. CASE last = 0
    <3>1. Turns = Append(history, Message("user", Input)) /\ Len(history) = n
      BY <1>0, <1>1, <2>1, <2>3, TurnsAre DEF Records
    <3>2. Len(Turns) = n + 1 /\ Turns[n + 1] = Message("user", Input) /\ n + 1 \in DOMAIN Turns
      BY <2>2, <3>1
    <3> QED
      BY <2>3, <3>2
  <2>4. CASE last > 0
    <3>1. Turns = history
      BY <1>1, <2>1, <2>4, TurnsAre
    <3>2. /\ Len(history) = n + 1 + 2 * last /\ history[n + 1] = Message("user", Input)
          /\ n + 1 \in DOMAIN history
      BY <2>1, <2>2, <2>4 DEF Records
    <3>3. ASSUME NEW c \in 1 .. last
          PROVE  /\ history[(n + 1) + 2 * c - 1] = ToolCall(c)
                 /\ history[(n + 1) + 2 * c] = ToolResult(c, outcome[c])
      <4>1. (n + 1) + 2 * c - 1 = n + 2 * c /\ (n + 1) + 2 * c = n + 2 * c + 1
        BY <2>2
      <4> QED
        BY <2>1, <4>1 DEF Records
    <3> QED
      BY <3>1, <3>2, <3>3
  <2> QED
    BY <2>2, <2>3, <2>4
<1>2. ContextInv => ContextIsComplete
  BY <1>1 DEF ContextInv, HistoryInv, ContextIsComplete
<1> QED
  BY <1>2, ContextInvariant, PTL

LEMMA EvenOrOdd == \A x \in Nat : x = 2 * (x \div 2) \/ x = 2 * (x \div 2) + 1
OBVIOUS

(* When the model is called it knows of every effect, and of none that was *)
(* not made: no call is uncertain, and no result is of another call.       *)
THEOREM ModelsKnowTheWorkspace == Spec => []ModelKnowsTheWorkspace
<1>1. ASSUME ContextInv, at = "model", NEW c \in 1 .. last, kind[c] \in Effects
      PROVE  /\ c \in written <=> ToolResult(c, "completed") \in ToSet(Turns)
             /\ tool[c] # "writing"
  <2>1. PICK n \in Nat : Records(history, n, last)
    BY <1>1 DEF ContextInv, HistoryInv, Recorded
  <2>2. /\ history \in Seq(Entries) /\ last \in Nat /\ c \in Calls
        /\ DOMAIN history = 1 .. Len(history)
    <3>1. history \in Seq(Entries) /\ ToolTypeOK
      BY <1>1 DEF ContextInv, HistoryInv, Inv
    <3>2. last \in Nat /\ c \in Calls
      BY <3>1, ToolAssumption DEF ToolTypeOK, Calls
    <3> QED
      BY <3>1, <3>2, LenProperties
  <2>3. outcome[c] \in NoEffect \cup {"completed"}
    <3>1. c < first \/ c \in Batch
      BY <1>1, <2>2 DEF ContextInv, Inv, ToolTypeOK, Calls, Batch
    <3>2. Certain(c)
      BY <1>1, <2>2, <3>1 DEF ContextInv, Inv, BatchInv
    <3> QED
      BY <1>1, <2>2, <3>2 DEF Certain, ContextInv, Inv, ToolTypeOK, Outcomes
  <2>4. tool[c] # "writing" /\ (c \in written <=> outcome[c] = "completed")
    <3>1. CallInv(c) /\ Performed(c)
      BY <1>1, <2>2 DEF ContextInv, Inv
    <3>2. CASE outcome[c] = "completed"
      BY <1>1, <3>1, <3>2 DEF CallInv, Performed
    <3>3. CASE outcome[c] \in NoEffect
      BY <3>1, <3>3 DEF CallInv, NoEffect
    <3> QED
      BY <2>3, <3>2, <3>3
  <2>5. Turns = history
    BY <1>1, <2>1, <2>2, TurnsAre
  <2>6. outcome[c] = "completed" => ToolResult(c, "completed") \in ToSet(history)
    <3>1. n + 2 * c + 1 \in DOMAIN history /\ history[n + 2 * c + 1] = ToolResult(c, outcome[c])
      BY <2>1, <2>2 DEF Records
    <3> QED
      BY <3>1 DEF ToSet
  <2>7. ASSUME NEW i \in DOMAIN history, history[i] = ToolResult(c, "completed")
        PROVE  outcome[c] = "completed"
    <3>1. CASE i \in 1 .. n
      BY <2>1, <2>2, <2>7, <3>1 DEF Records, ToolResult
    <3>2. CASE i = n + 1
      BY <2>1, <2>2, <2>7, <3>2 DEF Records, ToolResult, Message
    <3>3. CASE i > n + 1
      <4>1. PICK d \in 1 .. last : i = n + 2 * d \/ i = n + 2 * d + 1
        <5>1. Len(history) = n + 1 + 2 * last /\ i \in 1 .. Len(history)
          BY <2>1, <2>2 DEF Records
        <5>2. (i - n) \div 2 \in 1 .. last
          BY <2>2, <3>3, <5>1
        <5>3. i = n + 2 * ((i - n) \div 2) \/ i = n + 2 * ((i - n) \div 2) + 1
          <6>1. i - n \in Nat /\ i \in Nat
            BY <2>2, <3>3, <5>1
          <6>2. i - n = 2 * ((i - n) \div 2) \/ i - n = 2 * ((i - n) \div 2) + 1
            BY <6>1, EvenOrOdd
          <6> QED
            BY <5>2, <6>1, <6>2
        <5> QED
          BY <5>2, <5>3
      <4>2. history[i] = ToolCall(d) \/ history[i] = ToolResult(d, outcome[d])
        BY <2>1, <4>1 DEF Records
      <4> QED
        BY <2>7, <4>2 DEF ToolCall, ToolResult
    <3> QED
      BY <2>2, <3>1, <3>2, <3>3
  <2> QED
    BY <2>4, <2>5, <2>6, <2>7 DEF ToSet
<1>2. ContextInv => ModelKnowsTheWorkspace
  BY <1>1 DEF ModelKnowsTheWorkspace
<1> QED
  BY <1>2, ContextInvariant, PTL
=============================================================================
