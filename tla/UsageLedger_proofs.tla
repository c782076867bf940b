-------------------------- MODULE UsageLedger_proofs --------------------------
(* Proofs about UsageLedger for any calls, policies, prices and bounds.     *)
EXTENDS UsageLedger, FiniteSetTheorems, WellFoundedInduction, TLAPS

(* Where a turn is tells the status of its reservation ...                 *)
OpenAt(c) ==
  /\ pc[c] = "idle" => status[c] = "absent"
  /\ pc[c] \in {"reserved", "journalled"} => status[c] = "reserved"
  /\ pc[c] \in {"marked", "calling", "answered", "vague", "rejected", "failed"} =>
       status[c] = "dispatched"
(* ... whether the request went out, and what the provider said.           *)
SentAt(c) ==
  /\ pc[c] \in {"idle", "reserved", "journalled", "marked"} => ~sent[c]
  /\ refused[c] => pc[c] \in {"rejected", "over", "gone"}
  /\ pc[c] = "rejected" => refused[c]
(* While the process is dead, nothing of its turns is left but their rows. *)
DeadAt(c) ==
  ~up => crashes > 0 /\ pc[c] \in {"idle", "over", "gone"}

(* What the three safety properties say of one call.                       *)
CountedAt(c)  == sent[c] /\ ~refused[c] => status[c] \in {"dispatched", "settled", "uncertain"}
RecordedAt(c) ==
  /\ record[c].outcome # "none" => status[c] = record[c].outcome
  /\ status[c] \in Terminal /\ record[c].outcome = "none" =>
       crashes > 0 /\ (pc[c] = "gone" \/ (pc[c] = "over" /\ faults > 0))
OwnedAt(c)    ==
  status[c] \in {"reserved", "dispatched"} =>
    \/ pc[c] \notin {"idle", "over"} /\ (pc[c] = "gone" => ~up)
    \/ pc[c] = "over" /\ faults > 0

CallInv(c) == /\ OpenAt(c) /\ SentAt(c) /\ DeadAt(c)
              /\ CountedAt(c) /\ RecordedAt(c) /\ OwnedAt(c)

LedgerInv == LedgerTypeOK /\ \A c \in Calls : CallInv(c)

-----------------------------------------------------------------------------
(* Amounts are natural numbers: the bigint divisions never go below zero.  *)
LEMMA QuotientIsNat ==
  ASSUME NEW a \in Nat, NEW b \in Nat, NEW d \in Nat \ {0}
  PROVE  (a * b) \div d \in Nat
<1>1. a * b \in Nat
  OBVIOUS
<1>2. \A n \in Nat : n \div d \in Nat
  OBVIOUS
<1> QED BY <1>1, <1>2

LEMMA ReservedAmountType ==
  ASSUME NEW estimate \in Estimates, NEW d \in Nat
  PROVE  ReservedAmount(estimate, d) \in Amounts
<1>1. estimate \in Nat /\ (estimate * InPrice) \div Unit \in Nat
  BY LedgerAssumption, QuotientIsNat
<1> QED BY <1>1 DEF ReservedAmount, Amounts

LEMMA ActualAmountType ==
  ASSUME NEW u \in UsageType, NEW d \in Nat
  PROVE  ActualAmount(u, d) \in Amounts
<1>1. u.total \in Nat /\ u.input \in Nat /\ u.output \in Nat
  BY DEF UsageType
<1>2. (u.input * InPrice) \div Unit \in Nat /\ (u.output * OutPrice) \div Unit \in Nat
  BY <1>1, LedgerAssumption, QuotientIsNat
<1>3. (u.input * InPrice) \div Unit + (u.output * OutPrice) \div Unit \in Nat
  BY <1>2
<1> QED BY <1>1, <1>3 DEF ActualAmount, Amounts

LEMMA NoAmountType == NoAmount \in Amounts
BY DEF NoAmount, Amounts

-----------------------------------------------------------------------------
(* A step of one call keeps what is known of the others.                   *)
LEMMA OtherCall ==
  ASSUME LedgerTypeOK, NEW d \in Calls, CallInv(d),
         pc'[d] = pc[d], status'[d] = status[d], record'[d] = record[d],
         sent'[d] = sent[d], refused'[d] = refused[d],
         up' = up, crashes' = crashes, faults' \in {faults, faults + 1}
  PROVE  CallInv(d)'
<1>1. faults \in Nat
  BY LedgerAssumption DEF LedgerTypeOK
<1> QED
  BY <1>1 DEF CallInv, OpenAt, SentAt, DeadAt, CountedAt, RecordedAt, OwnedAt

(* The counters of the environment, which every action treats alike.       *)
LEMMA FaultIsCounted ==
  ASSUME LedgerTypeOK, Fault \/ NoFault
  PROVE  faults' \in 0..MaxFaults /\ faults' \in {faults, faults + 1}
BY LedgerAssumption DEF LedgerTypeOK, Fault, NoFault

LEMMA Reserve_Inv ==
  ASSUME LedgerInv, NEW c \in Calls, Reserve(c)
  PROVE  LedgerInv'
<1>0. /\ LedgerTypeOK /\ CallInv(c) /\ pc[c] = "idle" /\ up
      /\ \A d \in Calls : CallInv(d)
  BY DEF LedgerInv, Reserve
<1>1. faults' \in 0..MaxFaults /\ faults' \in {faults, faults + 1}
  BY <1>0, FaultIsCounted DEF Reserve
<1>2. UNCHANGED <<record, usage, sent, refused, today, up, crashes>>
  BY DEF Reserve
<1>3. today \in Nat
  BY <1>0, LedgerAssumption DEF LedgerTypeOK
<1>4. CASE \E estimate \in Estimates :
             /\ status' = [status EXCEPT ![c] = "reserved"]
             /\ reserved' = [reserved EXCEPT ![c] = ReservedAmount(estimate, today)]
             /\ created' = [created EXCEPT ![c] = today]
             /\ Goto(c, "reserved")
  <2>1. LedgerTypeOK'
    BY <1>0, <1>1, <1>2, <1>3, <1>4, ReservedAmountType
    DEF LedgerTypeOK, Goto, PCs, Statuses
  <2>2. CallInv(c)'
    BY <1>0, <1>2, <1>4 DEF CallInv, OpenAt, SentAt, DeadAt, CountedAt, RecordedAt, OwnedAt,
       LedgerTypeOK, Goto, Terminal
  <2>3. ASSUME NEW d \in Calls, d # c PROVE CallInv(d)'
    BY <1>0, <1>1, <1>2, <1>4, <2>3, OtherCall DEF Goto, LedgerTypeOK
  <2> QED BY <2>1, <2>2, <2>3 DEF LedgerInv
<1>5. CASE Goto(c, "over") /\ UNCHANGED <<status, reserved, created>>
  <2>1. LedgerTypeOK'
    BY <1>0, <1>1, <1>2, <1>5 DEF LedgerTypeOK, Goto, PCs
  <2>2. CallInv(c)'
    BY <1>0, <1>2, <1>5 DEF CallInv, OpenAt, SentAt, DeadAt, CountedAt, RecordedAt, OwnedAt,
       LedgerTypeOK, Goto, Terminal
  <2>3. ASSUME NEW d \in Calls, d # c PROVE CallInv(d)'
    BY <1>0, <1>1, <1>2, <1>5, <2>3, OtherCall DEF Goto, LedgerTypeOK
  <2> QED BY <2>1, <2>2, <2>3 DEF LedgerInv
<1> QED BY <1>4, <1>5 DEF Reserve

(* The steps of a turn that do not account for the call.                   *)
LEMMA Protocol_Inv ==
  ASSUME LedgerInv, NEW c \in Calls,
         JournalReserved(c) \/ MarkDispatched(c) \/ Send(c) \/ CallEnds(c)
  PROVE  LedgerInv'
<1>0. /\ LedgerTypeOK /\ CallInv(c)
      /\ \A d \in Calls : CallInv(d)
  BY DEF LedgerInv
<1>1. UNCHANGED <<reserved, created, record, today, up, crashes>>
  BY DEF JournalReserved, MarkDispatched, Send, CallEnds, rowVars, envVars
<1>2. faults' \in 0..MaxFaults /\ faults' \in {faults, faults + 1}
  <2>1. CASE UNCHANGED faults
    BY <1>0, <2>1 DEF LedgerTypeOK
  <2>2. CASE Fault \/ NoFault
    BY <1>0, <2>2, FaultIsCounted
  <2> QED BY <2>1, <2>2 DEF JournalReserved, MarkDispatched, Send, CallEnds, envVars
<1>3. faults \in Nat
  BY <1>0, LedgerAssumption DEF LedgerTypeOK
<1>4. CASE JournalReserved(c)
  <2>1. LedgerTypeOK'
    BY <1>0, <1>1, <1>2, <1>4 DEF JournalReserved, rowVars, LedgerTypeOK, Goto, PCs
  <2>2. CallInv(c)'
    BY <1>0, <1>1, <1>3, <1>4 DEF JournalReserved, rowVars, CallInv, OpenAt, SentAt, DeadAt,
       CountedAt, RecordedAt, OwnedAt, LedgerTypeOK, Goto, Terminal, Fault, NoFault
  <2>3. ASSUME NEW d \in Calls, d # c PROVE CallInv(d)'
    BY <1>0, <1>1, <1>2, <1>4, <2>3, OtherCall DEF JournalReserved, rowVars, Goto, LedgerTypeOK
  <2> QED BY <2>1, <2>2, <2>3 DEF LedgerInv
<1>5. CASE MarkDispatched(c)
  <2>1. LedgerTypeOK'
    BY <1>0, <1>1, <1>2, <1>5 DEF MarkDispatched, LedgerTypeOK, Goto, PCs, Statuses
  <2>2. CallInv(c)'
    BY <1>0, <1>1, <1>3, <1>5 DEF MarkDispatched, CallInv, OpenAt, SentAt, DeadAt,
       CountedAt, RecordedAt, OwnedAt, LedgerTypeOK, Goto, Terminal, Fault, NoFault
  <2>3. ASSUME NEW d \in Calls, d # c PROVE CallInv(d)'
    BY <1>0, <1>1, <1>2, <1>5, <2>3, OtherCall DEF MarkDispatched, Goto, LedgerTypeOK
  <2> QED BY <2>1, <2>2, <2>3 DEF LedgerInv
<1>6. CASE Send(c)
  <2>1. LedgerTypeOK'
    BY <1>0, <1>1, <1>2, <1>6 DEF Send, rowVars, LedgerTypeOK, Goto, PCs
  <2>2. CallInv(c)'
    BY <1>0, <1>1, <1>3, <1>6 DEF Send, rowVars, envVars, CallInv, OpenAt, SentAt, DeadAt,
       CountedAt, RecordedAt, OwnedAt, LedgerTypeOK, Goto, Terminal
  <2>3. ASSUME NEW d \in Calls, d # c PROVE CallInv(d)'
    BY <1>0, <1>1, <1>2, <1>6, <2>3, OtherCall DEF Send, rowVars, Goto, LedgerTypeOK
  <2> QED BY <2>1, <2>2, <2>3 DEF LedgerInv
<1>7. CASE CallEnds(c)
  <2>1. usage' \in [Calls -> UsageType]
    BY <1>0, <1>7, LedgerAssumption DEF CallEnds, LedgerTypeOK
  <2>2. LedgerTypeOK'
    BY <1>0, <1>1, <1>2, <1>7, <2>1 DEF CallEnds, rowVars, LedgerTypeOK, Goto, PCs
  <2>3. CallInv(c)'
    BY <1>0, <1>1, <1>3, <1>7 DEF CallEnds, rowVars, envVars, CallInv, OpenAt, SentAt, DeadAt,
       CountedAt, RecordedAt, OwnedAt, LedgerTypeOK, Goto, Terminal
  <2>4. ASSUME NEW d \in Calls, d # c PROVE CallInv(d)'
    BY <1>0, <1>1, <1>2, <1>7, <2>4, OtherCall DEF CallEnds, rowVars, Goto, LedgerTypeOK
  <2> QED BY <2>2, <2>3, <2>4 DEF LedgerInv
<1> QED BY <1>4, <1>5, <1>6, <1>7

(* The steps that account for the call.  Each has the form stated here.    *)
Accounts(c) ==
  \/ /\ NoFault /\ Goto(c, "over") /\ refused[c] = FALSE
     /\ \E a \in Amounts : Account(c, "settled", a)
  \/ NoFault /\ Goto(c, "over") /\ Account(c, "uncertain", NoAmount)
  \/ NoFault /\ Goto(c, "over") /\ refused[c] /\ Account(c, "released", NoAmount)
  \/ /\ Fault /\ UNCHANGED <<status, record>>
     /\ (Goto(c, "failed") /\ pc[c] # "rejected") \/ Goto(c, "over")

LEMMA Accounting ==
  ASSUME LedgerInv, NEW c \in Calls, Settle(c) \/ MarkUncertain(c) \/ Release(c)
  PROVE  /\ Accounts(c)
         /\ pc[c] \in {"answered", "vague", "failed", "rejected"}
         /\ UNCHANGED <<reserved, created, usage, sent, refused, today, up, crashes>>
<1>0. LedgerTypeOK /\ CallInv(c)
  BY DEF LedgerInv
<1>1. CASE Settle(c)
  <2>1. ActualAmount(usage[c], created[c]) \in Amounts
    BY <1>0, ActualAmountType DEF LedgerTypeOK
  <2> QED BY <1>0, <1>1, <2>1 DEF Settle, Accounts, CallInv, SentAt, LedgerTypeOK
<1>2. CASE MarkUncertain(c)
  BY <1>2 DEF MarkUncertain, Accounts
<1>3. CASE Release(c)
  BY <1>0, <1>3 DEF Release, Accounts, CallInv, SentAt
<1> QED BY <1>1, <1>2, <1>3

LEMMA Accounting_Inv ==
  ASSUME LedgerInv, NEW c \in Calls, Settle(c) \/ MarkUncertain(c) \/ Release(c)
  PROVE  LedgerInv'
<1>0. /\ LedgerTypeOK /\ CallInv(c)
      /\ \A d \in Calls : CallInv(d)
  BY DEF LedgerInv
<1>1. /\ Accounts(c)
      /\ pc[c] \in {"answered", "vague", "failed", "rejected"}
      /\ UNCHANGED <<reserved, created, usage, sent, refused, today, up, crashes>>
  BY Accounting
<1>2. faults' \in 0..MaxFaults /\ faults' \in {faults, faults + 1}
  BY <1>0, <1>1, FaultIsCounted DEF Accounts
<1>3. faults \in Nat
  BY <1>0, LedgerAssumption DEF LedgerTypeOK
<1>4. LedgerTypeOK'
  <2>1. pc' \in [Calls -> PCs]
    BY <1>0, <1>1 DEF Accounts, LedgerTypeOK, Goto, PCs
  <2>2. \/ UNCHANGED <<status, record>>
        \/ \E o \in Terminal : \E a \in Amounts :
             /\ status' = [status EXCEPT ![c] = o]
             /\ record' = [record EXCEPT ![c] = [outcome |-> o, amount |-> a]]
    BY <1>1, NoAmountType DEF Accounts, Account, Terminal
  <2>3. /\ status' \in [Calls -> Statuses]
        /\ record' \in [Calls -> [outcome : Terminal \cup {"none"}, amount : Amounts]]
    <3>1. CASE UNCHANGED <<status, record>>
      BY <1>0, <3>1 DEF LedgerTypeOK
    <3>2. CASE \E o \in Terminal : \E a \in Amounts :
                 /\ status' = [status EXCEPT ![c] = o]
                 /\ record' = [record EXCEPT ![c] = [outcome |-> o, amount |-> a]]
      <4>1. PICK o \in Terminal, a \in Amounts :
              /\ status' = [status EXCEPT ![c] = o]
              /\ record' = [record EXCEPT ![c] = [outcome |-> o, amount |-> a]]
        BY <3>2
      <4>2. status' \in [Calls -> Statuses]
        BY <1>0, <4>1 DEF LedgerTypeOK, Statuses
      <4>3. [outcome |-> o, amount |-> a] \in [outcome : Terminal \cup {"none"}, amount : Amounts]
        OBVIOUS
      <4>4. record' \in [Calls -> [outcome : Terminal \cup {"none"}, amount : Amounts]]
        BY <1>0, <4>1, <4>3 DEF LedgerTypeOK
      <4> QED BY <4>2, <4>4
    <3> QED BY <2>2, <3>1, <3>2
  <2> QED BY <1>0, <1>1, <1>2, <2>1, <2>3 DEF LedgerTypeOK
<1>5. CallInv(c)'
  BY <1>0, <1>1, <1>3 DEF Accounts, Account, CallInv, OpenAt, SentAt, DeadAt,
     CountedAt, RecordedAt, OwnedAt, LedgerTypeOK, Goto, Terminal, Fault, NoFault
<1>6. ASSUME NEW d \in Calls, d # c PROVE CallInv(d)'
  BY <1>0, <1>1, <1>2, <1>6, OtherCall DEF Accounts, Account, Goto, LedgerTypeOK
<1> QED BY <1>4, <1>5, <1>6 DEF LedgerInv

-----------------------------------------------------------------------------
LEMMA Crash_Inv ==
  ASSUME LedgerInv, Crash
  PROVE  LedgerInv'
<1>0. LedgerTypeOK /\ crashes \in Nat /\ MaxCrashes \in Nat
  BY LedgerAssumption DEF LedgerInv, LedgerTypeOK
<1>1. LedgerTypeOK'
  <2>1. pc' \in [Calls -> PCs]
    BY <1>0 DEF Crash, LedgerTypeOK, PCs
  <2>2. crashes' \in 0..MaxCrashes
    BY <1>0 DEF Crash, LedgerTypeOK
  <2> QED BY <1>0, <2>1, <2>2 DEF Crash, rowVars, LedgerTypeOK
<1>2. ASSUME NEW d \in Calls PROVE CallInv(d)'
  BY <1>0, <1>2 DEF LedgerInv, Crash, rowVars, CallInv, OpenAt, SentAt, DeadAt,
     CountedAt, RecordedAt, OwnedAt, LedgerTypeOK, Terminal, PCs
<1> QED BY <1>1, <1>2 DEF LedgerInv

(* A recovery leaves no reservation open, and takes none for free that was *)
(* marked as dispatched.                                                   *)
LEMMA Recover_Inv ==
  ASSUME LedgerInv, Recover
  PROVE  LedgerInv'
<1>0. LedgerTypeOK /\ ~up /\ UNCHANGED <<reserved, created, record, pc, usage, sent, refused,
                                         today, crashes>>
  BY DEF LedgerInv, Recover
<1>1. faults' \in 0..MaxFaults /\ faults' \in {faults, faults + 1} /\ faults \in Nat
  BY <1>0, FaultIsCounted, LedgerAssumption DEF Recover, LedgerTypeOK
<1>2. CASE NoFault /\ up' = TRUE
            /\ status' = [c \in Calls |-> CASE status[c] = "reserved"   -> "released"
                                            [] status[c] = "dispatched" -> "uncertain"
                                            [] OTHER -> status[c]]
  <2>1. status' \in [Calls -> Statuses]
    BY <1>0, <1>2 DEF LedgerTypeOK, Statuses, Terminal
  <2>2. LedgerTypeOK'
    BY <1>0, <1>1, <1>2, <2>1 DEF LedgerTypeOK
  <2>3. ASSUME NEW d \in Calls PROVE CallInv(d)'
    <3>1. CallInv(d) /\ up'
      BY <1>2 DEF LedgerInv
    <3>2. status'[d] \in {"absent", "released", "uncertain", "settled"}
      BY <1>0, <1>2 DEF LedgerTypeOK, Statuses, Terminal
    <3>3. OpenAt(d)' /\ SentAt(d)' /\ DeadAt(d)' /\ OwnedAt(d)'
      BY <1>0, <1>2, <3>1, <3>2 DEF CallInv, OpenAt, SentAt, DeadAt, OwnedAt
    <3>4. CountedAt(d)'
      BY <1>0, <1>2, <3>1 DEF CallInv, CountedAt
    <3>5. RecordedAt(d)'
      BY <1>0, <1>1, <1>2, <3>1 DEF CallInv, OpenAt, DeadAt, RecordedAt, OwnedAt, Terminal,
         NoFault, LedgerTypeOK
    <3> QED BY <3>3, <3>4, <3>5 DEF CallInv
  <2> QED BY <2>2, <2>3 DEF LedgerInv
<1>3. CASE Fault /\ UNCHANGED <<status, up>>
  <2>1. LedgerTypeOK'
    BY <1>0, <1>1, <1>3 DEF LedgerTypeOK
  <2>2. ASSUME NEW d \in Calls PROVE CallInv(d)'
    BY <1>0, <1>1, <1>3, <2>2, OtherCall DEF LedgerInv
  <2> QED BY <2>1, <2>2 DEF LedgerInv
<1> QED BY <1>2, <1>3 DEF Recover

LEMMA Idle_Inv ==
  ASSUME LedgerInv, Tick \/ UNCHANGED ledgerVars
  PROVE  LedgerInv'
<1>0. LedgerTypeOK
  BY DEF LedgerInv
<1>1. UNCHANGED <<rowVars, pc, usage, sent, refused, up, faults, crashes>>
  BY DEF Tick, ledgerVars, envVars
<1>2. today' \in 0..LastDay
  BY <1>0, LedgerAssumption DEF Tick, ledgerVars, envVars, LedgerTypeOK
<1>3. LedgerTypeOK'
  BY <1>0, <1>1, <1>2 DEF rowVars, LedgerTypeOK
<1>4. ASSUME NEW d \in Calls PROVE CallInv(d)'
  BY <1>0, <1>1, <1>4, OtherCall DEF LedgerInv, rowVars
<1> QED BY <1>3, <1>4 DEF LedgerInv

-----------------------------------------------------------------------------
LEMMA LedgerInv_Init == LedgerInit => LedgerInv
<1> SUFFICES ASSUME LedgerInit PROVE LedgerInv
  OBVIOUS
<1>1. LedgerTypeOK
  BY LedgerAssumption, NoAmountType
  DEF LedgerInit, LedgerTypeOK, Statuses, PCs, NoRecord, UsageType
<1>2. ASSUME NEW c \in Calls PROVE CallInv(c)
  BY <1>2 DEF LedgerInit, CallInv, OpenAt, SentAt, DeadAt, CountedAt, RecordedAt, OwnedAt,
     NoRecord, Terminal
<1> QED BY <1>1, <1>2 DEF LedgerInv

LEMMA LedgerInv_Next == LedgerInv /\ [LedgerNext]_ledgerVars => LedgerInv'
<1> SUFFICES ASSUME LedgerInv, [LedgerNext]_ledgerVars PROVE LedgerInv'
  OBVIOUS
<1>1. ASSUME NEW c \in Calls, Reserve(c) PROVE LedgerInv'
  BY <1>1, Reserve_Inv
<1>2. ASSUME NEW c \in Calls, CallStep(c) PROVE LedgerInv'
  BY <1>2, Protocol_Inv, Accounting_Inv DEF CallStep
<1> QED
  BY <1>1, <1>2, Crash_Inv, Recover_Inv, Idle_Inv DEF LedgerNext

LEMMA LedgerInvHolds == LedgerSpec => []LedgerInv
BY LedgerInv_Init, LedgerInv_Next, PTL DEF LedgerSpec

(* The rows and the turns have their types.                                *)
THEOREM LedgerTypesAreKept == LedgerSpec => []LedgerTypeOK
<1>1. LedgerInv => LedgerTypeOK
  BY DEF LedgerInv
<1> QED BY <1>1, LedgerInvHolds, PTL

(* Whatever fails, dies and recovers in whatever order, a request that was *)
(* sent and may be billed counts against the caps: the order of            *)
(* markDispatched and the provider call, and the two updates of            *)
(* recoverInterrupted.                                                     *)
THEOREM SentRequestsAreCounted == LedgerSpec => []SentIsNeverFree
<1>1. LedgerInv => SentIsNeverFree
  BY DEF LedgerInv, CallInv, CountedAt, SentIsNeverFree
<1> QED BY <1>1, LedgerInvHolds, PTL

(* A reservation and its usage record agree.                               *)
THEOREM LedgerIsConsistent == LedgerSpec => []RecordMatchesStatus
<1>1. LedgerInv => RecordMatchesStatus
  BY DEF LedgerInv, CallInv, RecordedAt, RecordMatchesStatus
<1> QED BY <1>1, LedgerInvHolds, PTL

(* No reservation is left open by a turn that is over unless a storage     *)
(* call failed.                                                            *)
THEOREM ReservationsAreClosed == LedgerSpec => []OpenReservationHasOwner
<1>1. LedgerInv => OpenReservationHasOwner
  BY DEF LedgerInv, CallInv, OwnedAt, OpenReservationHasOwner
<1> QED BY <1>1, LedgerInvHolds, PTL

(* A terminal accounting state is final: settle, release and markUncertain *)
(* meet a dispatched reservation only, and the recovery an open one.       *)
THEOREM AccountingIsFinal == LedgerSpec => AccountedOnce
<1>1. LedgerInv /\ [LedgerNext]_ledgerVars =>
        [\A c \in Calls : status[c] \in Terminal => status'[c] = status[c]]_ledgerVars
  <2> SUFFICES ASSUME LedgerInv, LedgerNext, NEW d \in Calls, status[d] \in Terminal
               PROVE  status'[d] = status[d]
    OBVIOUS
  <2>0. LedgerTypeOK /\ CallInv(d)
    BY DEF LedgerInv
  <2>1. ASSUME NEW c \in Calls, Reserve(c) PROVE status'[d] = status[d]
    BY <2>0, <2>1 DEF Reserve, CallInv, OpenAt, LedgerTypeOK, Terminal
  <2>2. ASSUME NEW c \in Calls, JournalReserved(c) \/ MarkDispatched(c) \/ Send(c) \/ CallEnds(c)
        PROVE  status'[d] = status[d]
    BY <2>0, <2>2 DEF JournalReserved, MarkDispatched, Send, CallEnds, rowVars, LedgerTypeOK, Terminal
  <2>3. ASSUME NEW c \in Calls, Settle(c) \/ MarkUncertain(c) \/ Release(c)
        PROVE  status'[d] = status[d]
    <3>1. Accounts(c) /\ pc[c] \in {"answered", "vague", "failed", "rejected"}
      BY <2>3, Accounting
    <3>2. CASE c = d
      BY <2>0, <3>1, <3>2 DEF CallInv, OpenAt, Terminal
    <3>3. CASE c # d
      BY <2>0, <3>1, <3>3 DEF Accounts, Account, LedgerTypeOK
    <3> QED BY <3>2, <3>3
  <2>4. CASE Crash \/ Tick
    BY <2>4 DEF Crash, Tick, rowVars
  <2>5. CASE Recover
    BY <2>0, <2>5 DEF Recover, Terminal
  <2> QED BY <2>1, <2>2, <2>3, <2>4, <2>5 DEF LedgerNext, CallStep
<1> QED BY <1>1, LedgerInvHolds, PTL DEF LedgerSpec, AccountedOnce
-----------------------------------------------------------------------------
(* Totals over finite sets.  Total is a recursive function on the subsets  *)
(* of a set; what holds of it is shown on a smallest counterexample.       *)

(* Every non-empty family of subsets of a finite set has a minimal one.    *)
LEMMA SmallestSubset ==
  ASSUME NEW S, IsFiniteSet(S), NEW F, F \subseteq SUBSET S, F # {}
  PROVE  \E T \in F : \A U \in F : U \subseteq T => U = T
<1>1. IsWellFoundedOn(StrictSubsetOrdering(S), FiniteSubsetsOf(S))
  BY FS_StrictSubsetOrderingWellFounded
<1>2. F \subseteq FiniteSubsetsOf(S)
  BY FS_FiniteSubsetsOfFinite
<1>3. PICK T \in F : \A U \in F : ~(<<U, T>> \in StrictSubsetOrdering(S))
  BY <1>1, <1>2, WFMin
<1> QED
  BY <1>3 DEF StrictSubsetOrdering

(* What defines the function, for the subsets of S.                        *)
Picked(s) == CHOOSE x \in s : TRUE
Sums(f, S, g) ==
  g = [s \in SUBSET S |-> IF s = {} THEN 0 ELSE f[Picked(s)] + g[s \ {Picked(s)}]]

LEMMA TotalDef == \A f, S : Total(f, S) = (CHOOSE g : Sums(f, S, g))[S]
BY DEF Total, MapThenSumSet, MapThenFoldSet, Sums, Picked

(* On the sets that two of them are defined for, they agree.               *)
LEMMA SumsAgree ==
  ASSUME NEW f, NEW S, NEW T, IsFiniteSet(S), IsFiniteSet(T),
         NEW g, Sums(f, S, g), NEW h, Sums(f, T, h), NEW s, s \subseteq S, s \subseteq T
  PROVE  g[s] = h[s]
<1> DEFINE F == {u \in SUBSET s : g[u] # h[u]}
<1>1. IsFiniteSet(s)
  BY FS_Subset
<1>2. ASSUME F # {} PROVE FALSE
  <2>1. PICK u \in F : \A v \in F : v \subseteq u => v = u
    <3>1. F \subseteq SUBSET s
      OBVIOUS
    <3> HIDE DEF F
    <3> QED
      BY <1>1, <1>2, <3>1, SmallestSubset
  <2>2. u \subseteq S /\ u \subseteq T /\ u \subseteq s /\ g[u] # h[u]
    BY <2>1
  <2>3. /\ g[u] = IF u = {} THEN 0 ELSE f[Picked(u)] + g[u \ {Picked(u)}]
        /\ h[u] = IF u = {} THEN 0 ELSE f[Picked(u)] + h[u \ {Picked(u)}]
    BY <2>2 DEF Sums
  <2>4. CASE u # {}
    <3>1. Picked(u) \in u
      BY <2>4 DEF Picked
    <3>2. u \ {Picked(u)} \notin F
      BY <2>1, <3>1
    <3> QED
      BY <2>2, <2>3, <2>4, <3>2
  <2> QED
    BY <2>2, <2>3, <2>4
<1> QED
  BY <1>2

LEMMA SumsExist ==
  ASSUME NEW f, NEW S, IsFiniteSet(S)
  PROVE  Sums(f, S, CHOOSE g : Sums(f, S, g))
<1> DEFINE C(s) == CHOOSE g : Sums(f, s, g)
           V(s) == C(s)[s]
           F == {s \in SUBSET S : ~ Sums(f, s, C(s))}
<1>1. ASSUME F # {} PROVE FALSE
  <2>1. PICK T \in F : \A v \in F : v \subseteq T => v = T
    <3>1. F \subseteq SUBSET S
      OBVIOUS
    <3> HIDE DEF F
    <3> QED
      BY <1>1, <3>1, SmallestSubset
  <2>2. T \subseteq S /\ IsFiniteSet(T) /\ ~ Sums(f, T, C(T))
    BY <2>1, FS_Subset
  <2>3. \A s \in SUBSET T : s # T => Sums(f, s, C(s)) /\ IsFiniteSet(s)
    BY <2>1, <2>2, FS_Subset
  <2> DEFINE rhs(s) == IF s = {} THEN 0 ELSE f[Picked(s)] + V(s \ {Picked(s)})
             g == [s \in SUBSET T |-> rhs(s)]
  <2>4. \A s \in SUBSET T : s # T => V(s) = rhs(s)
    <3> SUFFICES ASSUME NEW s \in SUBSET T, s # T PROVE V(s) = rhs(s)
      OBVIOUS
    <3>1. Sums(f, s, C(s)) /\ IsFiniteSet(s)
      BY <2>3
    <3>2. V(s) = IF s = {} THEN 0 ELSE f[Picked(s)] + C(s)[s \ {Picked(s)}]
      BY <3>1 DEF Sums
    <3>3. CASE s # {}
      <4> DEFINE t == s \ {Picked(s)}
      <4>1. t \subseteq s /\ t \in SUBSET T /\ t # T
        OBVIOUS
      <4>2. Sums(f, t, C(t)) /\ IsFiniteSet(t)
        BY <2>3, <4>1
      <4>3. C(s)[t] = C(t)[t]
        BY <3>1, <4>1, <4>2, SumsAgree
      <4> QED
        BY <3>2, <3>3, <4>3
    <3> QED
      BY <3>2, <3>3
  <2>5. \A s \in SUBSET T : s # {} => (s \ {Picked(s)}) \in SUBSET T /\ s \ {Picked(s)} # T
    BY DEF Picked
  <2>6. \A s \in SUBSET T : s # {} => g[s \ {Picked(s)}] = V(s \ {Picked(s)})
    <3> HIDE DEF V, rhs
    <3> QED
      BY <2>4, <2>5
  <2>7. Sums(f, T, g)
    <3> HIDE DEF V
    <3>1. \A s \in SUBSET T : rhs(s) = IF s = {} THEN 0 ELSE f[Picked(s)] + g[s \ {Picked(s)}]
      BY <2>6
    <3> QED
      BY <3>1 DEF Sums
  <2> HIDE DEF g
  <2> QED
    BY <2>2, <2>7
<1> QED
  BY <1>1

LEMMA TotalOfNone == \A f : Total(f, {}) = 0
<1> SUFFICES ASSUME NEW f PROVE Total(f, {}) = 0
  OBVIOUS
<1>1. Sums(f, {}, CHOOSE g : Sums(f, {}, g))
  BY SumsExist, FS_EmptySet
<1>2. (CHOOSE g : Sums(f, {}, g))[{}] = 0
  BY <1>1 DEF Sums
<1> QED
  BY <1>2, TotalDef

(* A total is that of all but one and the one that is picked.              *)
LEMMA TotalIs ==
  ASSUME NEW f, NEW S, IsFiniteSet(S), S # {}
  PROVE  Total(f, S) = f[Picked(S)] + Total(f, S \ {Picked(S)})
<1> DEFINE T == S \ {Picked(S)}
           C(s) == CHOOSE g : Sums(f, s, g)
<1>1. Sums(f, S, C(S)) /\ Sums(f, T, C(T)) /\ IsFiniteSet(T)
  BY SumsExist, FS_Subset
<1>2. C(S)[S] = f[Picked(S)] + C(S)[T]
  BY <1>1 DEF Sums
<1>3. C(S)[T] = C(T)[T]
  <2>1. T \subseteq S
    OBVIOUS
  <2> HIDE DEF C, T
  <2> QED
    BY <1>1, <2>1, SumsAgree
<1> QED
  BY <1>2, <1>3, TotalDef

LEMMA TotalType ==
  ASSUME NEW D, NEW f \in [D -> Nat], NEW S, S \subseteq D, IsFiniteSet(S)
  PROVE  Total(f, S) \in Nat
<1> DEFINE F == {s \in SUBSET S : Total(f, s) \notin Nat}
<1>1. ASSUME F # {} PROVE FALSE
  <2>1. PICK s \in F : \A v \in F : v \subseteq s => v = s
    <3>1. F \subseteq SUBSET S
      OBVIOUS
    <3> HIDE DEF F
    <3> QED
      BY <1>1, <3>1, SmallestSubset
  <2>2. IsFiniteSet(s) /\ s \subseteq D
    BY FS_Subset
  <2>3. CASE s = {}
    BY <2>3, TotalOfNone
  <2>4. CASE s # {}
    <3>1. Picked(s) \in s
      BY <2>4 DEF Picked
    <3>2. Total(f, s \ {Picked(s)}) \in Nat
      BY <2>1, <3>1
    <3>3. f[Picked(s)] \in Nat
      BY <2>2, <3>1
    <3> QED
      BY <2>2, <2>4, <3>2, <3>3, TotalIs
  <2> QED
    BY <2>3, <2>4
<1> QED
  BY <1>1

(* The order of the picks does not matter.                                 *)
LEMMA TotalWithout ==
  ASSUME NEW D, NEW f \in [D -> Nat], NEW S, S \subseteq D, IsFiniteSet(S), NEW x \in S
  PROVE  Total(f, S) = f[x] + Total(f, S \ {x})
<1> DEFINE F == {s \in SUBSET S : \E y \in s : Total(f, s) # f[y] + Total(f, s \ {y})}
<1>1. ASSUME F # {} PROVE FALSE
  <2>1. PICK s \in F : \A v \in F : v \subseteq s => v = s
    <3>1. F \subseteq SUBSET S
      OBVIOUS
    <3> HIDE DEF F
    <3> QED
      BY <1>1, <3>1, SmallestSubset
  <2>2. s \subseteq S /\ IsFiniteSet(s) /\ s \subseteq D
    BY <2>1, FS_Subset
  <2>3. PICK y \in s : Total(f, s) # f[y] + Total(f, s \ {y})
    BY <2>1
  <2> DEFINE z == Picked(s)
             r == s \ {z}
  <2>4. z \in s /\ Total(f, s) = f[z] + Total(f, r)
    BY <2>2, <2>3, TotalIs DEF Picked
  <2>5. y # z
    BY <2>3, <2>4
  <2> HIDE DEF z
  <2>6. r \notin F /\ r \in SUBSET S /\ y \in r
    BY <2>1, <2>2, <2>4, <2>5
  <2>7. Total(f, r) = f[y] + Total(f, r \ {y})
    BY <2>6
  <2>8. s \ {y} \notin F /\ s \ {y} \in SUBSET S /\ z \in s \ {y}
    BY <2>1, <2>2, <2>3, <2>4, <2>5
  <2>9. Total(f, s \ {y}) = f[z] + Total(f, (s \ {y}) \ {z})
    BY <2>8
  <2>10. (s \ {y}) \ {z} = r \ {y} /\ IsFiniteSet(r \ {y}) /\ r \ {y} \subseteq D
    BY <2>2, FS_Subset
  <2>11. Total(f, r \ {y}) \in Nat
    BY <2>10, TotalType
  <2>12. f[y] \in Nat /\ f[z] \in Nat
    BY <2>2, <2>3, <2>4
  <2> QED
    BY <2>3, <2>4, <2>7, <2>9, <2>10, <2>11, <2>12
<1> QED
  BY <1>1

(* What is covered by two totals together is not more than their sum.      *)
LEMMA TotalIsCovered ==
  ASSUME NEW D, NEW S, S \subseteq D, IsFiniteSet(S), NEW A, A \subseteq S, NEW B, B \subseteq S,
         NEW f \in [D -> Nat], NEW g \in [D -> Nat], NEW h \in [D -> Nat],
         \A c \in S : f[c] <= (IF c \in A THEN g[c] ELSE 0) + (IF c \in B THEN h[c] ELSE 0)
  PROVE  Total(f, S) <= Total(g, A) + Total(h, B)
<1> DEFINE F == {s \in SUBSET S : ~ (Total(f, s) <= Total(g, A \cap s) + Total(h, B \cap s))}
<1>1. ASSUME F # {} PROVE FALSE
  <2>1. PICK s \in F : \A v \in F : v \subseteq s => v = s
    <3>1. F \subseteq SUBSET S
      OBVIOUS
    <3> HIDE DEF F
    <3> QED
      BY <1>1, <3>1, SmallestSubset
  <2>2. s \subseteq S /\ IsFiniteSet(s) /\ s \subseteq D
    BY <2>1, FS_Subset
  <2>3. CASE s = {}
    <3>1. A \cap s = {} /\ B \cap s = {}
      BY <2>3
    <3> QED
      BY <2>1, <2>3, <3>1, TotalOfNone
  <2>4. CASE s # {}
    <3>1. PICK x \in s : TRUE
      BY <2>4
    <3> DEFINE r == s \ {x}
    <3>2. r \in SUBSET S /\ r \notin F
      BY <2>1, <2>2, <3>1
    <3>3. Total(f, r) <= Total(g, A \cap r) + Total(h, B \cap r)
      BY <3>2
    <3>4. Total(f, s) = f[x] + Total(f, r)
      BY <2>2, <3>1, TotalWithout
    <3>5. Total(g, A \cap s) = (IF x \in A THEN g[x] ELSE 0) + Total(g, A \cap r)
      <4>1. IsFiniteSet(A \cap s) /\ A \cap s \subseteq D
        BY <2>2, FS_Subset
      <4>2. CASE x \in A
        <5>1. (A \cap s) \ {x} = A \cap r /\ x \in A \cap s
          BY <4>2
        <5> QED
          BY <4>1, <4>2, <5>1, TotalWithout
      <4>3. CASE x \notin A
        <5>1. A \cap s = A \cap r
          BY <4>3
        <5>2. Total(g, A \cap s) \in Nat
          BY <4>1, TotalType
        <5> QED
          BY <4>3, <5>1, <5>2
      <4> QED
        BY <4>2, <4>3
    <3>6. Total(h, B \cap s) = (IF x \in B THEN h[x] ELSE 0) + Total(h, B \cap r)
      <4>1. IsFiniteSet(B \cap s) /\ B \cap s \subseteq D
        BY <2>2, FS_Subset
      <4>2. CASE x \in B
        <5>1. (B \cap s) \ {x} = B \cap r /\ x \in B \cap s
          BY <4>2
        <5> QED
          BY <4>1, <4>2, <5>1, TotalWithout
      <4>3. CASE x \notin B
        <5>1. B \cap s = B \cap r
          BY <4>3
        <5>2. Total(h, B \cap s) \in Nat
          BY <4>1, TotalType
        <5> QED
          BY <4>3, <5>1, <5>2
      <4> QED
        BY <4>2, <4>3
    <3>7. /\ Total(f, r) \in Nat /\ Total(g, A \cap r) \in Nat /\ Total(h, B \cap r) \in Nat
      <4>1. /\ IsFiniteSet(r) /\ IsFiniteSet(A \cap r) /\ IsFiniteSet(B \cap r)
            /\ r \subseteq D /\ A \cap r \subseteq D /\ B \cap r \subseteq D
        BY <2>2, FS_Subset
      <4> QED
        BY <4>1, TotalType
    <3>8. /\ f[x] \in Nat /\ g[x] \in Nat /\ h[x] \in Nat
          /\ f[x] <= (IF x \in A THEN g[x] ELSE 0) + (IF x \in B THEN h[x] ELSE 0)
      BY <2>2, <3>1
    <3>9. ~ (Total(f, s) <= Total(g, A \cap s) + Total(h, B \cap s))
      BY <2>1
    <3> HIDE DEF r
    <3> QED
      BY <3>3, <3>4, <3>5, <3>6, <3>7, <3>8, <3>9
  <2> QED
    BY <2>3, <2>4
<1>2. S \notin F /\ A \cap S = A /\ B \cap S = B
  BY <1>1
<1> QED
  BY <1>2

-----------------------------------------------------------------------------
(* The caps.  What a call commits of a unit is a natural number.           *)
Units == {"tokens", "cost"}
CommittedOf(u) == [c \in Calls |-> Committed(c, u)]

CapInv ==
  /\ LedgerInv
  /\ \A c \in Calls : /\ status[c] # "absent" => created[c] <= today
                      /\ status[c] = "settled" => record[c].outcome = "settled"
  /\ ReservedWithinCap

LEMMA CommittedType ==
  ASSUME LedgerTypeOK, NEW u \in Units, NEW c \in Calls
  PROVE  /\ reserved[c][u] \in Nat /\ record[c].amount[u] \in Nat /\ Committed(c, u) \in Nat
         /\ Committed(c, u) <= reserved[c][u]
<1>1. reserved[c][u] \in Nat /\ record[c].amount[u] \in Nat
  BY DEF LedgerTypeOK, Amounts, Units
<1> QED
  BY <1>1 DEF Committed

LEMMA ScopeIsFinite ==
  ASSUME NEW p, NEW d
  PROVE  InScope(p, d) \subseteq Calls /\ IsFiniteSet(InScope(p, d))
BY FS_Subset, LedgerAssumption DEF InScope

(* No cap is exceeded by a step that reserves nothing and commits no call  *)
(* to more.                                                                *)
LEMMA CommitsLess ==
  ASSUME CapInv, LedgerTypeOK', UNCHANGED <<created, today>>,
         \A c \in Calls : status[c] = "absent" <=> status'[c] = "absent",
         \A c \in Calls, u \in Units : Committed(c, u)' <= Committed(c, u)
  PROVE  ReservedWithinCap'
<1> SUFFICES ASSUME NEW p \in Policies, NEW d \in 0 .. today
             PROVE  Total(CommittedOf(p.unit)', InScope(p, d)') <= p.max
  BY DEF ReservedWithinCap, CommittedOf
<1> DEFINE f == CommittedOf(p.unit)'
           g == CommittedOf(p.unit)
           S == InScope(p, d)
<1>1. p.unit \in Units /\ p.max \in Nat
  BY LedgerAssumption DEF PolicyType, Units
<1>2. f \in [Calls -> Nat] /\ g \in [Calls -> Nat]
  <2>1. \A c \in Calls : Committed(c, p.unit) \in Nat
    BY <1>1, CommittedType DEF CapInv, LedgerInv
  <2>2. \A c \in Calls : Committed(c, p.unit)' \in Nat
    <3> SUFFICES ASSUME NEW c \in Calls PROVE Committed(c, p.unit)' \in Nat
      OBVIOUS
    <3>1. reserved'[c][p.unit] \in Nat /\ record'[c].amount[p.unit] \in Nat
      BY <1>1 DEF LedgerTypeOK, Amounts, Units
    <3> QED
      BY <3>1 DEF Committed
  <2> QED
    BY <2>1, <2>2 DEF CommittedOf
<1>3. InScope(p, d)' = S
  BY DEF InScope
<1>4. S \subseteq Calls /\ IsFiniteSet(S)
  BY ScopeIsFinite
<1>5. \A c \in S : f[c] <= g[c]
  BY <1>1, <1>4 DEF CommittedOf
<1>6. Total(g, S) <= p.max
  BY DEF CapInv, ReservedWithinCap, CommittedOf
<1>7. Total(f, S) \in Nat /\ Total(g, S) \in Nat
  BY <1>2, <1>4, TotalType
<1> HIDE DEF f, g, S
<1>8. \A c \in S : f[c] <= (IF c \in S THEN g[c] ELSE 0) + (IF c \in {} THEN g[c] ELSE 0)
  BY <1>2, <1>4, <1>5
<1>9. Total(f, S) <= Total(g, S) + Total(g, {})
  BY <1>2, <1>4, <1>8, TotalIsCovered
<1> QED
  BY <1>1, <1>3, <1>6, <1>7, <1>9, TotalOfNone DEF f

(* The days of a window are those of each of them.                         *)
LEMMA WindowsAreDisjoint ==
  ASSUME NEW p, NEW d \in Nat, NEW e \in Nat, SameWindow(p, d, e)
  PROVE  \A x \in Nat : SameWindow(p, d, x) <=> SameWindow(p, e, x)
BY DEF SameWindow

(* A new day is in the window of the day before, or nothing was reserved   *)
(* in its window.                                                          *)
LEMMA NewDay ==
  ASSUME NEW p, NEW d \in Nat, NEW e \in Nat, e <= d, SameWindow(p, d + 1, e)
  PROVE  SameWindow(p, d + 1, d)
<1>1. CASE p.window = "day"
  BY <1>1 DEF SameWindow
<1>2. CASE p.window # "day"
  <2>1. DaysPerMonth \in Nat \ {0}
    BY LedgerAssumption
  <2>2. \A a, b \in Nat, m \in Nat \ {0} : a <= b => a \div m <= b \div m
    OBVIOUS
  <2>3. /\ e \div DaysPerMonth <= d \div DaysPerMonth
        /\ d \div DaysPerMonth <= (d + 1) \div DaysPerMonth
    BY <2>1, <2>2
  <2>4. /\ e \div DaysPerMonth \in Nat /\ d \div DaysPerMonth \in Nat
        /\ (d + 1) \div DaysPerMonth \in Nat
    BY <2>1
  <2> QED
    BY <1>2, <2>3, <2>4 DEF SameWindow
<1> QED
  BY <1>1, <1>2

LEMMA CapInv_Init ==
  ASSUME LedgerInit
  PROVE  CapInv
<1>1. LedgerInv
  BY LedgerInv_Init
<1>2. \A p, d : InScope(p, d) = {}
  BY DEF LedgerInit, InScope
<1>3. \A p \in Policies : 0 <= p.max
  BY LedgerAssumption DEF PolicyType
<1>4. ReservedWithinCap
  <2> SUFFICES ASSUME NEW p \in Policies, NEW d \in 0 .. today
               PROVE  Total([c \in Calls |-> Committed(c, p.unit)], InScope(p, d)) <= p.max
    BY DEF ReservedWithinCap
  <2> QED
    BY <1>2, <1>3, TotalOfNone
<1> QED
  BY <1>1, <1>4 DEF CapInv, LedgerInit

(* A reservation that is made leaves the total of every window within its  *)
(* cap: what is committed is held or settled, which is what was added up.  *)
LEMMA ReservedIsCovered ==
  ASSUME CapInv, NEW u \in Units, NEW p \in Policies, p.unit = u,
         NEW f \in [Calls -> Nat], \A x \in InScope(p, today) : f[x] = Committed(x, u)
  PROVE  /\ Total(f, InScope(p, today)) <= Held(p, today) + Settled(p, today)
         /\ Held(p, today) \in Nat /\ Settled(p, today) \in Nat
<1> DEFINE S == InScope(p, today)
           A == {x \in S : status[x] \in {"reserved", "dispatched", "uncertain"}}
           B == {x \in S : record[x].outcome = "settled"}
           g == [x \in Calls |-> reserved[x][u]]
           h == [x \in Calls |-> record[x].amount[u]]
<1>1. Held(p, today) = Total(g, A) /\ Settled(p, today) = Total(h, B)
  BY DEF Held, Settled
<1>2. LedgerTypeOK
  BY DEF CapInv, LedgerInv
<1>3. g \in [Calls -> Nat] /\ h \in [Calls -> Nat]
  BY <1>2, CommittedType
<1>4. S \subseteq Calls /\ IsFiniteSet(S)
  BY ScopeIsFinite
<1>5. A \subseteq S /\ B \subseteq S /\ IsFiniteSet(A) /\ IsFiniteSet(B)
  BY <1>4, FS_Subset
<1>6. \A x \in S : f[x] <= (IF x \in A THEN g[x] ELSE 0) + (IF x \in B THEN h[x] ELSE 0)
  <2> SUFFICES ASSUME NEW x \in S
               PROVE  f[x] <= (IF x \in A THEN g[x] ELSE 0) + (IF x \in B THEN h[x] ELSE 0)
    OBVIOUS
  <2>1. x \in Calls /\ f[x] = Committed(x, u)
    BY <1>4
  <2>2. reserved[x][u] \in Nat /\ record[x].amount[u] \in Nat /\ status[x] \in Statuses
    BY <1>2, <2>1, CommittedType DEF LedgerTypeOK
  <2>3. status[x] = "settled" => x \in B
    BY <2>1 DEF CapInv
  <2> HIDE DEF B, S
  <2> QED
    BY <2>1, <2>2, <2>3 DEF Committed, Statuses, Terminal
<1>7. Total(g, A) \in Nat /\ Total(h, B) \in Nat
  BY <1>3, <1>4, <1>5, TotalType
<1> HIDE DEF A, B, g, h, S
<1>8. Total(f, S) <= Total(g, A) + Total(h, B)
  BY <1>3, <1>4, <1>5, <1>6, TotalIsCovered
<1> QED
  BY <1>1, <1>7, <1>8 DEF S

LEMMA TotalIsMonotone ==
  ASSUME NEW D, NEW S, S \subseteq D, IsFiniteSet(S),
         NEW f \in [D -> Nat], NEW g \in [D -> Nat], \A x \in S : f[x] <= g[x]
  PROVE  Total(f, S) <= Total(g, S)
<1>1. \A x \in S : f[x] <= (IF x \in S THEN g[x] ELSE 0) + (IF x \in {} THEN g[x] ELSE 0)
  <2> SUFFICES ASSUME NEW x \in S PROVE f[x] <= g[x] + 0
    OBVIOUS
  <2>1. f[x] \in Nat /\ g[x] \in Nat /\ f[x] <= g[x]
    OBVIOUS
  <2> QED
    BY <2>1
<1>2. Total(f, S) <= Total(g, S) + Total(g, {})
  BY <1>1, TotalIsCovered
<1>3. Total(f, S) \in Nat /\ Total(g, S) \in Nat
  BY TotalType
<1> QED
  BY <1>2, <1>3, TotalOfNone

LEMMA Reserve_Cap ==
  ASSUME CapInv, NEW c \in Calls, Reserve(c)
  PROVE  CapInv'
<1>0. LedgerInv' /\ LedgerTypeOK' /\ LedgerInv /\ LedgerTypeOK
  BY Reserve_Inv DEF CapInv, LedgerInv
<1>1. /\ UNCHANGED <<record, today>> /\ status[c] = "absent"
      /\ today \in Nat /\ today \in 0 .. LastDay
  BY <1>0, LedgerAssumption DEF Reserve, LedgerInv, LedgerTypeOK, CallInv, OpenAt
<1>2. CASE UNCHANGED <<status, reserved, created>>
  <2>1. ReservedWithinCap'
    BY <1>1, <1>2 DEF CapInv, ReservedWithinCap, InScope, Committed
  <2> QED
    BY <1>0, <1>1, <1>2, <2>1 DEF CapInv
<1>3. ASSUME NEW estimate \in Estimates,
             Allowed(c, ReservedAmount(estimate, today)),
             status' = [status EXCEPT ![c] = "reserved"],
             reserved' = [reserved EXCEPT ![c] = ReservedAmount(estimate, today)],
             created' = [created EXCEPT ![c] = today]
      PROVE  CapInv'
  <2> DEFINE amount == ReservedAmount(estimate, today)
  <2>1. amount \in Amounts
    BY <1>1, ReservedAmountType
  <2>2. \A x \in Calls : /\ status'[x] = IF x = c THEN "reserved" ELSE status[x]
                         /\ reserved'[x] = IF x = c THEN amount ELSE reserved[x]
                         /\ created'[x] = IF x = c THEN today ELSE created[x]
                         /\ created[x] \in Nat
    BY <1>0, <1>3 DEF LedgerTypeOK
  <2>3. \A x \in Calls : /\ status'[x] # "absent" => created'[x] <= today'
                         /\ status'[x] = "settled" => record'[x].outcome = "settled"
    BY <1>1, <2>2 DEF CapInv
  <2> HIDE DEF amount
  <2>4. ASSUME NEW p \in Policies, NEW d \in 0 .. today
        PROVE  Total(CommittedOf(p.unit)', InScope(p, d)') <= p.max
    <3> DEFINE u == p.unit
               f == CommittedOf(u)'
               g == CommittedOf(u)
               S == InScope(p, d)
    <3>1. u \in Units /\ p.max \in Nat
      BY LedgerAssumption DEF PolicyType, Units
    <3>2. \A x \in Calls : Committed(x, u)' = IF x = c THEN amount[u] ELSE Committed(x, u)
      BY <1>1, <2>2 DEF Committed
    <3>3. amount[u] \in Nat
      BY <2>1, <3>1 DEF Amounts, Units
    <3>4. f \in [Calls -> Nat] /\ g \in [Calls -> Nat]
      <4>1. \A x \in Calls : Committed(x, u) \in Nat
        BY <1>0, <3>1, CommittedType
      <4>2. \A x \in Calls : Committed(x, u)' \in Nat
        BY <3>2, <3>3, <4>1
      <4> QED
        BY <4>1, <4>2 DEF CommittedOf
    <3>5. \A x \in Calls : f[x] = IF x = c THEN amount[u] ELSE g[x]
      BY <3>2 DEF CommittedOf
    <3>6. S \subseteq Calls /\ IsFiniteSet(S) /\ c \notin S
      BY <1>1, ScopeIsFinite DEF InScope
    <3>7. InScope(p, d)' =
            IF AgentOf[c] \in p.agents /\ SameWindow(p, d, today) THEN S \cup {c} ELSE S
      BY <1>1, <2>2 DEF InScope, SameWindow
    <3>8. Total(g, S) <= p.max
      BY DEF CapInv, ReservedWithinCap, CommittedOf
    <3>9. CASE AgentOf[c] \in p.agents /\ SameWindow(p, d, today)
      <4>1. S = InScope(p, today)
        <5>1. d \in Nat
          OBVIOUS
        <5>2. \A x \in Nat : SameWindow(p, d, x) <=> SameWindow(p, today, x)
          BY <1>1, <3>9, <5>1, WindowsAreDisjoint
        <5> QED
          BY <2>2, <5>2 DEF InScope
      <4>2. Held(p, today) + Settled(p, today) + amount[u] <= p.max
        BY <1>3, <3>9 DEF Allowed, Applicable, amount
      <4>3. \A x \in InScope(p, today) : f[x] = Committed(x, u)
        BY <3>2, <3>6, <4>1 DEF CommittedOf
      <4>4. /\ Total(f, S) <= Held(p, today) + Settled(p, today)
            /\ Held(p, today) \in Nat /\ Settled(p, today) \in Nat
        <5> HIDE DEF f
        <5> QED
          BY <3>1, <3>4, <4>1, <4>3, ReservedIsCovered
      <4>5. Total(f, S \cup {c}) = f[c] + Total(f, S)
        <5>1. /\ IsFiniteSet(S \cup {c}) /\ S \cup {c} \subseteq Calls
              /\ (S \cup {c}) \ {c} = S
          BY <3>6, FS_AddElement
        <5> HIDE DEF f, S
        <5> QED
          BY <3>4, <5>1, TotalWithout
      <4>6. f[c] = amount[u] /\ Total(f, S) \in Nat
        <5>1. f[c] = amount[u]
          BY <3>5
        <5> HIDE DEF f, S
        <5> QED
          BY <3>4, <3>6, <5>1, TotalType
      <4> HIDE DEF f, S, u
      <4>7. Total(f, S \cup {c}) <= p.max
        BY <3>1, <3>3, <4>2, <4>4, <4>5, <4>6
      <4> QED
        BY <3>7, <3>9, <4>7 DEF f, u
    <3>10. CASE ~ (AgentOf[c] \in p.agents /\ SameWindow(p, d, today))
      <4>1. \A x \in S : f[x] <= g[x]
        <5>1. \A x \in S : f[x] = g[x] /\ g[x] \in Nat
          BY <3>4, <3>5, <3>6
        <5> HIDE DEF f, g, S
        <5> QED
          BY <5>1
      <4> HIDE DEF f, g, S, u
      <4>2. Total(f, S) <= Total(g, S) /\ Total(f, S) \in Nat /\ Total(g, S) \in Nat
        BY <3>4, <3>6, <4>1, TotalIsMonotone, TotalType
      <4>3. Total(f, S) <= p.max
        BY <3>1, <3>8, <4>2
      <4> QED
        BY <3>7, <3>10, <4>3 DEF f, u
    <3> QED
      BY <3>9, <3>10
  <2>5. ReservedWithinCap'
    BY <1>1, <2>4 DEF ReservedWithinCap, CommittedOf
  <2> QED
    BY <1>0, <2>3, <2>5 DEF CapInv
<1> QED
  BY <1>2, <1>3 DEF Reserve

(* The steps of a turn after that, the recovery and a crash commit less.   *)
LEMMA Later_Cap ==
  ASSUME CapInv, NEW c \in Calls, CallStep(c)
  PROVE  CapInv'
<1>0. LedgerInv' /\ LedgerTypeOK' /\ LedgerInv /\ LedgerTypeOK /\ OpenAt(c) /\ RecordedAt(c)
  BY Protocol_Inv, Accounting_Inv DEF CapInv, LedgerInv, CallStep, CallInv
<1>1. UNCHANGED <<reserved, created, today>>
  BY DEF CallStep, JournalReserved, MarkDispatched, Send, CallEnds, Settle, MarkUncertain, Release,
     rowVars, envVars
<1>2. \A x \in Calls : x # c => status'[x] = status[x] /\ record'[x] = record[x]
  BY <1>0 DEF CallStep, JournalReserved, MarkDispatched, Send, CallEnds, Settle, MarkUncertain,
     Release, Account, rowVars, LedgerTypeOK
<1>3. \/ UNCHANGED <<status, record>>
      \/ status[c] = "reserved" /\ status'[c] = "dispatched" /\ UNCHANGED record
      \/ /\ status[c] = "dispatched"
         /\ status'[c] \in Terminal /\ record'[c].outcome = status'[c]
  <2>1. CASE JournalReserved(c) \/ Send(c) \/ CallEnds(c)
    BY <2>1 DEF JournalReserved, Send, CallEnds, rowVars
  <2>2. CASE MarkDispatched(c)
    BY <1>0, <2>2 DEF MarkDispatched, OpenAt, LedgerTypeOK
  <2>3. CASE Settle(c) \/ MarkUncertain(c) \/ Release(c)
    BY <1>0, <2>3 DEF Settle, MarkUncertain, Release, Account, OpenAt, LedgerTypeOK, Terminal
  <2> QED
    BY <2>1, <2>2, <2>3 DEF CallStep
<1>4. \A x \in Calls : /\ status[x] = "absent" <=> status'[x] = "absent"
                       /\ status'[x] = "settled" => record'[x].outcome = "settled"
  BY <1>2, <1>3 DEF CapInv, Terminal
<1>5. ASSUME NEW x \in Calls, NEW u \in Units
      PROVE  Committed(x, u)' <= Committed(x, u)
  <2>1. /\ reserved[x][u] \in Nat /\ record[x].amount[u] \in Nat
        /\ Committed(x, u) \in Nat
    BY <1>0, CommittedType
  <2>2. record'[x].amount[u] \in Nat
    BY <1>0 DEF LedgerTypeOK, Amounts, Units
  <2>3. CASE status'[x] = status[x] /\ record'[x] = record[x]
    BY <1>1, <2>1, <2>3 DEF Committed
  <2>4. CASE x = c /\ status[c] = "reserved" /\ status'[c] = "dispatched"
    BY <1>1, <2>1, <2>4 DEF Committed
  <2>5. CASE x = c /\ status[c] = "dispatched" /\ status'[c] \in Terminal
    BY <1>1, <2>1, <2>2, <2>5 DEF Committed, Terminal
  <2> QED
    BY <1>2, <1>3, <2>3, <2>4, <2>5
<1>6. ReservedWithinCap'
  BY <1>0, <1>1, <1>4, <1>5, CommitsLess
<1> QED
  BY <1>0, <1>1, <1>4, <1>6 DEF CapInv

LEMMA Process_Cap ==
  ASSUME CapInv, Crash \/ Recover
  PROVE  CapInv'
<1>0. LedgerInv' /\ LedgerTypeOK' /\ LedgerInv /\ LedgerTypeOK
  BY Crash_Inv, Recover_Inv DEF CapInv, LedgerInv
<1>1. UNCHANGED <<reserved, created, record, today>>
  BY DEF Crash, Recover, rowVars
<1>2. \A x \in Calls : \/ status'[x] = status[x]
                       \/ status[x] = "reserved" /\ status'[x] = "released"
                       \/ status[x] = "dispatched" /\ status'[x] = "uncertain"
  BY DEF Crash, Recover, rowVars
<1>3. \A x \in Calls : /\ status[x] = "absent" <=> status'[x] = "absent"
                       /\ status'[x] = "settled" => record'[x].outcome = "settled"
  BY <1>1, <1>2 DEF CapInv
<1>4. ASSUME NEW x \in Calls, NEW u \in Units
      PROVE  Committed(x, u)' <= Committed(x, u)
  <2>1. /\ reserved[x][u] \in Nat /\ record[x].amount[u] \in Nat
        /\ Committed(x, u) \in Nat
    BY <1>0, CommittedType
  <2> QED
    BY <1>1, <1>2, <2>1 DEF Committed
<1>5. ReservedWithinCap'
  BY <1>0, <1>1, <1>3, <1>4, CommitsLess
<1> QED
  BY <1>0, <1>1, <1>3, <1>5 DEF CapInv

LEMMA Tick_Cap ==
  ASSUME CapInv, Tick
  PROVE  CapInv'
<1>0. LedgerInv' /\ LedgerInv /\ LedgerTypeOK
  BY Idle_Inv DEF CapInv, LedgerInv
<1>1. /\ UNCHANGED <<status, reserved, created, record>>
      /\ today' = today + 1 /\ today \in Nat
  BY <1>0, LedgerAssumption DEF Tick, rowVars, LedgerTypeOK
<1>2. \A x \in Calls : created[x] \in Nat
  BY <1>0 DEF LedgerTypeOK
<1>3. \A p, d : InScope(p, d)' = InScope(p, d)
  BY <1>1 DEF InScope, SameWindow
<1>4. \A u : CommittedOf(u)' = CommittedOf(u)
  BY <1>1 DEF CommittedOf, Committed
<1>5. ASSUME NEW p \in Policies, NEW d \in 0 .. today + 1
      PROVE  Total(CommittedOf(p.unit), InScope(p, d)) <= p.max
  <2>1. CASE d \in 0 .. today
    BY <2>1 DEF CapInv, ReservedWithinCap, CommittedOf
  <2>2. CASE d = today + 1 /\ InScope(p, d) = {}
    <3>1. 0 <= p.max
      BY LedgerAssumption DEF PolicyType
    <3> QED
      BY <2>2, <3>1, TotalOfNone
  <2>3. CASE d = today + 1 /\ InScope(p, d) # {}
    <3>1. PICK x \in Calls : status[x] # "absent" /\ SameWindow(p, d, created[x])
      BY <2>3 DEF InScope
    <3>2. SameWindow(p, today + 1, today)
      BY <1>1, <1>2, <2>3, <3>1, NewDay DEF CapInv
    <3>3. \A e \in Nat : SameWindow(p, today + 1, e) <=> SameWindow(p, today, e)
      BY <1>1, <3>2, WindowsAreDisjoint
    <3>4. InScope(p, d) = InScope(p, today)
      BY <1>2, <2>3, <3>3 DEF InScope
    <3>5. today \in 0 .. today
      BY <1>1
    <3> QED
      BY <3>4, <3>5 DEF CapInv, ReservedWithinCap, CommittedOf
  <2> QED
    BY <1>1, <2>1, <2>2, <2>3
<1>6. ReservedWithinCap'
  BY <1>1, <1>3, <1>4, <1>5 DEF ReservedWithinCap, CommittedOf
<1>7. \A x \in Calls : status'[x] # "absent" => created'[x] <= today'
  BY <1>1, <1>2 DEF CapInv
<1> QED
  BY <1>0, <1>1, <1>6, <1>7 DEF CapInv

(* "Concurrent sessions cannot independently spend the same remaining cap  *)
(* headroom" (reserve() of usage-budget-gate.ts): in every window, the     *)
(* amounts that are reserved, and those that were spent of the reserved,   *)
(* stay within every cap, whatever the calls, policies and prices.         *)
THEOREM CapsHold == LedgerSpec => []ReservedWithinCap
<1>1. LedgerInit => CapInv
  BY CapInv_Init
<1>2. CapInv /\ [LedgerNext]_ledgerVars => CapInv'
  <2> SUFFICES ASSUME CapInv, [LedgerNext]_ledgerVars PROVE CapInv'
    OBVIOUS
  <2>1. ASSUME NEW c \in Calls, Reserve(c) PROVE CapInv'
    BY <2>1, Reserve_Cap
  <2>2. ASSUME NEW c \in Calls, CallStep(c) PROVE CapInv'
    BY <2>2, Later_Cap
  <2>3. CASE Crash \/ Recover
    BY <2>3, Process_Cap
  <2>4. CASE Tick
    BY <2>4, Tick_Cap
  <2>5. CASE UNCHANGED ledgerVars
    <3>1. LedgerInv'
      BY <2>5, Idle_Inv DEF CapInv
    <3>2. UNCHANGED <<status, reserved, created, record, today>>
      BY <2>5 DEF ledgerVars, rowVars, envVars
    <3>3. \A p, d, u : /\ InScope(p, d)' = InScope(p, d)
                       /\ CommittedOf(u)' = CommittedOf(u)
      BY <3>2 DEF InScope, SameWindow, CommittedOf, Committed
    <3>4. ReservedWithinCap'
      BY <3>2, <3>3 DEF CapInv, ReservedWithinCap, CommittedOf
    <3> QED
      BY <3>1, <3>2, <3>4 DEF CapInv
  <2> QED
    BY <2>1, <2>2, <2>3, <2>4, <2>5 DEF LedgerNext
<1> QED
  BY <1>1, <1>2, PTL DEF LedgerSpec, CapInv
===============================================================================
