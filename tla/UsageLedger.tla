----------------------------- MODULE UsageLedger -----------------------------
(***************************************************************************)
(* Usage accounting: the ledger of UsageBudgetGate                         *)
(* (src/src/usage/usage-budget-gate.ts) and the protocol by which a turn   *)
(* of an executor (src/src/agents/agent-runtime.ts) uses it around a model *)
(* call: reserve, mark dispatched, send, and then settle, release or mark  *)
(* uncertain.  Calls of different sessions interleave at every await, the  *)
(* day changes, storage calls fail, and the process dies and recovers.     *)
(*                                                                         *)
(* A ledger operation is one SQLite transaction and takes effect in the    *)
(* step that makes it.                                                     *)
(***************************************************************************)
EXTENDS Naturals, FiniteSetsExt

CONSTANTS
  Calls,         \* the model calls that may be made
  Agents,
  AgentOf,       \* the agent each call is for
  Policies,      \* the enabled cap policies: see PolicyType
  Estimates,     \* the token estimates a call may be reserved with
  Usages,        \* the usage a provider may report: see UsageType
  InPrice, OutPrice,  \* micros per Unit tokens
  Unit,          \* 1000000 in the code
  PriceFrom,     \* the day from which the price catalog has a price
  LastDay,       \* bound: the last day
  DaysPerMonth,  \* days 0..DaysPerMonth-1 are the first month
  MaxFaults,     \* bound: storage calls that may fail
  MaxCrashes     \* bound: times the process may die

(* A policy with both a token and a cost cap is two policies here; a cap   *)
(* of 0 is no cap in the code.                                             *)
PolicyType == [unit : {"tokens", "cost"}, max : Nat \ {0}, window : {"day", "month"},
               agents : SUBSET Agents]
UsageType  == [total : Nat, input : Nat, output : Nat]

ASSUME LedgerAssumption ==
  /\ IsFiniteSet(Calls)
  /\ AgentOf \in [Calls -> Agents]
  /\ Policies \subseteq PolicyType
  /\ Estimates \subseteq Nat
  /\ Usages \subseteq UsageType
  /\ InPrice \in Nat /\ OutPrice \in Nat /\ Unit \in Nat \ {0}
  /\ PriceFrom \in Nat /\ LastDay \in Nat /\ DaysPerMonth \in Nat \ {0}
  /\ MaxFaults \in Nat /\ MaxCrashes \in Nat

VARIABLES
  (* durable rows *)
  status,     \* status[c]: of the reservation of c
  reserved,   \* reserved[c]: its reserved_tokens and reserved_cost_micros
  created,    \* created[c]: the day of its created_at
  record,     \* record[c]: the usage record of the reservation
  (* volatile *)
  pc,         \* pc[c]: the turn that makes the call
  usage,      \* usage[c]: what the provider reported
  (* what really happened, kept for the properties *)
  sent,       \* sent[c]: the request went out
  refused,    \* refused[c]: the provider said it will not bill it
  (* environment *)
  today, up, faults, crashes

rowVars == <<status, reserved, created, record>>
envVars == <<today, up, faults, crashes>>
ledgerVars == <<rowVars, pc, usage, sent, refused, envVars>>

Terminal == {"settled", "released", "uncertain"}
Statuses == {"absent", "reserved", "dispatched"} \cup Terminal

(* pc[c]                                                                   *)
(*   idle       the turn has not reserved yet        gone  of a dead process *)
(*   reserved   it awaits the journal entry usage.reserved                 *)
(*   journalled it awaits markDispatched                                   *)
(*   marked     it awaits the journal entries before the call              *)
(*   calling    it awaits the provider                                     *)
(*   answered   the provider reported its usage, settle is next            *)
(*   vague      the answer came without usable usage, markUncertain is next*)
(*   rejected   an error that says nothing was billed, release is next     *)
(*   failed     any other error, a timeout included: markUncertain is next *)
(*   over       the turn has left the protocol                             *)
PCs == {"idle", "gone", "reserved", "journalled", "marked", "calling", "answered", "vague",
        "rejected", "failed", "over"}

NoAmount == [tokens |-> 0, cost |-> 0]
Amounts  == [tokens : Nat, cost : Nat]
NoRecord == [outcome |-> "none", amount |-> NoAmount]

LedgerTypeOK ==
  /\ status \in [Calls -> Statuses]
  /\ reserved \in [Calls -> Amounts]
  /\ created \in [Calls -> Nat]
  /\ record \in [Calls -> [outcome : Terminal \cup {"none"}, amount : Amounts]]
  /\ pc \in [Calls -> PCs]
  /\ usage \in [Calls -> UsageType]
  /\ sent \in [Calls -> BOOLEAN] /\ refused \in [Calls -> BOOLEAN]
  /\ today \in 0..LastDay /\ up \in BOOLEAN
  /\ faults \in 0..MaxFaults /\ crashes \in 0..MaxCrashes

LedgerInit ==
  /\ status = [c \in Calls |-> "absent"]
  /\ reserved = [c \in Calls |-> NoAmount]
  /\ created = [c \in Calls |-> 0]
  /\ record = [c \in Calls |-> NoRecord]
  /\ pc = [c \in Calls |-> "idle"]
  /\ usage = [c \in Calls |-> [total |-> 0, input |-> 0, output |-> 0]]
  /\ sent = [c \in Calls |-> FALSE] /\ refused = [c \in Calls |-> FALSE]
  /\ today = 0 /\ up = TRUE /\ faults = 0 /\ crashes = 0

-----------------------------------------------------------------------------
(* Amounts.  The divisions are those of bigint. *)
Priced(d) == PriceFrom <= d
ReservedAmount(estimate, d) ==
  [tokens |-> estimate,
   cost   |-> IF Priced(d) THEN (estimate * InPrice) \div Unit ELSE 0]
(* The cost of a call is derived with the price of the reservation's day.  *)
ActualAmount(u, d) ==
  [tokens |-> u.total,
   cost   |-> IF Priced(d)
                THEN (u.input * InPrice) \div Unit + (u.output * OutPrice) \div Unit ELSE 0]

(* The reservations a policy counts on day d: of its agents, created in    *)
(* the window of d.                                                        *)
SameWindow(p, d, e) ==
  IF p.window = "day" THEN d = e ELSE d \div DaysPerMonth = e \div DaysPerMonth
InScope(p, d) ==
  {c \in Calls : status[c] # "absent" /\ AgentOf[c] \in p.agents /\ SameWindow(p, d, created[c])}

Total(amount, S) == MapThenSumSet(LAMBDA c : amount[c], S)

(* Defect: an uncertain reservation no longer counts. *)
HeldForgettingUncertain(p, d) ==
  Total([c \in Calls |-> reserved[c][p.unit]],
        {c \in InScope(p, d) : status[c] \in {"reserved", "dispatched"}})

(* What reserve() adds up: reservations that are or may be spent, and      *)
(* settled usage.                                                          *)
Held(p, d) ==
  Total([c \in Calls |-> reserved[c][p.unit]],
        {c \in InScope(p, d) : status[c] \in {"reserved", "dispatched", "uncertain"}})
Settled(p, d) ==
  Total([c \in Calls |-> record[c].amount[p.unit]],
        {c \in InScope(p, d) : record[c].outcome = "settled"})

Fault   == faults < MaxFaults /\ faults' = faults + 1
NoFault == UNCHANGED faults
Goto(c, label) == pc' = [pc EXCEPT ![c] = label]

-----------------------------------------------------------------------------
(* reserve(): the check of every matching cap and the insert are one       *)
(* transaction.                                                            *)
Applicable(c) == {p \in Policies : AgentOf[c] \in p.agents}
Allowed(c, amount) ==
  \A p \in Applicable(c) :
    /\ p.unit = "cost" => Priced(today)
    /\ Held(p, today) + Settled(p, today) + amount[p.unit] <= p.max

Reserve(c) ==
  /\ up /\ pc[c] = "idle"
  /\ \E estimate \in Estimates :
       LET amount == ReservedAmount(estimate, today) IN
       \/ /\ Allowed(c, amount) /\ NoFault
          /\ status' = [status EXCEPT ![c] = "reserved"]
          /\ reserved' = [reserved EXCEPT ![c] = amount]
          /\ created' = [created EXCEPT ![c] = today]
          /\ Goto(c, "reserved")
       \/ /\ (~Allowed(c, amount) /\ NoFault) \/ Fault
          /\ Goto(c, "over") /\ UNCHANGED <<status, reserved, created>>
  /\ UNCHANGED <<record, usage, sent, refused, today, up, crashes>>

(* The required journal entry usage.reserved.  Nothing releases the        *)
(* reservation when it fails.                                              *)
JournalReserved(c) ==
  /\ pc[c] = "reserved"
  /\ (NoFault /\ Goto(c, "journalled")) \/ (Fault /\ Goto(c, "over"))
  /\ UNCHANGED <<rowVars, usage, sent, refused, today, up, crashes>>

(* markDispatched, durable before the request goes out. *)
MarkDispatched(c) ==
  /\ pc[c] = "journalled"
  /\ \/ /\ NoFault /\ Goto(c, "marked")
        /\ status' = [status EXCEPT ![c] = IF @ = "reserved" THEN "dispatched" ELSE @]
     \/ Fault /\ Goto(c, "over") /\ UNCHANGED status
  /\ UNCHANGED <<reserved, created, record, usage, sent, refused, today, up, crashes>>

(* Defect: the request goes out before it is marked. *)
SendUnmarked(c) ==
  /\ pc[c] \in {"journalled", "marked"}
  /\ Goto(c, "calling")
  /\ sent' = [sent EXCEPT ![c] = TRUE]
  /\ UNCHANGED <<rowVars, usage, refused, envVars>>

Send(c) ==
  /\ pc[c] = "marked"
  /\ Goto(c, "calling")
  /\ sent' = [sent EXCEPT ![c] = TRUE]
  /\ UNCHANGED <<rowVars, usage, refused, envVars>>

(* The call ends: with exact usage; without it; with an error that says    *)
(* nothing was billed; or with another error, an abort or the run timer.   *)
CallEnds(c) ==
  /\ pc[c] = "calling"
  /\ \/ /\ \E u \in Usages : usage' = [usage EXCEPT ![c] = u]
        /\ Goto(c, "answered") /\ UNCHANGED refused
     \/ Goto(c, "vague") /\ UNCHANGED <<usage, refused>>
     \/ /\ refused' = [refused EXCEPT ![c] = TRUE]
        /\ Goto(c, "rejected") /\ UNCHANGED usage
     \/ Goto(c, "failed") /\ UNCHANGED <<usage, refused>>
  /\ UNCHANGED <<rowVars, sent, envVars>>

(* A terminal transaction: the reservation's status and its only record.   *)
(* A second record would violate the UNIQUE column and undo both.          *)
Account(c, outcome, amount) ==
  /\ record[c].outcome = "none"
  /\ status' = [status EXCEPT ![c] = outcome]
  /\ record' = [record EXCEPT ![c] = [outcome |-> outcome, amount |-> amount]]

(* Defect: the status and the record are two transactions. *)
SettleInTwo(c) ==
  /\ pc[c] = "answered"
  /\ \/ /\ NoFault /\ Goto(c, "over")
        /\ Account(c, "settled", ActualAmount(usage[c], created[c]))
     \/ /\ Fault /\ Goto(c, "failed") /\ UNCHANGED record
        /\ status' = [status EXCEPT ![c] = "settled"]
  /\ UNCHANGED <<reserved, created, usage, sent, refused, today, up, crashes>>

(* settle().  When it throws, the catch block marks the reservation        *)
(* uncertain.                                                              *)
Settle(c) ==
  /\ pc[c] = "answered"
  /\ \/ /\ NoFault /\ Goto(c, "over")
        /\ Account(c, "settled", ActualAmount(usage[c], created[c]))
     \/ Fault /\ Goto(c, "failed") /\ UNCHANGED <<status, record>>
  /\ UNCHANGED <<reserved, created, usage, sent, refused, today, up, crashes>>

(* Defect: the catch block does not account for the call. *)
MarkUncertainOnlyVague(c) ==
  /\ pc[c] \in {"vague", "failed"}
  /\ NoFault /\ Goto(c, "over")
  /\ \/ pc[c] = "vague" /\ Account(c, "uncertain", NoAmount)
     \/ pc[c] = "failed" /\ UNCHANGED <<status, record>>
  /\ UNCHANGED <<reserved, created, usage, sent, refused, today, up, crashes>>

(* markUncertain(), in the try block after an answer without usage, in     *)
(* which case the catch block tries once more, or in the catch block.      *)
MarkUncertain(c) ==
  /\ pc[c] \in {"vague", "failed"}
  /\ \/ NoFault /\ Goto(c, "over") /\ Account(c, "uncertain", NoAmount)
     \/ /\ Fault /\ UNCHANGED <<status, record>>
        /\ Goto(c, IF pc[c] = "vague" THEN "failed" ELSE "over")
  /\ UNCHANGED <<reserved, created, usage, sent, refused, today, up, crashes>>

(* release(). *)
Release(c) ==
  /\ pc[c] = "rejected" /\ Goto(c, "over")
  /\ \/ NoFault /\ Account(c, "released", NoAmount)
     \/ Fault /\ UNCHANGED <<status, record>>
  /\ UNCHANGED <<reserved, created, usage, sent, refused, today, up, crashes>>

-----------------------------------------------------------------------------
Crash ==
  /\ up /\ crashes < MaxCrashes
  /\ up' = FALSE /\ crashes' = crashes + 1
  /\ pc' = [c \in Calls |-> IF pc[c] \in {"idle", "over"} THEN pc[c] ELSE "gone"]
  /\ UNCHANGED <<rowVars, usage, sent, refused, today, faults>>

(* Defect: recovery takes every open reservation for one never sent. *)
RecoverReleasingAll ==
  /\ ~up /\ NoFault /\ up' = TRUE
  /\ status' = [c \in Calls |-> IF status[c] \in {"reserved", "dispatched"}
                                  THEN "released" ELSE status[c]]
  /\ UNCHANGED <<reserved, created, record, pc, usage, sent, refused, today, crashes>>

(* Defect: recovery reopens what was already accounted for. *)
RecoverEverything ==
  /\ ~up /\ NoFault /\ up' = TRUE
  /\ status' = [c \in Calls |-> IF status[c] = "absent" THEN "absent" ELSE "uncertain"]
  /\ record' = [c \in Calls |-> [outcome |-> IF status[c] = "absent" THEN "none" ELSE "uncertain",
                                 amount  |-> NoAmount]]
  /\ UNCHANGED <<reserved, created, pc, usage, sent, refused, today, crashes>>

(* recoverInterrupted(), one transaction, before requests are accepted; no *)
(* record is written.  When it throws the process ends again.              *)
Recover ==
  /\ ~up
  /\ \/ /\ NoFault /\ up' = TRUE
        /\ status' = [c \in Calls |-> CASE status[c] = "reserved"   -> "released"
                                        [] status[c] = "dispatched" -> "uncertain"
                                        [] OTHER -> status[c]]
     \/ Fault /\ UNCHANGED <<status, up>>
  /\ UNCHANGED <<reserved, created, record, pc, usage, sent, refused, today, crashes>>

Tick ==
  /\ today < LastDay /\ today' = today + 1
  /\ UNCHANGED <<rowVars, pc, usage, sent, refused, up, faults, crashes>>

CallStep(c) ==
  \/ JournalReserved(c) \/ MarkDispatched(c) \/ Send(c) \/ CallEnds(c)
  \/ Settle(c) \/ MarkUncertain(c) \/ Release(c)

LedgerNext ==
  \/ \E c \in Calls : Reserve(c) \/ CallStep(c)
  \/ Crash \/ Recover \/ Tick

LedgerSpec == LedgerInit /\ [][LedgerNext]_ledgerVars

-----------------------------------------------------------------------------
(* ADR 0015, "it avoids treating a potentially billable sent request as    *)
(* free": from the moment a request goes out, and whatever fails or dies   *)
(* after that, its reservation counts against the caps unless the provider *)
(* said that it will not bill it.                                          *)
SentIsNeverFree ==
  \A c \in Calls : sent[c] /\ ~refused[c] =>
    status[c] \in {"dispatched", "settled", "uncertain"}

(* "Concurrent sessions cannot independently spend the same remaining cap  *)
(* headroom": in every window, what is held and what was spent of the      *)
(* reserved amounts stays within every cap.  (A call may use more than it  *)
(* reserved; that excess is the only way to exceed a cap.)                 *)
Committed(c, unit) ==
  LET r == reserved[c][unit]  a == record[c].amount[unit] IN
  CASE status[c] \in {"absent", "released"} -> 0
    [] status[c] = "settled" -> IF a < r THEN a ELSE r
    [] OTHER -> r
ReservedWithinCap ==
  \A p \in Policies : \A d \in 0..today :
    Total([c \in Calls |-> Committed(c, p.unit)], InScope(p, d)) <= p.max

(* "A reservation may reach only one terminal accounting state": neither a *)
(* late caller nor the recovery changes it.                                *)
AccountedOnce ==
  [][\A c \in Calls : status[c] \in Terminal => status'[c] = status[c]]_ledgerVars

(* A reservation and its record tell the same, in whatever order failures  *)
(* and crashes come; only the recovery ends a reservation without a record.*)
RecordMatchesStatus ==
  \A c \in Calls :
    /\ record[c].outcome # "none" => status[c] = record[c].outcome
    /\ status[c] \in Terminal /\ record[c].outcome = "none" =>
         crashes > 0 /\ (pc[c] = "gone" \/ (pc[c] = "over" /\ faults > 0))

(* Headroom is not lost for good: an open reservation has a turn that will *)
(* close it, or a recovery to come, unless a storage call failed.          *)
OpenReservationHasOwner ==
  \A c \in Calls : status[c] \in {"reserved", "dispatched"} =>
    \/ pc[c] \notin {"idle", "over"} /\ (pc[c] = "gone" => ~up)
    \/ pc[c] = "over" /\ faults > 0

(* ADR 0015: "A settled or unresolved model call produces a durable        *)
(* record".  The recovery marks a dispatched call uncertain without one.   *)
UnresolvedCallHasRecord ==
  \A c \in Calls : status[c] \in {"settled", "uncertain"} => record[c].outcome = status[c]
=============================================================================
