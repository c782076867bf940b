-------------------------- MODULE RuntimeCapacity --------------------------
(***************************************************************************)
(* The runtime-wide concurrency permits: RuntimeCapacity of                *)
(* src/src/agents/runtime-capacity.ts.                                     *)
(*                                                                         *)
(* acquire() takes a permit at once when fewer than Limit are out, and     *)
(* otherwise joins a first-in first-out list of waiters.  release() gives  *)
(* a permit back and resolves the promise of the first waiter; the waiter  *)
(* takes its permit only when its continuation runs, a microtask later,    *)
(* and it does not look at the count again.                                *)
(***************************************************************************)
EXTENDS Naturals, Sequences, FiniteSets

CONSTANTS
  Clients,  \* the executors that ask for a permit, each at most once
  Limit     \* maxConcurrentModelCalls

ASSUME CapacityAssumption == Limit \in Nat \ {0}

VARIABLES
  out,      \* `active': the permits that are out
  waiters,  \* the clients whose promise is unresolved, first come first
  permit    \* permit[c]: how far c has come

capacityVars == <<out, waiters, permit>>

(* "woken": the promise c waits for is resolved, c has not resumed yet. *)
PermitStates == {"none", "waiting", "woken", "held", "released"}

CapacityTypeOK ==
  /\ out \in Nat
  /\ waiters \in Seq(Clients)
  /\ permit \in [Clients -> PermitStates]

CapacityInit ==
  /\ out = 0
  /\ waiters = <<>>
  /\ permit = [c \in Clients |-> "none"]

(* Plausible defects, each the mutant of the definition it is named after. *)
WakeUpUncounted(c) ==
  /\ permit[c] = "woken"
  /\ permit' = [permit EXCEPT ![c] = "held"]
  /\ UNCHANGED <<out, waiters>>

ReleaseWakesNobody(c) ==
  /\ permit[c] = "held"
  /\ out' = out - 1
  /\ permit' = [permit EXCEPT ![c] = "released"]
  /\ UNCHANGED waiters

-----------------------------------------------------------------------------
(* acquire() below the limit. *)
AcquireFree(c) ==
  /\ permit[c] = "none"
  /\ out < Limit
  /\ out' = out + 1
  /\ permit' = [permit EXCEPT ![c] = "held"]
  /\ UNCHANGED waiters

(* acquire() at the limit. *)
AcquireWait(c) ==
  /\ permit[c] = "none"
  /\ out >= Limit
  /\ waiters' = Append(waiters, c)
  /\ permit' = [permit EXCEPT ![c] = "waiting"]
  /\ UNCHANGED out

Acquire(c) == AcquireFree(c) \/ AcquireWait(c)

(* The continuation of a waiter whose promise was resolved. *)
WakeUp(c) ==
  /\ permit[c] = "woken"
  /\ out' = out + 1
  /\ permit' = [permit EXCEPT ![c] = "held"]
  /\ UNCHANGED waiters

(* The release function, called once by the executor's finally block. *)
Release(c) ==
  /\ permit[c] = "held"
  /\ out' = out - 1
  /\ IF waiters = <<>>
       THEN /\ permit' = [permit EXCEPT ![c] = "released"]
            /\ UNCHANGED waiters
       ELSE /\ permit' = [permit EXCEPT ![c] = "released", ![Head(waiters)] = "woken"]
            /\ waiters' = Tail(waiters)

CapacityNext ==
  \E c \in Clients : AcquireFree(c) \/ AcquireWait(c) \/ WakeUp(c) \/ Release(c)

(* Continuations run; the executor releases its permit in a finally block. *)
CapacityFairness ==
  \A c \in Clients : WF_capacityVars(WakeUp(c)) /\ WF_capacityVars(Release(c))

CapacitySpec == CapacityInit /\ [][CapacityNext]_capacityVars /\ CapacityFairness

-----------------------------------------------------------------------------
Holders == {c \in Clients : permit[c] = "held"}
Woken   == {c \in Clients : permit[c] = "woken"}

(* A permit count that drifts from the executors that hold one would       *)
(* starve or overload the runtime for good: `active' is incremented in     *)
(* acquire() and decremented in the returned closure, in different tasks.  *)
PermitsMatchHolders == out = Cardinality(Holders)

(* No lost wake-up: while somebody waits, the permits that are out and the *)
(* wake-ups under way fill the limit, so a release is still to come that   *)
(* will resolve the first waiter.                                          *)
NoIdlePermitWhileWaiting ==
  waiters # <<>> => Cardinality(Holders) + Cardinality(Woken) >= Limit

(* The list holds exactly the clients that wait, each once: nobody is      *)
(* woken twice (two permits for one executor) and nobody is forgotten.     *)
WaitersAreWaiting ==
  /\ \A i, j \in 1..Len(waiters) : i # j => waiters[i] # waiters[j]
  /\ \A c \in Clients :
       permit[c] = "waiting" <=> \E i \in 1..Len(waiters) : waiters[i] = c

(* Every acquire() that has to wait is eventually served. *)
WaitersAreServed ==
  \A c \in Clients : permit[c] = "waiting" ~> permit[c] = "held"
=============================================================================
