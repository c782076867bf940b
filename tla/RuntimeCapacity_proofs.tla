----------------------- MODULE RuntimeCapacity_proofs -----------------------
(***************************************************************************)
(* What RuntimeCapacity promises for every set of executors and every      *)
(* limit.  CapacityInv is the inductive invariant: the permit count is     *)
(* right only because no executor holds two permits, which needs the list  *)
(* of waiters to hold each waiting executor once and no other.             *)
(***************************************************************************)
EXTENDS RuntimeCapacity, FiniteSetTheorems, TLAPS

CountsRight ==
  /\ IsFiniteSet(Holders) /\ IsFiniteSet(Woken)
  /\ PermitsMatchHolders

CapacityInv ==
  /\ CapacityTypeOK
  /\ CountsRight
  /\ WaitersAreWaiting
  /\ NoIdlePermitWhileWaiting

(* Nothing is out and nobody waits when the runtime starts. *)
LEMMA CapacityInit_Inv == CapacityInit => CapacityInv
<1> SUFFICES ASSUME CapacityInit PROVE CapacityInv
  OBVIOUS
<1>1. Holders = {} /\ Woken = {}
  BY DEF CapacityInit, Holders, Woken
<1>2. CountsRight
  BY <1>1, FS_EmptySet DEF CapacityInit, CountsRight, PermitsMatchHolders
<1>3. CapacityTypeOK /\ WaitersAreWaiting /\ NoIdlePermitWhileWaiting
  BY DEF CapacityInit, CapacityTypeOK, PermitStates, WaitersAreWaiting, NoIdlePermitWhileWaiting
<1> QED
  BY <1>2, <1>3 DEF CapacityInv

(* acquire() below the limit adds one holder and one permit. *)
LEMMA AcquireFree_Inv ==
  ASSUME CapacityInv, NEW c \in Clients, AcquireFree(c)
  PROVE  CapacityInv'
<1> USE DEF CapacityInv, CapacityTypeOK, AcquireFree
<1>1. CapacityTypeOK'
  BY DEF PermitStates
<1>2. c \notin Holders /\ Holders' = Holders \cup {c} /\ Woken' = Woken
  BY DEF Holders, Woken
<1>3. /\ Cardinality(Holders') = Cardinality(Holders) + 1
      /\ IsFiniteSet(Holders') /\ Cardinality(Holders) \in Nat
  BY <1>2, FS_AddElement, FS_CardinalityType DEF CountsRight
<1>4. CountsRight'
  BY <1>2, <1>3 DEF CountsRight, PermitsMatchHolders
<1>5. WaitersAreWaiting'
  BY DEF WaitersAreWaiting
<1>6. NoIdlePermitWhileWaiting'
  BY <1>2, <1>3, FS_CardinalityType, CapacityAssumption
  DEF NoIdlePermitWhileWaiting, CountsRight
<1> QED
  BY <1>1, <1>4, <1>5, <1>6

(* acquire() at the limit adds one waiter, and the limit is then reached by *)
(* holders alone.                                                           *)
LEMMA AcquireWait_Inv ==
  ASSUME CapacityInv, NEW c \in Clients, AcquireWait(c)
  PROVE  CapacityInv'
<1> USE DEF CapacityInv, CapacityTypeOK, AcquireWait
<1>1. CapacityTypeOK'
  BY DEF PermitStates
<1>2. Holders' = Holders /\ Woken' = Woken
  BY DEF Holders, Woken
<1>3. CountsRight'
  BY <1>2 DEF CountsRight, PermitsMatchHolders
<1>4. WaitersAreWaiting'
  <2>1. /\ Len(waiters') = Len(waiters) + 1
        /\ \A i \in 1..Len(waiters) : waiters'[i] = waiters[i]
        /\ waiters'[Len(waiters) + 1] = c
    OBVIOUS
  <2>2. \A i \in 1..Len(waiters) : waiters[i] # c
    BY DEF WaitersAreWaiting
  <2>3. \A i, j \in 1..Len(waiters') : i # j => waiters'[i] # waiters'[j]
    BY <2>1, <2>2 DEF WaitersAreWaiting
  <2>4. ASSUME NEW d \in Clients
        PROVE  permit'[d] = "waiting" <=> \E i \in 1..Len(waiters') : waiters'[i] = d
    BY <2>1, <2>2 DEF WaitersAreWaiting
  <2> QED
    BY <2>3, <2>4 DEF WaitersAreWaiting
<1>5. NoIdlePermitWhileWaiting'
  BY <1>2, FS_CardinalityType, CapacityAssumption
  DEF NoIdlePermitWhileWaiting, CountsRight, PermitsMatchHolders
<1> QED
  BY <1>1, <1>3, <1>4, <1>5

(* A woken executor becomes a holder: the sum of both does not change. *)
LEMMA WakeUp_Inv ==
  ASSUME CapacityInv, NEW c \in Clients, WakeUp(c)
  PROVE  CapacityInv'
<1> USE DEF CapacityInv, CapacityTypeOK, WakeUp
<1>1. CapacityTypeOK'
  BY DEF PermitStates
<1>2. /\ c \notin Holders /\ Holders' = Holders \cup {c}
      /\ c \in Woken /\ Woken' = Woken \ {c}
  BY DEF Holders, Woken
<1>3. /\ Cardinality(Holders') = Cardinality(Holders) + 1 /\ IsFiniteSet(Holders')
      /\ Cardinality(Woken') = Cardinality(Woken) - 1 /\ IsFiniteSet(Woken')
      /\ Cardinality(Holders) \in Nat /\ Cardinality(Woken) \in Nat
  BY <1>2, FS_AddElement, FS_RemoveElement, FS_CardinalityType DEF CountsRight
<1>4. CountsRight'
  BY <1>3 DEF CountsRight, PermitsMatchHolders
<1>5. WaitersAreWaiting'
  BY DEF WaitersAreWaiting
<1>6. NoIdlePermitWhileWaiting'
  BY <1>3, CapacityAssumption DEF NoIdlePermitWhileWaiting
<1> QED
  BY <1>1, <1>4, <1>5, <1>6

(* release() takes one holder away and wakes the first waiter, if any. *)
LEMMA Release_Inv ==
  ASSUME CapacityInv, NEW c \in Clients, Release(c)
  PROVE  CapacityInv'
<1> USE DEF CapacityInv, CapacityTypeOK
<1>1. c \in Holders /\ IsFiniteSet(Holders) /\ out = Cardinality(Holders)
  BY DEF Release, Holders, CountsRight, PermitsMatchHolders
<1>2. /\ Cardinality(Holders \ {c}) = Cardinality(Holders) - 1
      /\ IsFiniteSet(Holders \ {c}) /\ Cardinality(Holders \ {c}) \in Nat
      /\ Cardinality(Holders) \in Nat
  BY <1>1, FS_RemoveElement, FS_CardinalityType
<1>3. out' = Cardinality(Holders \ {c}) /\ out' \in Nat
  BY <1>1, <1>2 DEF Release
<1>4. CASE waiters = <<>>
  <2>1. permit' = [permit EXCEPT ![c] = "released"] /\ waiters' = <<>>
    BY <1>4 DEF Release
  <2>2. Holders' = Holders \ {c} /\ Woken' = Woken
    BY <2>1 DEF Release, Holders, Woken
  <2>3. CapacityTypeOK'
    BY <2>1, <1>3 DEF PermitStates
  <2>4. CountsRight'
    BY <2>2, <1>2, <1>3 DEF CountsRight, PermitsMatchHolders
  <2>5. WaitersAreWaiting'
    BY <2>1, <1>4 DEF WaitersAreWaiting, Release
  <2>6. NoIdlePermitWhileWaiting'
    BY <2>1 DEF NoIdlePermitWhileWaiting
  <2> QED
    BY <2>3, <2>4, <2>5, <2>6
<1>5. CASE waiters # <<>>
  <2> DEFINE w == Head(waiters)
  <2>1. /\ permit' = [permit EXCEPT ![c] = "released", ![w] = "woken"]
        /\ waiters' = Tail(waiters) /\ permit[c] = "held"
    BY <1>5 DEF Release
  <2>2. w = waiters[1] /\ 1 \in 1..Len(waiters) /\ w \in Clients
    BY <1>5
  <2>3. permit[w] = "waiting" /\ w # c
    BY <2>1, <2>2 DEF WaitersAreWaiting
  <2>4. /\ Holders' = Holders \ {c}
        /\ w \notin Woken /\ Woken' = Woken \cup {w}
    BY <2>1, <2>2, <2>3 DEF Holders, Woken
  <2>5. CapacityTypeOK'
    <3>1. waiters' \in Seq(Clients)
      BY <2>1, <1>5
    <3>2. permit' \in [Clients -> PermitStates]
      BY <2>1, <2>2 DEF PermitStates
    <3> QED
      BY <3>1, <3>2, <1>3
  <2>6. CountsRight'
    BY <2>4, <1>2, <1>3, FS_AddElement DEF CountsRight, PermitsMatchHolders
  <2>7. WaitersAreWaiting'
    <3>1. /\ Len(waiters') = Len(waiters) - 1
          /\ \A i \in 1..Len(waiters') : waiters'[i] = waiters[i+1] /\ i + 1 \in 1..Len(waiters)
          /\ \A i \in 1..Len(waiters) : i # 1 => i - 1 \in 1..Len(waiters') /\ waiters'[i-1] = waiters[i]
      BY <2>1, <1>5
    <3>2. ASSUME NEW i \in 1..Len(waiters'), NEW j \in 1..Len(waiters'), i # j
          PROVE  waiters'[i] # waiters'[j]
      <4>1. i + 1 # j + 1
        BY <3>2
      <4>2. waiters[i+1] # waiters[j+1]
        BY <4>1, <3>1 DEF WaitersAreWaiting
      <4> QED
        BY <4>2, <3>1
    <3>3. ASSUME NEW d \in Clients
          PROVE  permit'[d] = "waiting" <=> \E i \in 1..Len(waiters') : waiters'[i] = d
      <4>1. CASE d = w
        <5>1. permit'[d] # "waiting"
          BY <4>1, <2>1, <2>2
        <5>2. \A i \in 1..Len(waiters') : waiters'[i] # d
          BY <4>1, <2>2, <3>1 DEF WaitersAreWaiting
        <5> QED
          BY <5>1, <5>2
      <4>2. CASE d # w
        <5>1. permit'[d] = "waiting" <=> permit[d] = "waiting"
          BY <4>2, <2>1
        <5>2. (\E i \in 1..Len(waiters) : waiters[i] = d)
                <=> \E i \in 1..Len(waiters') : waiters'[i] = d
          BY <4>2, <2>2, <3>1
        <5> QED
          BY <5>1, <5>2 DEF WaitersAreWaiting
      <4> QED
        BY <4>1, <4>2
    <3> QED
      BY <3>2, <3>3 DEF WaitersAreWaiting
  <2>8. NoIdlePermitWhileWaiting'
    <3>1. Cardinality(Woken') = Cardinality(Woken) + 1 /\ Cardinality(Woken) \in Nat
      BY <2>4, FS_AddElement, FS_CardinalityType DEF CountsRight
    <3>2. Cardinality(Holders) + Cardinality(Woken) >= Limit
      BY <1>5 DEF NoIdlePermitWhileWaiting
    <3> QED
      BY <3>1, <3>2, <2>4, <1>2, CapacityAssumption DEF NoIdlePermitWhileWaiting
  <2> QED
    BY <2>5, <2>6, <2>7, <2>8
<1> QED
  BY <1>4, <1>5

(* The process dies and another one starts: no permit is out, and nobody   *)
(* who waited for one or held one asks again.                              *)
CapacityReset ==
  /\ out' = 0 /\ waiters' = <<>>
  /\ permit' \in [Clients -> {"none", "released"}]

(* A restart establishes the invariant afresh. *)
LEMMA CapacityReset_Inv ==
  ASSUME CapacityReset
  PROVE  CapacityInv'
<1> USE DEF CapacityReset
<1>1. Holders' = {} /\ Woken' = {}
  BY DEF Holders, Woken
<1>2. CapacityTypeOK'
  BY DEF CapacityTypeOK, PermitStates
<1>3. CountsRight'
  BY <1>1, FS_EmptySet DEF CountsRight, PermitsMatchHolders
<1>4. WaitersAreWaiting' /\ NoIdlePermitWhileWaiting'
  BY DEF WaitersAreWaiting, NoIdlePermitWhileWaiting
<1> QED
  BY <1>2, <1>3, <1>4 DEF CapacityInv

(* The invariant is inductive. *)
LEMMA CapacityNext_Inv == CapacityInv /\ [CapacityNext]_capacityVars => CapacityInv'
<1> SUFFICES ASSUME CapacityInv, [CapacityNext]_capacityVars PROVE CapacityInv'
  OBVIOUS
<1>1. CASE CapacityNext
  BY <1>1, AcquireFree_Inv, AcquireWait_Inv, WakeUp_Inv, Release_Inv DEF CapacityNext
<1>2. CASE UNCHANGED capacityVars
  BY <1>2 DEF capacityVars, CapacityInv, CapacityTypeOK, CountsRight, PermitsMatchHolders,
     WaitersAreWaiting, NoIdlePermitWhileWaiting, Holders, Woken
<1> QED
  BY <1>1, <1>2

(* And hence holds throughout. *)
LEMMA CapacityInvariant == CapacitySpec => []CapacityInv
BY CapacityInit_Inv, CapacityNext_Inv, PTL DEF CapacitySpec

(* The permits that are out are those of the executors that hold one, for  *)
(* every limit and every number of executors.                              *)
THEOREM PermitsAreCounted == CapacitySpec => [](CapacityTypeOK /\ PermitsMatchHolders)
<1>1. CapacityInv => CapacityTypeOK /\ PermitsMatchHolders
  BY DEF CapacityInv, CountsRight
<1> QED
  BY <1>1, CapacityInvariant, PTL

(* No wake-up is lost: whenever an executor waits, holders and executors   *)
(* under way to a permit together reach the limit, and the list of waiters *)
(* holds each waiting executor once.                                       *)
THEOREM NoLostWakeUp == CapacitySpec => [](NoIdlePermitWhileWaiting /\ WaitersAreWaiting)
<1>1. CapacityInv => NoIdlePermitWhileWaiting /\ WaitersAreWaiting
  BY DEF CapacityInv
<1> QED
  BY <1>1, CapacityInvariant, PTL
=============================================================================
