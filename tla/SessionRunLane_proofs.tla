------------------------ MODULE SessionRunLane_proofs ------------------------
(***************************************************************************)
(* What the lane coordinator promises for every set of sessions and of     *)
(* work and for every capacity.  LaneInv is the inductive invariant.  That *)
(* at most one drain loop runs on a lane rests on enqueued work being in   *)
(* the queue of its own lane, once, and on no other; that the slot counter *)
(* never drifts rests on new work being unknown to cancel().  The          *)
(* coordinator implements SerialServer, but for its fairness.              *)
(***************************************************************************)
EXTENDS SessionRunLane, FiniteSetTheorems, SequenceTheorems, WellFoundedInduction, TLAPS

SlotsRight ==
  /\ \A k \in Keys : IsFiniteSet(OpenReservations(k))
  /\ ReservedMatchesHolders

NewIsNotWithdrawn == \A w \in Works : work[w] \in {"new", "rejected"} => ~withdrawn[w]

LaneInv ==
  /\ LaneTypeOK
  /\ QueueHoldsWaitingWork
  /\ OneDrainPerLane
  /\ LaneBounded
  /\ SlotsRight
  /\ MappedExactlyWhileUsed
  /\ NewIsNotWithdrawn

(* A lane is full of slots exactly when a reservation is open. *)
LEMMA OpenIffReserved ==
  ASSUME SlotsRight, NEW k \in Keys
  PROVE  /\ reserved[k] \in Nat
         /\ reserved[k] = 0 <=> OpenReservations(k) = {}
BY FS_CardinalityType, FS_EmptySet DEF SlotsRight, ReservedMatchesHolders

(* A step that leaves the queues, and who waits, alone. *)
LEMMA QueuesStay ==
  ASSUME LaneTypeOK, QueueHoldsWaitingWork, queue' = queue,
         \A q \in Keys : active[q] => active'[q],
         \A v \in Works : work'[v] = "queued" <=> work[v] = "queued"
  PROVE  QueueHoldsWaitingWork'
<1>1. \A q \in Keys : \A i \in 1..Len(queue[q]) : queue[q][i] \in Works
  BY DEF LaneTypeOK
<1>2. ASSUME NEW q \in Keys
      PROVE  /\ \A i \in 1..Len(queue'[q]) :
                  KeyOf[queue'[q][i]] = q /\ work'[queue'[q][i]] = "queued"
             /\ \A i, j \in 1..Len(queue'[q]) : i # j => queue'[q][i] # queue'[q][j]
             /\ ~active'[q] => queue'[q] = <<>>
  BY <1>1 DEF QueueHoldsWaitingWork
<1>3. \A v \in Works : work'[v] = "queued" =>
        \E i \in 1..Len(queue'[KeyOf[v]]) : queue'[KeyOf[v]][i] = v
  BY DEF QueueHoldsWaitingWork
<1> QED
  BY <1>2, <1>3 DEF QueueHoldsWaitingWork

(* The invariant holds of empty lanes. *)
LEMMA LaneInit_Inv == LaneInit => LaneInv
<1> SUFFICES ASSUME LaneInit PROVE LaneInv
  OBVIOUS
<1> USE DEF LaneInit
<1>1. LaneTypeOK
  BY DEF LaneTypeOK, WorkStates
<1>2. \A k \in Keys : OpenReservations(k) = {} /\ InDrain(k) = {}
  BY DEF OpenReservations, InDrain
<1>3. QueueHoldsWaitingWork /\ OneDrainPerLane /\ MappedExactlyWhileUsed /\ NewIsNotWithdrawn
  BY <1>2 DEF QueueHoldsWaitingWork, OneDrainPerLane, MappedExactlyWhileUsed, NewIsNotWithdrawn
<1>4. SlotsRight
  BY <1>2, FS_EmptySet DEF SlotsRight, ReservedMatchesHolders
<1>5. LaneBounded
  BY LaneAssumption DEF LaneBounded, Occupancy
<1> QED
  BY <1>1, <1>3, <1>4, <1>5 DEF LaneInv

-----------------------------------------------------------------------------
(* reserve(key) takes a slot. *)
LEMMA Reserve_Inv ==
  ASSUME LaneInv, NEW w \in Works, Reserve(w)
  PROVE  LaneInv'
<1> DEFINE k == KeyOf[w]
<1> USE DEF LaneInv
<1>1. k \in Keys
  BY LaneAssumption
<1>2. /\ work[w] = "new" /\ ~withdrawn[w] /\ Occupancy(k) < LaneCapacity
      /\ Occupancy(k) \in Nat
  BY <1>1, LaneAssumption
  DEF Reserve, NewIsNotWithdrawn, LaneFull, Occupancy, LaneTypeOK
<1>3. /\ OpenReservations(k)' = OpenReservations(k) \cup {w}
      /\ w \notin OpenReservations(k)
      /\ \A q \in Keys : q # k => OpenReservations(q)' = OpenReservations(q)
      /\ \A q \in Keys : InDrain(q)' = InDrain(q)
  BY <1>1, <1>2 DEF Reserve, OpenReservations, InDrain, LaneTypeOK
<1>11. /\ reserved'[k] = reserved[k] + 1
       /\ \A q \in Keys : q # k => reserved'[q] = reserved[q]
  BY <1>1 DEF Reserve, LaneTypeOK
<1>4. LaneTypeOK'
  BY <1>1 DEF Reserve, LaneTypeOK, WorkStates
<1>5. QueueHoldsWaitingWork'
  BY <1>2, QueuesStay DEF Reserve, LaneTypeOK
<1>6. OneDrainPerLane'
  BY <1>3 DEF OneDrainPerLane, Reserve
<1>7. LaneBounded'
  BY <1>1, <1>2, LaneAssumption DEF LaneBounded, Occupancy, Reserve, LaneTypeOK
<1>8. SlotsRight'
  <2>1. ASSUME NEW q \in Keys
        PROVE  IsFiniteSet(OpenReservations(q)') /\ reserved'[q] = Cardinality(OpenReservations(q)')
    <3>1. IsFiniteSet(OpenReservations(q)) /\ reserved[q] = Cardinality(OpenReservations(q))
      BY DEF SlotsRight, ReservedMatchesHolders
    <3>2. CASE q = k
      BY <3>1, <3>2, <1>3, <1>11, FS_AddElement
    <3>3. CASE q # k
      BY <3>1, <3>3, <1>3, <1>11
    <3> QED
      BY <3>2, <3>3
  <2> QED
    BY <2>1 DEF SlotsRight, ReservedMatchesHolders
<1>9. MappedExactlyWhileUsed'
  BY <1>1, <1>3 DEF MappedExactlyWhileUsed, Reserve, LaneTypeOK
<1>10. NewIsNotWithdrawn'
  BY <1>1 DEF NewIsNotWithdrawn, Reserve, LaneTypeOK
<1> QED
  BY <1>4, <1>5, <1>6, <1>7, <1>8, <1>9, <1>10

(* Work changes from one state to another, neither of which holds a slot,  *)
(* waits in a queue or keeps a drain loop busy.                            *)
LEMMA Idle_Inv ==
  ASSUME LaneInv, NEW w \in Works, RejectFull(w) \/ EnqueueWithdrawn(w)
  PROVE  LaneInv'
<1> USE DEF LaneInv, RejectFull, EnqueueWithdrawn
<1>1. /\ \A q \in Keys : OpenReservations(q)' = OpenReservations(q)
      /\ \A q \in Keys : InDrain(q)' = InDrain(q)
  BY DEF OpenReservations, InDrain, LaneTypeOK
<1>2. LaneTypeOK'
  BY DEF LaneTypeOK, WorkStates
<1>3. QueueHoldsWaitingWork'
  BY QueuesStay DEF LaneTypeOK
<1>4. OneDrainPerLane' /\ LaneBounded' /\ SlotsRight' /\ MappedExactlyWhileUsed'
  BY <1>1 DEF OneDrainPerLane, LaneBounded, Occupancy, SlotsRight, ReservedMatchesHolders,
     MappedExactlyWhileUsed
<1>5. NewIsNotWithdrawn'
  BY DEF NewIsNotWithdrawn, LaneTypeOK
<1> QED
  BY <1>2, <1>3, <1>4, <1>5

(* enqueue() gives the slot back and takes a place in the queue, or starts *)
(* the drain loop of an idle lane.                                         *)
LEMMA Enqueue_Inv ==
  ASSUME LaneInv, NEW w \in Works, Enqueue(w)
  PROVE  LaneInv'
<1> DEFINE k == KeyOf[w]
<1> USE DEF LaneInv
<1>1. k \in Keys /\ work[w] = "reserved" /\ ~withdrawn[w] /\ w \in OpenReservations(k)
  BY LaneAssumption DEF Enqueue, OpenReservations
<1>2. /\ OpenReservations(k)' = OpenReservations(k) \ {w}
      /\ \A q \in Keys : q # k => OpenReservations(q)' = OpenReservations(q)
  BY <1>1 DEF Enqueue, OpenReservations, LaneTypeOK
<1>3. reserved[k] \in Nat \ {0} /\ reserved' = [reserved EXCEPT ![k] = @ - 1]
  BY <1>1, OpenIffReserved DEF Enqueue
<1>8. /\ reserved'[k] = reserved[k] - 1 /\ reserved'[k] \in Nat
      /\ \A q \in Keys : q # k => reserved'[q] = reserved[q]
  BY <1>1, <1>3 DEF LaneTypeOK
<1>4. SlotsRight'
  <2>1. ASSUME NEW q \in Keys
        PROVE  IsFiniteSet(OpenReservations(q)') /\ reserved'[q] = Cardinality(OpenReservations(q)')
    <3>1. IsFiniteSet(OpenReservations(q)) /\ reserved[q] = Cardinality(OpenReservations(q))
      BY DEF SlotsRight, ReservedMatchesHolders
    <3>2. CASE q = k
      BY <3>1, <3>2, <1>1, <1>2, <1>8, FS_RemoveElement
    <3>3. CASE q # k
      BY <3>1, <3>3, <1>1, <1>2, <1>8
    <3> QED
      BY <3>2, <3>3
  <2> QED
    BY <2>1 DEF SlotsRight, ReservedMatchesHolders
<1>5. NewIsNotWithdrawn'
  BY DEF NewIsNotWithdrawn, Enqueue, LaneTypeOK
<1>6. CASE active[k]
  <2>1. /\ queue' = [queue EXCEPT ![k] = Append(@, w)]
        /\ work' = [work EXCEPT ![w] = "queued"] /\ active' = active
        /\ mapped' = mapped /\ withdrawn' = withdrawn
    BY <1>6 DEF Enqueue
  <2>2. queue[k] \in Seq(Works) /\ queue'[k] = Append(queue[k], w)
    BY <1>1, <2>1 DEF LaneTypeOK
  <2>3. /\ Len(queue'[k]) = Len(queue[k]) + 1 /\ Len(queue[k]) \in Nat
        /\ \A i \in 1..Len(queue[k]) : queue'[k][i] = queue[k][i]
        /\ queue'[k][Len(queue[k]) + 1] = w
        /\ queue'[k] \in Seq(Works) /\ queue'[k] # <<>>
    BY <2>2
  <2>4. LaneTypeOK'
    BY <1>1, <1>3, <2>1, <2>3 DEF LaneTypeOK, WorkStates
  <2>5. QueueHoldsWaitingWork'
    <3>1. \A i \in 1..Len(queue[k]) : queue[k][i] # w
      BY <1>1 DEF QueueHoldsWaitingWork
    <3>2. \A q \in Keys : q # k => queue'[q] = queue[q]
      BY <2>1 DEF LaneTypeOK
    <3>3. ASSUME NEW q \in Keys
          PROVE  /\ \A i \in 1..Len(queue'[q]) :
                      KeyOf[queue'[q][i]] = q /\ work'[queue'[q][i]] = "queued"
                 /\ \A i, j \in 1..Len(queue'[q]) : i # j => queue'[q][i] # queue'[q][j]
                 /\ ~active'[q] => queue'[q] = <<>>
      <4>1. CASE q = k
        <5>1. \A i \in 1..Len(queue[k]) :
                /\ KeyOf[queue[k][i]] = k /\ work[queue[k][i]] = "queued"
                /\ queue[k][i] \in Works
          BY <1>1 DEF QueueHoldsWaitingWork, LaneTypeOK
        <5>2. \A i \in 1..Len(queue'[k]) : i \in 1..Len(queue[k]) \/ i = Len(queue[k]) + 1
          BY <2>3
        <5>3. work'[w] = "queued" /\ \A v \in Works : v # w => work'[v] = work[v]
          BY <2>1 DEF LaneTypeOK
        <5>4. \A i \in 1..Len(queue'[k]) :
                KeyOf[queue'[k][i]] = k /\ work'[queue'[k][i]] = "queued"
          BY <5>1, <5>2, <5>3, <2>3, <3>1
        <5>5. ASSUME NEW i \in 1..Len(queue'[k]), NEW j \in 1..Len(queue'[k]), i # j
              PROVE  queue'[k][i] # queue'[k][j]
          <6>1. CASE i \in 1..Len(queue[k]) /\ j \in 1..Len(queue[k])
            BY <5>5, <6>1, <2>3, <1>1 DEF QueueHoldsWaitingWork
          <6>2. CASE i = Len(queue[k]) + 1 /\ j \in 1..Len(queue[k])
            BY <6>2, <2>3, <3>1
          <6>3. CASE j = Len(queue[k]) + 1 /\ i \in 1..Len(queue[k])
            BY <6>3, <2>3, <3>1
          <6> QED
            BY <5>2, <5>5, <6>1, <6>2, <6>3
        <5> QED
          BY <4>1, <5>4, <5>5, <1>6, <2>1
      <4>2. CASE q # k
        BY <4>2, <3>2, <2>1, <1>1 DEF QueueHoldsWaitingWork, LaneTypeOK
      <4> QED
        BY <4>1, <4>2
    <3>4. ASSUME NEW v \in Works, work'[v] = "queued"
          PROVE  \E i \in 1..Len(queue'[KeyOf[v]]) : queue'[KeyOf[v]][i] = v
      <4>1. CASE v = w
        BY <4>1, <2>3
      <4>2. CASE v # w
        <5>1. PICK i \in 1..Len(queue[KeyOf[v]]) : queue[KeyOf[v]][i] = v
          BY <4>2, <3>4, <2>1 DEF QueueHoldsWaitingWork, LaneTypeOK
        <5> QED
          BY <5>1, <2>3, <3>2, LaneAssumption
      <4> QED
        BY <4>1, <4>2
    <3> QED
      BY <3>3, <3>4 DEF QueueHoldsWaitingWork
  <2>6. OneDrainPerLane'
    <3>1. \A q \in Keys : InDrain(q)' = InDrain(q)
      BY <1>1, <2>1 DEF InDrain, LaneTypeOK
    <3> QED
      BY <3>1, <2>1 DEF OneDrainPerLane
  <2>7. LaneBounded'
    <3>1. ASSUME NEW q \in Keys PROVE Occupancy(q)' = Occupancy(q)
      <4>1. CASE q = k
        <5>1. Occupancy(k) = Len(queue[k]) + reserved[k] + 1
          BY <1>6 DEF Occupancy
        <5>2. active'[k] /\ Len(queue'[k]) = Len(queue[k]) + 1 /\ reserved'[k] = reserved[k] - 1
          BY <1>6, <1>8, <2>1, <2>3
        <5>3. Occupancy(k)' = (Len(queue[k]) + 1) + (reserved[k] - 1) + 1
          BY <5>2 DEF Occupancy
        <5>4. (Len(queue[k]) + 1) + (reserved[k] - 1) + 1 = Len(queue[k]) + reserved[k] + 1
          BY <1>3, <2>3
        <5>5. Occupancy(k)' = Occupancy(k)
          BY <5>1, <5>3, <5>4
        <5> QED
          BY <4>1, <5>5
      <4>2. CASE q # k
        BY <4>2, <1>8, <2>1 DEF Occupancy, LaneTypeOK
      <4> QED
        BY <4>1, <4>2
    <3> QED
      BY <3>1 DEF LaneBounded
  <2>8. MappedExactlyWhileUsed'
    BY <1>1, <1>2, <1>6, <2>1, <2>3 DEF MappedExactlyWhileUsed, LaneTypeOK
  <2> QED
    BY <1>4, <1>5, <2>4, <2>5, <2>6, <2>7, <2>8
<1>7. CASE ~active[k]
  <2>1. /\ queue' = queue /\ active' = [active EXCEPT ![k] = TRUE]
        /\ work' = [work EXCEPT ![w] = "running"]
        /\ mapped' = mapped /\ withdrawn' = withdrawn
    BY <1>7 DEF Enqueue
  <2>2. LaneTypeOK'
    BY <1>1, <1>3, <2>1 DEF LaneTypeOK, WorkStates
  <2>3. QueueHoldsWaitingWork'
    <3>1. \A q \in Keys : active[q] => active'[q]
      BY <1>1, <2>1 DEF LaneTypeOK
    <3>2. \A v \in Works : work'[v] = "queued" <=> work[v] = "queued"
      BY <1>1, <2>1 DEF LaneTypeOK
    <3> QED
      BY <3>1, <3>2, <2>1, QueuesStay
  <2>4. OneDrainPerLane'
    <3>1. InDrain(k) = {}
      BY <1>1, <1>7 DEF OneDrainPerLane
    <3>2. InDrain(k)' = {w} /\ \A q \in Keys : q # k => InDrain(q)' = InDrain(q)
      BY <1>1, <2>1, <3>1 DEF InDrain, LaneTypeOK
    <3>3. active'[k] /\ \A q \in Keys : q # k => active'[q] = active[q]
      BY <1>1, <2>1 DEF LaneTypeOK
    <3>4. ASSUME NEW q \in Keys
          PROVE  /\ \A u, v \in InDrain(q)' : u = v
                 /\ active'[q] <=> InDrain(q)' # {}
      <4>1. CASE q = k
        BY <4>1, <3>2, <3>3
      <4>2. CASE q # k
        BY <4>2, <3>2, <3>3 DEF OneDrainPerLane
      <4> QED
        BY <4>1, <4>2
    <3> QED
      BY <3>4 DEF OneDrainPerLane
  <2>5. LaneBounded'
    <3>1. ASSUME NEW q \in Keys PROVE Occupancy(q)' = Occupancy(q)
      <4>1. CASE q = k
        <5>1. Len(queue[k]) \in Nat /\ active'[k]
          BY <1>1, <2>1 DEF LaneTypeOK
        <5>2. Occupancy(k) = Len(queue[k]) + reserved[k] + 0
          BY <1>7 DEF Occupancy
        <5>3. Occupancy(k)' = Len(queue[k]) + (reserved[k] - 1) + 1
          BY <5>1, <1>8, <2>1 DEF Occupancy
        <5> QED
          BY <4>1, <5>1, <5>2, <5>3, <1>3
      <4>2. CASE q # k
        BY <4>2, <1>8, <2>1 DEF Occupancy, LaneTypeOK
      <4> QED
        BY <4>1, <4>2
    <3> QED
      BY <3>1 DEF LaneBounded
  <2>6. MappedExactlyWhileUsed'
    BY <1>1, <1>2, <2>1 DEF MappedExactlyWhileUsed, LaneTypeOK
  <2> QED
    BY <1>4, <1>5, <2>2, <2>3, <2>4, <2>5, <2>6
<1> QED
  BY <1>6, <1>7

(* cancel() gives back a slot that was never enqueued, and nothing else. *)
LEMMA Withdraw_Inv ==
  ASSUME LaneInv, NEW w \in Works, Withdraw(w)
  PROVE  LaneInv'
<1> DEFINE k == KeyOf[w]
<1> USE DEF LaneInv
<1>1. /\ k \in Keys /\ ~withdrawn[w] /\ work[w] \notin {"new", "rejected"}
      /\ active' = active /\ queue' = queue /\ work' = work
      /\ withdrawn' = [withdrawn EXCEPT ![w] = TRUE]
  BY LaneAssumption DEF Withdraw
<1>2. /\ OpenReservations(k)' = OpenReservations(k) \ {w}
      /\ \A q \in Keys : q # k => OpenReservations(q)' = OpenReservations(q)
      /\ w \in OpenReservations(k) <=> work[w] = "reserved"
      /\ \A q \in Keys : InDrain(q)' = InDrain(q)
  BY <1>1 DEF OpenReservations, InDrain, LaneTypeOK
<1>3. reserved[k] \in Nat /\ (work[w] = "reserved" => reserved[k] # 0)
  BY <1>1, <1>2, OpenIffReserved
<1>4. /\ \A q \in Keys : q # k => reserved'[q] = reserved[q]
      /\ reserved'[k] = IF work[w] = "reserved" THEN reserved[k] - 1 ELSE reserved[k]
      /\ reserved'[k] \in Nat /\ reserved'[k] <= reserved[k]
      /\ reserved' \in [Keys -> Nat]
  BY <1>1, <1>3 DEF Withdraw, LaneTypeOK
<1>5. LaneTypeOK'
  BY <1>1, <1>4 DEF Withdraw, LaneTypeOK
<1>6. SlotsRight'
  <2>1. CASE work[w] = "reserved"
    BY <2>1, <1>1, <1>2, <1>3, <1>4, FS_RemoveElement DEF SlotsRight, ReservedMatchesHolders
  <2>2. CASE work[w] # "reserved"
    <3>1. OpenReservations(k)' = OpenReservations(k)
      BY <2>2, <1>2
    <3> QED
      BY <2>2, <3>1, <1>2, <1>4 DEF SlotsRight, ReservedMatchesHolders
  <2> QED
    BY <2>1, <2>2
<1>7. QueueHoldsWaitingWork' /\ OneDrainPerLane' /\ NewIsNotWithdrawn'
  <2>1. QueueHoldsWaitingWork'
    BY <1>1, QueuesStay
  <2>2. OneDrainPerLane'
    BY <1>1, <1>2 DEF OneDrainPerLane
  <2>3. NewIsNotWithdrawn'
    BY <1>1 DEF NewIsNotWithdrawn, LaneTypeOK
  <2> QED
    BY <2>1, <2>2, <2>3
<1>8. LaneBounded'
  <2>1. ASSUME NEW q \in Keys
        PROVE  Occupancy(q)' <= LaneCapacity
    <3>1. reserved'[q] <= reserved[q] /\ reserved'[q] \in Nat /\ reserved[q] \in Nat
      <4>1. reserved[q] \in Nat /\ reserved'[q] \in Nat
        BY <1>4 DEF LaneTypeOK
      <4>2. q = k \/ q # k
        OBVIOUS
      <4> QED
        BY <4>1, <4>2, <1>4
    <3>2. Len(queue[q]) \in Nat /\ queue'[q] = queue[q] /\ active'[q] = active[q]
      BY <1>1 DEF LaneTypeOK
    <3>3. Len(queue[q]) + reserved[q] + (IF active[q] THEN 1 ELSE 0) <= LaneCapacity
      BY DEF LaneBounded, Occupancy
    <3> QED
      BY <3>1, <3>2, <3>3, LaneAssumption DEF Occupancy
  <2> QED
    BY <2>1 DEF LaneBounded
<1>9. MappedExactlyWhileUsed'
  <2>1. reserved'[k] = 0 <=> OpenReservations(k)' = {}
    BY <1>1, <1>4, <1>6, FS_CardinalityType, FS_EmptySet DEF SlotsRight, ReservedMatchesHolders
  <2>2. \A q \in Keys : q # k => mapped'[q] = mapped[q]
    BY <1>1 DEF Withdraw, LaneTypeOK
  <2>3. mapped'[k] = (mapped[k] /\ ~(~active[k] /\ queue[k] = <<>> /\ reserved'[k] = 0))
    BY <1>1, <1>4 DEF Withdraw, LaneTypeOK
  <2>4. mapped'[k] <=> active[k] \/ queue[k] # <<>> \/ OpenReservations(k)' # {}
    BY <2>1, <2>3, <1>1, <1>2 DEF MappedExactlyWhileUsed, LaneTypeOK
  <2> QED
    BY <2>2, <2>4, <1>1, <1>2 DEF MappedExactlyWhileUsed
<1> QED
  BY <1>5, <1>6, <1>7, <1>8, <1>9

(* execute() returns; the drain loop is still there. *)
LEMMA Return_Inv ==
  ASSUME LaneInv, NEW w \in Works, Return(w)
  PROVE  LaneInv'
<1> USE DEF LaneInv, Return
<1>1. /\ \A q \in Keys : OpenReservations(q)' = OpenReservations(q)
      /\ \A q \in Keys : InDrain(q)' = InDrain(q)
  BY DEF OpenReservations, InDrain, LaneTypeOK
<1>2. LaneTypeOK'
  BY DEF LaneTypeOK, WorkStates
<1>3. QueueHoldsWaitingWork'
  BY QueuesStay DEF LaneTypeOK
<1>4. OneDrainPerLane' /\ LaneBounded' /\ SlotsRight' /\ MappedExactlyWhileUsed'
  BY <1>1 DEF OneDrainPerLane, LaneBounded, Occupancy, SlotsRight, ReservedMatchesHolders,
     MappedExactlyWhileUsed
<1>5. NewIsNotWithdrawn'
  BY DEF NewIsNotWithdrawn, LaneTypeOK
<1> QED
  BY <1>2, <1>3, <1>4, <1>5

(* The drain loop goes on: the withdrawn work in front is dropped, the     *)
(* first wanted work runs in the place of the one that returned.           *)
LEMMA DrainNext_Inv ==
  ASSUME LaneInv, NEW w \in Works, DrainNext(w)
  PROVE  LaneInv'
<1> DEFINE k == KeyOf[w]
           q0 == queue[k]
           n == Len(queue[k])
<1> USE DEF LaneInv
<1>1. /\ k \in Keys /\ work[w] = "returned" /\ w \in InDrain(k)
      /\ mapped' = mapped /\ active' = active /\ reserved' = reserved
      /\ withdrawn' = withdrawn
  BY LaneAssumption DEF DrainNext, InDrain
<1>2. q0 \in Seq(Works) /\ n \in Nat /\ \A j \in 1..n : q0[j] \in Works
  BY <1>1 DEF LaneTypeOK
<1>3. PICK i \in Wanted(k) :
        /\ queue' = [queue EXCEPT ![k] = SubSeq(@, i + 1, Len(@))]
        /\ work' = [v \in Works |->
                      IF v = w THEN "done"
                      ELSE IF v = queue[k][i] THEN "running"
                      ELSE IF \E j \in 1..(i-1) : v = queue[k][j] THEN "dropped"
                      ELSE work[v]]
  BY DEF DrainNext
<1>4. i \in 1..n /\ i \in Nat
  BY <1>2, <1>3 DEF Wanted
<1>5. /\ queue'[k] = SubSeq(q0, i + 1, n)
      /\ \A q \in Keys : q # k => queue'[q] = queue[q]
  BY <1>1, <1>3 DEF LaneTypeOK
<1>6. /\ queue'[k] \in Seq(Works) /\ Len(queue'[k]) = n - i
      /\ \A j \in 1..(n - i) : queue'[k][j] = q0[i + j]
  <2>1. \A j \in (i + 1)..n : q0[j] \in Works
    BY <1>2, <1>4
  <2>2. i + 1 \in Int /\ n \in Int
    BY <1>2, <1>4
  <2>3. /\ SubSeq(q0, i + 1, n) \in Seq(Works)
        /\ Len(SubSeq(q0, i + 1, n)) = IF i + 1 <= n THEN n - (i + 1) + 1 ELSE 0
        /\ \A j \in 1..(n - (i + 1) + 1) : SubSeq(q0, i + 1, n)[j] = q0[(i + 1) + j - 1]
    BY <2>1, <2>2, SubSeqProperties
  <2>4. (IF i + 1 <= n THEN n - (i + 1) + 1 ELSE 0) = n - i /\ n - (i + 1) + 1 = n - i
    BY <1>2, <1>4
  <2>5. \A j \in 1..(n - i) : (i + 1) + j - 1 = i + j
    BY <1>2, <1>4
  <2> QED
    BY <2>3, <2>4, <2>5, <1>5
<1>7. /\ \A j \in 1..n : KeyOf[q0[j]] = k /\ work[q0[j]] = "queued" /\ q0[j] # w
      /\ \A j, m \in 1..n : j # m => q0[j] # q0[m]
  BY <1>1 DEF QueueHoldsWaitingWork
<1>8. /\ work'[w] = "done" /\ work'[q0[i]] = "running"
      /\ \A j \in 1..(i-1) : work'[q0[j]] = "dropped"
      /\ \A j \in (i+1)..n : work'[q0[j]] = "queued"
  <2>1. work'[w] = "done" /\ work'[q0[i]] = "running"
    BY <1>2, <1>3, <1>4, <1>7
  <2>2. ASSUME NEW j \in 1..(i-1) PROVE work'[q0[j]] = "dropped"
    <3>1. j \in 1..n /\ j # i
      BY <1>2, <1>4
    <3> QED
      BY <3>1, <1>2, <1>3, <1>4, <1>7
  <2>3. ASSUME NEW j \in (i+1)..n PROVE work'[q0[j]] = "queued"
    <3>1. j \in 1..n /\ j # i /\ \A m \in 1..(i-1) : m \in 1..n /\ m # j
      BY <1>2, <1>4
    <3>2. q0[j] # q0[i] /\ ~\E m \in 1..(i-1) : q0[j] = q0[m]
      BY <3>1, <1>4, <1>7
    <3> QED
      BY <3>1, <3>2, <1>2, <1>3, <1>7
  <2> QED
    BY <2>1, <2>2, <2>3
<1>9. \A v \in Works : v # w /\ (\A j \in 1..n : v # q0[j]) => work'[v] = work[v]
  <2>1. \A j \in 1..(i-1) : j \in 1..n
    BY <1>2, <1>4
  <2> QED
    BY <2>1, <1>3, <1>4
<1>10. LaneTypeOK'
  <2>1. work' \in [Works -> WorkStates]
    BY <1>3 DEF LaneTypeOK, WorkStates
  <2>2. queue' \in [Keys -> Seq(Works)]
    BY <1>1, <1>3, <1>5, <1>6 DEF LaneTypeOK
  <2> QED
    BY <2>1, <2>2, <1>1 DEF LaneTypeOK
<1>11. \A v \in Works : work'[v] = "reserved" <=> work[v] = "reserved"
  <2> TAKE v \in Works
  <2>1. CASE v = w
    BY <2>1, <1>1, <1>8
  <2>2. CASE \E j \in 1..n : v = q0[j]
    <3>1. PICK j \in 1..n : v = q0[j]
      BY <2>2
    <3>2. work[v] = "queued" /\ work'[v] \in {"running", "dropped", "queued"}
      <4>1. j = i \/ j \in 1..(i-1) \/ j \in (i+1)..n
        BY <1>2, <1>4
      <4> QED
        BY <4>1, <3>1, <1>7, <1>8
    <3> QED
      BY <3>2
  <2>3. CASE v # w /\ \A j \in 1..n : v # q0[j]
    BY <2>3, <1>9
  <2> QED
    BY <2>1, <2>2, <2>3
<1>12. \A q \in Keys : OpenReservations(q)' = OpenReservations(q)
  BY <1>1, <1>11 DEF OpenReservations
<1>13. SlotsRight'
  BY <1>1, <1>12 DEF SlotsRight, ReservedMatchesHolders
<1>14. /\ InDrain(k)' = {q0[i]}
       /\ \A q \in Keys : q # k => InDrain(q)' = InDrain(q)
  <2>1. \A v \in Works : v \in InDrain(k) => v = w
    BY <1>1 DEF OneDrainPerLane
  <2>2. ASSUME NEW v \in Works, KeyOf[v] = k, work'[v] \in {"running", "returned"}
        PROVE  v = q0[i]
    <3>1. v # w
      BY <2>2, <1>8
    <3>2. work[v] \notin {"running", "returned"}
      BY <2>1, <2>2, <3>1 DEF InDrain
    <3>3. PICK j \in 1..n : v = q0[j]
      BY <2>2, <3>1, <3>2, <1>9
    <3>4. j = i \/ j \in 1..(i-1) \/ j \in (i+1)..n
      BY <1>2, <1>4
    <3> QED
      BY <2>2, <3>3, <3>4, <1>8
  <2>3. InDrain(k)' = {q0[i]}
    BY <2>2, <1>2, <1>4, <1>7, <1>8 DEF InDrain
  <2>4. ASSUME NEW q \in Keys, q # k PROVE InDrain(q)' = InDrain(q)
    <3>1. \A v \in Works : KeyOf[v] = q => v # w /\ \A j \in 1..n : v # q0[j]
      BY <2>4, <1>7
    <3> QED
      BY <3>1, <1>9 DEF InDrain
  <2> QED
    BY <2>3, <2>4
<1>15. OneDrainPerLane'
  <2>1. active[k]
    BY <1>1 DEF OneDrainPerLane
  <2>2. ASSUME NEW q \in Keys
        PROVE  /\ \A u, v \in InDrain(q)' : u = v
               /\ active'[q] <=> InDrain(q)' # {}
    <3>1. CASE q = k
      BY <3>1, <2>1, <1>1, <1>14
    <3>2. CASE q # k
      BY <3>2, <1>1, <1>14 DEF OneDrainPerLane
    <3> QED
      BY <3>1, <3>2
  <2> QED
    BY <2>2 DEF OneDrainPerLane
<1>16. LaneBounded'
  <2>1. ASSUME NEW q \in Keys PROVE Occupancy(q)' <= LaneCapacity
    <3>1. reserved[q] \in Nat /\ Occupancy(q) <= LaneCapacity /\ LaneCapacity \in Nat
      BY LaneAssumption DEF LaneTypeOK, LaneBounded
    <3>2. CASE q = k
      BY <3>1, <3>2, <1>1, <1>2, <1>4, <1>6 DEF Occupancy
    <3>3. CASE q # k
      BY <3>1, <3>3, <1>1, <1>5 DEF Occupancy
    <3> QED
      BY <3>2, <3>3
  <2> QED
    BY <2>1 DEF LaneBounded
<1>17. MappedExactlyWhileUsed'
  <2>1. active[k]
    BY <1>1 DEF OneDrainPerLane
  <2>2. ASSUME NEW q \in Keys
        PROVE  mapped'[q] <=> active'[q] \/ queue'[q] # <<>> \/ OpenReservations(q)' # {}
    <3>1. CASE q = k
      BY <3>1, <2>1, <1>1 DEF MappedExactlyWhileUsed
    <3>2. CASE q # k
      BY <3>2, <1>1, <1>5, <1>12 DEF MappedExactlyWhileUsed
    <3> QED
      BY <3>1, <3>2
  <2> QED
    BY <2>2 DEF MappedExactlyWhileUsed
<1>18. NewIsNotWithdrawn'
  <2>1. \A v \in Works : work'[v] \in {"new", "rejected"} => work[v] \in {"new", "rejected"}
    BY <1>3
  <2> QED
    BY <2>1, <1>1 DEF NewIsNotWithdrawn
<1>19. QueueHoldsWaitingWork'
  <2>1. \A j \in 1..Len(queue'[k]) : i + j \in (i+1)..n /\ i + j \in 1..n /\ queue'[k][j] = q0[i + j]
    BY <1>2, <1>4, <1>6
  <2>2. ASSUME NEW q \in Keys
        PROVE  /\ \A j \in 1..Len(queue'[q]) :
                    KeyOf[queue'[q][j]] = q /\ work'[queue'[q][j]] = "queued"
               /\ \A j, m \in 1..Len(queue'[q]) : j # m => queue'[q][j] # queue'[q][m]
               /\ ~active'[q] => queue'[q] = <<>>
    <3>1. CASE q = k
      <4>1. \A j \in 1..Len(queue'[k]) :
              KeyOf[queue'[k][j]] = k /\ work'[queue'[k][j]] = "queued"
        BY <2>1, <1>7, <1>8
      <4>2. ASSUME NEW j \in 1..Len(queue'[k]), NEW m \in 1..Len(queue'[k]), j # m
            PROVE  queue'[k][j] # queue'[k][m]
        <5>1. i + j # i + m
          BY <4>2, <1>4, <1>6
        <5> QED
          BY <5>1, <2>1, <1>7
      <4>3. active'[k]
        BY <1>1 DEF OneDrainPerLane
      <4> QED
        BY <3>1, <4>1, <4>2, <4>3
    <3>2. CASE q # k
      <4>1. \A j \in 1..Len(queue[q]) :
              /\ KeyOf[queue[q][j]] = q /\ work[queue[q][j]] = "queued"
              /\ queue[q][j] \in Works
        BY DEF QueueHoldsWaitingWork, LaneTypeOK
      <4>2. \A j \in 1..Len(queue[q]) : work'[queue[q][j]] = "queued"
        BY <3>2, <4>1, <1>1, <1>7, <1>9
      <4>3. queue'[q] = queue[q] /\ active'[q] = active[q]
        BY <3>2, <1>1, <1>5
      <4>4. /\ \A j, m \in 1..Len(queue[q]) : j # m => queue[q][j] # queue[q][m]
            /\ ~active[q] => queue[q] = <<>>
        BY DEF QueueHoldsWaitingWork
      <4>5. \A j \in 1..Len(queue[q]) : KeyOf[queue[q][j]] = q /\ work'[queue[q][j]] = "queued"
        BY <4>1, <4>2
      <4> HIDE DEF LaneInv
      <4> QED
        BY <4>3, <4>4, <4>5
    <3> QED
      BY <3>1, <3>2
  <2>3. ASSUME NEW v \in Works, work'[v] = "queued"
        PROVE  \E j \in 1..Len(queue'[KeyOf[v]]) : queue'[KeyOf[v]][j] = v
    <3>1. v # w /\ work[v] = "queued"
      BY <2>3, <1>3
    <3>2. PICK j \in 1..Len(queue[KeyOf[v]]) : queue[KeyOf[v]][j] = v
      BY <3>1 DEF QueueHoldsWaitingWork
    <3>3. CASE KeyOf[v] = k
      <4>1. j \in (i+1)..n
        <5>1. j = i \/ j \in 1..(i-1) \/ j \in (i+1)..n
          BY <3>2, <3>3, <1>2, <1>4
        <5> QED
          BY <5>1, <2>3, <3>2, <3>3, <1>8
      <4>2. j - i \in 1..(n - i) /\ i + (j - i) = j
        BY <4>1, <1>2, <1>4
      <4>3. queue'[k][j - i] = v
        BY <4>2, <3>2, <3>3, <1>6
      <4> QED
        BY <4>2, <4>3, <3>3, <1>6
    <3>4. CASE KeyOf[v] # k
      BY <3>2, <3>4, <1>5, LaneAssumption
    <3> QED
      BY <3>3, <3>4
  <2> QED
    BY <2>2, <2>3 DEF QueueHoldsWaitingWork
<1> QED
  BY <1>10, <1>13, <1>15, <1>16, <1>17, <1>18, <1>19

(* The drain loop ends: what is left in the queue is withdrawn work, and   *)
(* is dropped with it.                                                     *)
LEMMA DrainEnd_Inv ==
  ASSUME LaneInv, NEW w \in Works, DrainEnd(w)
  PROVE  LaneInv'
<1> DEFINE k == KeyOf[w]
<1> USE DEF LaneInv
<1>1. /\ k \in Keys /\ work[w] = "returned" /\ w \in InDrain(k)
      /\ reserved' = reserved /\ withdrawn' = withdrawn
      /\ active' = [active EXCEPT ![k] = FALSE]
      /\ queue' = [queue EXCEPT ![k] = <<>>]
      /\ mapped' = [mapped EXCEPT ![k] = @ /\ reserved[k] # 0]
      /\ work' = [v \in Works |->
                   IF v = w THEN "done"
                   ELSE IF \E j \in 1..Len(queue[k]) : v = queue[k][j] THEN "dropped"
                   ELSE work[v]]
  BY LaneAssumption DEF DrainEnd, InDrain
<1>2. /\ queue'[k] = <<>> /\ ~active'[k]
      /\ \A q \in Keys : q # k => queue'[q] = queue[q] /\ active'[q] = active[q]
                                   /\ mapped'[q] = mapped[q]
  BY <1>1 DEF LaneTypeOK
<1>3. \A v \in Works : v \in InDrain(k) => v = w
  BY <1>1 DEF OneDrainPerLane
<1>4. \A j \in 1..Len(queue[k]) : KeyOf[queue[k][j]] = k /\ work[queue[k][j]] = "queued"
  BY <1>1 DEF QueueHoldsWaitingWork
<1>5. ASSUME NEW v \in Works, v # w, KeyOf[v] # k \/ work[v] # "queued"
      PROVE  work'[v] = work[v]
  BY <1>1, <1>4, <1>5
<1>6. ASSUME NEW v \in Works, KeyOf[v] = k, work[v] = "queued"
      PROVE  work'[v] = "dropped"
  <2>1. PICK j \in 1..Len(queue[k]) : queue[k][j] = v
    BY <1>6 DEF QueueHoldsWaitingWork
  <2> QED
    BY <2>1, <1>1, <1>6
<1>7. LaneTypeOK'
  <2>1. work' \in [Works -> WorkStates]
    BY <1>1 DEF LaneTypeOK, WorkStates
  <2>2. <<>> \in Seq(Works)
    OBVIOUS
  <2> QED
    BY <2>1, <2>2, <1>1 DEF LaneTypeOK
<1>8. \A q \in Keys : OpenReservations(q)' = OpenReservations(q)
  <2>1. \A v \in Works : work'[v] = "reserved" <=> work[v] = "reserved"
    BY <1>1, <1>5, <1>6
  <2> QED
    BY <2>1, <1>1 DEF OpenReservations
<1>9. SlotsRight'
  BY <1>1, <1>8 DEF SlotsRight, ReservedMatchesHolders
<1>10. /\ InDrain(k)' = {}
       /\ \A q \in Keys : q # k => InDrain(q)' = InDrain(q)
  <2>1. \A v \in Works : KeyOf[v] = k => work'[v] \notin {"running", "returned"}
    BY <1>1, <1>3, <1>5, <1>6 DEF InDrain
  <2>2. \A v \in Works : KeyOf[v] # k => work'[v] = work[v]
    BY <1>5
  <2> QED
    BY <2>1, <2>2 DEF InDrain
<1>11. OneDrainPerLane'
  <2>1. ASSUME NEW q \in Keys
        PROVE  /\ \A u, v \in InDrain(q)' : u = v
               /\ active'[q] <=> InDrain(q)' # {}
    <3>1. CASE q = k
      BY <3>1, <1>2, <1>10
    <3>2. CASE q # k
      BY <3>2, <1>2, <1>10 DEF OneDrainPerLane
    <3> QED
      BY <3>1, <3>2
  <2> QED
    BY <2>1 DEF OneDrainPerLane
<1>12. LaneBounded'
  <2>1. ASSUME NEW q \in Keys PROVE Occupancy(q)' <= LaneCapacity
    <3>1. /\ reserved[q] \in Nat /\ Len(queue[q]) \in Nat /\ LaneCapacity \in Nat
          /\ Len(queue[q]) + reserved[q] + (IF active[q] THEN 1 ELSE 0) <= LaneCapacity
      BY LaneAssumption DEF LaneTypeOK, LaneBounded, Occupancy
    <3>2. CASE q = k
      <4>1. Occupancy(k)' = 0 + reserved[k] + 0
        BY <1>1, <1>2 DEF Occupancy
      <4> QED
        BY <4>1, <3>1, <3>2
    <3>3. CASE q # k
      BY <3>1, <3>3, <1>1, <1>2 DEF Occupancy
    <3> QED
      BY <3>2, <3>3
  <2> QED
    BY <2>1 DEF LaneBounded
<1>13. MappedExactlyWhileUsed'
  <2>1. mapped[k]
    BY <1>1 DEF MappedExactlyWhileUsed, OneDrainPerLane
  <2>2. mapped'[k] <=> OpenReservations(k)' # {}
    BY <2>1, <1>1, <1>8, OpenIffReserved DEF LaneTypeOK
  <2>3. ASSUME NEW q \in Keys
        PROVE  mapped'[q] <=> active'[q] \/ queue'[q] # <<>> \/ OpenReservations(q)' # {}
    <3>1. CASE q = k
      BY <3>1, <2>2, <1>2
    <3>2. CASE q # k
      BY <3>2, <1>2, <1>8 DEF MappedExactlyWhileUsed
    <3> QED
      BY <3>1, <3>2
  <2> QED
    BY <2>3 DEF MappedExactlyWhileUsed
<1>14. NewIsNotWithdrawn'
  <2>1. \A v \in Works : work'[v] \in {"new", "rejected"} => work[v] \in {"new", "rejected"}
    BY <1>1
  <2> QED
    BY <2>1, <1>1 DEF NewIsNotWithdrawn
<1>15. QueueHoldsWaitingWork'
  <2>1. ASSUME NEW q \in Keys
        PROVE  /\ \A j \in 1..Len(queue'[q]) :
                    KeyOf[queue'[q][j]] = q /\ work'[queue'[q][j]] = "queued"
               /\ \A j, m \in 1..Len(queue'[q]) : j # m => queue'[q][j] # queue'[q][m]
               /\ ~active'[q] => queue'[q] = <<>>
    <3>1. CASE q = k
      BY <3>1, <1>2
    <3>2. CASE q # k
      <4>1. \A j \in 1..Len(queue[q]) :
              /\ KeyOf[queue[q][j]] = q /\ work[queue[q][j]] = "queued"
              /\ queue[q][j] \in Works
        BY DEF QueueHoldsWaitingWork, LaneTypeOK
      <4>2. \A j \in 1..Len(queue[q]) : KeyOf[queue[q][j]] = q /\ work'[queue[q][j]] = "queued"
        BY <3>2, <4>1, <1>1, <1>5
      <4>3. queue'[q] = queue[q] /\ active'[q] = active[q]
        BY <3>2, <1>2
      <4>4. /\ \A j, m \in 1..Len(queue[q]) : j # m => queue[q][j] # queue[q][m]
            /\ ~active[q] => queue[q] = <<>>
        BY DEF QueueHoldsWaitingWork
      <4> HIDE DEF LaneInv
      <4> QED
        BY <4>2, <4>3, <4>4
    <3> QED
      BY <3>1, <3>2
  <2>2. ASSUME NEW v \in Works, work'[v] = "queued"
        PROVE  \E j \in 1..Len(queue'[KeyOf[v]]) : queue'[KeyOf[v]][j] = v
    <3>1. v # w /\ work[v] = "queued"
      BY <2>2, <1>1
    <3>2. KeyOf[v] # k /\ KeyOf[v] \in Keys
      BY <2>2, <3>1, <1>6, LaneAssumption
    <3> QED
      BY <3>1, <3>2, <1>2 DEF QueueHoldsWaitingWork
  <2> QED
    BY <2>1, <2>2 DEF QueueHoldsWaitingWork
<1> QED
  BY <1>7, <1>9, <1>11, <1>12, <1>13, <1>14, <1>15

-----------------------------------------------------------------------------
(* The process dies and another one starts: the lanes are empty again, and *)
(* the work there was is not asked for a second time.                      *)
LaneReset ==
  /\ mapped' = [k \in Keys |-> FALSE] /\ active' = [k \in Keys |-> FALSE]
  /\ reserved' = [k \in Keys |-> 0] /\ queue' = [k \in Keys |-> <<>>]
  /\ work' \in [Works -> {"new", "rejected", "done"}]
  /\ withdrawn' = [w \in Works |-> FALSE]

(* A restart establishes the invariant afresh. *)
LEMMA LaneReset_Inv ==
  ASSUME LaneReset
  PROVE  LaneInv'
<1> USE DEF LaneReset
<1>1. \A k \in Keys : OpenReservations(k)' = {} /\ InDrain(k)' = {}
  BY DEF OpenReservations, InDrain
<1>2. LaneTypeOK'
  <2>1. <<>> \in Seq(Works)
    OBVIOUS
  <2> QED
    BY <2>1 DEF LaneTypeOK, WorkStates
<1>3. QueueHoldsWaitingWork'
  BY DEF QueueHoldsWaitingWork
<1>4. OneDrainPerLane' /\ MappedExactlyWhileUsed'
  BY <1>1 DEF OneDrainPerLane, MappedExactlyWhileUsed
<1>5. LaneBounded'
  BY LaneAssumption DEF LaneBounded, Occupancy
<1>6. SlotsRight'
  BY <1>1, FS_EmptySet DEF SlotsRight, ReservedMatchesHolders
<1>7. NewIsNotWithdrawn'
  BY DEF NewIsNotWithdrawn
<1> QED
  BY <1>2, <1>3, <1>4, <1>5, <1>6, <1>7 DEF LaneInv

-----------------------------------------------------------------------------
(* The invariant is inductive. *)
LEMMA LaneNext_Inv == LaneInv /\ [LaneNext]_laneVars => LaneInv'
<1> SUFFICES ASSUME LaneInv, [LaneNext]_laneVars PROVE LaneInv'
  OBVIOUS
<1>1. CASE LaneNext
  BY <1>1, Reserve_Inv, Idle_Inv, Enqueue_Inv, Withdraw_Inv, Return_Inv, DrainNext_Inv,
     DrainEnd_Inv DEF LaneNext
<1>2. CASE UNCHANGED laneVars
  BY <1>2 DEF laneVars, LaneInv, LaneTypeOK, QueueHoldsWaitingWork, OneDrainPerLane,
     LaneBounded, Occupancy, SlotsRight, ReservedMatchesHolders, MappedExactlyWhileUsed,
     NewIsNotWithdrawn, OpenReservations, InDrain
<1> QED
  BY <1>1, <1>2

(* And hence holds throughout. *)
LEMMA LaneInvariant == LaneSpec => []LaneInv
BY LaneInit_Inv, LaneNext_Inv, PTL DEF LaneSpec

(* At most one drain loop runs on each lane, for every number of sessions, *)
(* runs and slots: the serialization the runtime rests on.                 *)
THEOREM LanesAreSerial == LaneSpec => []OneDrainPerLane
<1>1. LaneInv => OneDrainPerLane
  BY DEF LaneInv
<1> QED
  BY <1>1, LaneInvariant, PTL

(* No lane is ever fuller than its capacity.                               *)
THEOREM LanesAreBounded == LaneSpec => [](LaneTypeOK /\ LaneBounded)
<1>1. LaneInv => LaneTypeOK /\ LaneBounded
  BY DEF LaneInv, SlotsRight
<1> QED
  BY <1>1, LaneInvariant, PTL

(* The slots a lane counts as reserved are those whose holders have        *)
(* neither enqueued nor cancelled.                                         *)
THEOREM SlotsAreCounted == LaneSpec => []ReservedMatchesHolders
<1>1. LaneInv => ReservedMatchesHolders
  BY DEF LaneInv, SlotsRight
<1> QED
  BY <1>1, LaneInvariant, PTL

(* A lane object is in the map exactly while it is used, and its queue     *)
(* holds exactly the work that waits for it.                               *)
THEOREM LanesAreKept == LaneSpec => [](MappedExactlyWhileUsed /\ QueueHoldsWaitingWork)
<1>1. LaneInv => MappedExactlyWhileUsed /\ QueueHoldsWaitingWork
  BY DEF LaneInv
<1> QED
  BY <1>1, LaneInvariant, PTL

-----------------------------------------------------------------------------
(* Among, by induction on sequences and on numbers.  An induction is over  *)
(* a set, as a smallest counterexample: every non-empty set of numbers has *)
(* a least one.                                                            *)
LEMMA SmallestNumber ==
  ASSUME NEW F, F \subseteq Nat, F # {}
  PROVE  \E n \in F : \A m \in F : n <= m
<1>1. PICK n \in F : TRUE
  OBVIOUS
<1> DEFINE G == {T \in SUBSET (0..n) : \E m \in F : T = 0..m}
<1>2. IsWellFoundedOn(StrictSubsetOrdering(0..n), FiniteSubsetsOf(0..n))
  BY <1>1, FS_Interval, FS_StrictSubsetOrderingWellFounded
<1>3. G \subseteq FiniteSubsetsOf(0..n) /\ G # {}
  <2>1. 0..n \in G
    BY <1>1
  <2>2. G \subseteq SUBSET (0..n) /\ IsFiniteSet(0..n)
    BY <1>1, FS_Interval
  <2> HIDE DEF G
  <2> QED
    BY <2>1, <2>2, FS_FiniteSubsetsOfFinite
<1>4. PICK T \in G : \A U \in G : ~(<<U, T>> \in StrictSubsetOrdering(0..n))
  <2> HIDE DEF G
  <2> QED
    BY <1>2, <1>3, WFMin
<1>5. PICK k \in F : T = 0..k
  BY <1>4
<1>6. ASSUME NEW m \in F, m < k PROVE FALSE
  <2>1. n \in Nat /\ m \in Nat /\ k \in Nat /\ 0..k \in SUBSET (0..n)
    BY <1>1, <1>4, <1>5
  <2>2. k \in 0..n
    BY <2>1
  <2>3. 0..m \subseteq 0..n /\ 0..m \subseteq 0..k /\ 0..m # 0..k
    BY <1>6, <2>1, <2>2
  <2>4. 0..m \in G
    BY <2>3
  <2> QED
    BY <1>4, <1>5, <2>3, <2>4 DEF StrictSubsetOrdering
<1> QED
  BY <1>5, <1>6

(* Induction on sequences, for a set of them.                              *)
LEMMA SequencesByAppend ==
  ASSUME NEW D, NEW G, <<>> \in G,
         \A r \in Seq(D) \cap G : \A x \in D : Append(r, x) \in G
  PROVE  Seq(D) \subseteq G
<1> DEFINE Bad == {s \in Seq(D) : s \notin G}
           F   == {n \in Nat : \E s \in Bad : Len(s) = n}
<1>1. ASSUME Bad # {} PROVE FALSE
  <2>1. F \subseteq Nat /\ F # {}
    BY <1>1
  <2>2. PICK n \in F : \A m \in F : n <= m
    <3> HIDE DEF F
    <3> QED
      BY <2>1, SmallestNumber
  <2>3. PICK s \in Seq(D) : s \notin G /\ Len(s) = n
    BY <2>2
  <2>4. s # <<>>
    BY <2>3
  <2> DEFINE r == SubSeq(s, 1, n - 1)
  <2>5. n \in Nat /\ n > 0
    BY <2>3, <2>4
  <2>6. r \in Seq(D) /\ Len(r) = n - 1 /\ s[n] \in D
    BY <2>3, <2>5
  <2>7. s = Append(r, s[n])
    BY <2>3, <2>5, <2>6
  <2>8. r \in G
    <3>1. ~ (n <= n - 1) /\ n - 1 \in Nat
      BY <2>5
    <3> HIDE DEF r
    <3>2. n - 1 \notin F
      BY <2>2, <3>1
    <3> QED
      BY <2>6, <3>1, <3>2
  <2> HIDE DEF r
  <2> QED
    BY <2>3, <2>6, <2>7, <2>8
<1> QED
  BY <1>1

(* What defines the function, for the first n places.                      *)
Upto(s, S, n, g) ==
  g = [i \in 0..n |->
         IF i = 0 THEN <<>> ELSE IF s[i] \in S THEN Append(g[i-1], s[i]) ELSE g[i-1]]

LEMMA AmongDef == \A s, S : Among(s, S) = (CHOOSE g : Upto(s, S, Len(s), g))[Len(s)]
BY DEF Among, Upto

LEMMA UptoExists ==
  ASSUME NEW s, NEW S, NEW n \in Nat
  PROVE  Upto(s, S, n, CHOOSE g : Upto(s, S, n, g))
<1> DEFINE F == {m \in Nat : ~ \E g : Upto(s, S, m, g)}
<1>1. ASSUME F # {} PROVE FALSE
  <2>1. PICK m \in F : \A k \in F : m <= k
    <3>1. F \subseteq Nat
      OBVIOUS
    <3> HIDE DEF F
    <3> QED
      BY <1>1, <3>1, SmallestNumber
  <2>2. m \in Nat /\ ~ \E g : Upto(s, S, m, g)
    BY <2>1
  <2>3. CASE m = 0
    <3>1. Upto(s, S, 0, [i \in 0..0 |-> <<>>])
      BY DEF Upto
    <3> QED
      BY <2>2, <2>3, <3>1
  <2>4. CASE m # 0
    <3>1. m - 1 \in Nat /\ ~ (m <= m - 1)
      BY <2>2, <2>4
    <3>2. m - 1 \notin F
      BY <2>1, <3>1
    <3>3. PICK h : Upto(s, S, m - 1, h)
      BY <3>1, <3>2
    <3> DEFINE g == [i \in 0..m |->
                       IF i = m THEN IF s[m] \in S THEN Append(h[m-1], s[m]) ELSE h[m-1]
                       ELSE h[i]]
    <3>4. \A i \in 0..m : i # 0 => i - 1 \in 0..m /\ i - 1 # m /\ g[i-1] = h[i-1]
      BY <2>2
    <3>5. \A i \in 0..m : i # m => i \in 0..(m-1)
      BY <2>2
    <3>6. \A i \in 0..(m-1) :
            h[i] = IF i = 0 THEN <<>>
                   ELSE IF s[i] \in S THEN Append(h[i-1], s[i]) ELSE h[i-1]
      BY <3>3 DEF Upto
    <3>7. \A i \in 0..m :
            g[i] = IF i = 0 THEN <<>>
                   ELSE IF s[i] \in S THEN Append(g[i-1], s[i]) ELSE g[i-1]
      BY <2>4, <3>4, <3>5, <3>6
    <3>8. Upto(s, S, m, g)
      <4>1. g = [i \in 0..m |-> g[i]]
        OBVIOUS
      <4> HIDE DEF g
      <4> QED
        BY <3>7, <4>1 DEF Upto
    <3> QED
      BY <2>2, <3>8
  <2> QED
    BY <2>3, <2>4
<1> QED
  BY <1>1

(* Sequences with the same first k members have the same of them in S.     *)
LEMMA UptoAgree ==
  ASSUME NEW s, NEW t, NEW S, NEW k \in Nat, NEW m \in Nat, NEW n \in Nat, k <= m, k <= n,
         \A i \in 1..k : s[i] = t[i],
         NEW g, Upto(s, S, m, g), NEW h, Upto(t, S, n, h)
  PROVE  g[k] = h[k]
<1> DEFINE F == {i \in 0..k : g[i] # h[i]}
<1>1. ASSUME F # {} PROVE FALSE
  <2>1. PICK j \in F : \A i \in F : j <= i
    <3>1. F \subseteq Nat
      OBVIOUS
    <3> HIDE DEF F
    <3> QED
      BY <1>1, <3>1, SmallestNumber
  <2>2. j \in 0..k /\ j \in 0..m /\ j \in 0..n /\ g[j] # h[j]
    BY <2>1
  <2>3. /\ g[j] = IF j = 0 THEN <<>> ELSE IF s[j] \in S THEN Append(g[j-1], s[j]) ELSE g[j-1]
        /\ h[j] = IF j = 0 THEN <<>> ELSE IF t[j] \in S THEN Append(h[j-1], t[j]) ELSE h[j-1]
    BY <2>2 DEF Upto
  <2>4. CASE j # 0
    <3>1. j - 1 \in 0..k /\ ~ (j <= j - 1) /\ j \in 1..k
      BY <2>2, <2>4
    <3>2. g[j-1] = h[j-1] /\ s[j] = t[j]
      BY <2>1, <3>1
    <3> QED
      BY <2>2, <2>3, <2>4, <3>2
  <2> QED
    BY <2>2, <2>3, <2>4
<1>2. k \in 0..k
  OBVIOUS
<1> QED
  BY <1>1, <1>2

LEMMA AmongOfNone == \A S : Among(<<>>, S) = <<>>
<1> SUFFICES ASSUME NEW S PROVE Among(<<>>, S) = <<>>
  OBVIOUS
<1>1. Upto(<<>>, S, 0, CHOOSE g : Upto(<<>>, S, 0, g))
  BY UptoExists
<1>2. (CHOOSE g : Upto(<<>>, S, 0, g))[0] = <<>>
  BY <1>1 DEF Upto
<1> QED
  BY <1>2, AmongDef

LEMMA AmongAppend ==
  ASSUME NEW D, NEW s \in Seq(D), NEW x \in D, NEW S
  PROVE  Among(Append(s, x), S) = IF x \in S THEN Append(Among(s, S), x) ELSE Among(s, S)
<1> DEFINE t == Append(s, x)
           n == Len(s)
           g == CHOOSE f : Upto(t, S, n + 1, f)
           h == CHOOSE f : Upto(s, S, n, f)
<1>1. n \in Nat /\ Len(t) = n + 1 /\ t[n + 1] = x /\ \A i \in 1..n : s[i] = t[i]
  OBVIOUS
<1>2. Upto(t, S, n + 1, g) /\ Upto(s, S, n, h)
  BY <1>1, UptoExists
<1>3. Among(t, S) = g[n + 1] /\ Among(s, S) = h[n]
  BY <1>1, AmongDef
<1> HIDE DEF g, h, t, n
<1>4. g[n] = h[n]
  <2>1. n \in Nat /\ n <= n + 1 /\ n <= n /\ n + 1 \in Nat
    BY <1>1
  <2>2. \A i \in 1..n : t[i] = s[i]
    BY <1>1
  <2> QED
    BY <1>2, <2>1, <2>2, UptoAgree
<1>5. g[n + 1] = IF t[n + 1] \in S THEN Append(g[n], t[n + 1]) ELSE g[n]
  <2>1. n + 1 \in 0..(n + 1) /\ n + 1 # 0 /\ (n + 1) - 1 = n
    BY <1>1
  <2> QED
    BY <1>2, <2>1 DEF Upto
<1> QED
  BY <1>1, <1>3, <1>4, <1>5 DEF t

(* Leaving out the first i of a sequence, and appending.                   *)
LEMMA SubSeqAppend ==
  ASSUME NEW D, NEW r \in Seq(D), NEW x \in D, NEW i \in Nat, i <= Len(r)
  PROVE  /\ SubSeq(r, i + 1, Len(r)) \in Seq(D)
         /\ SubSeq(Append(r, x), i + 1, Len(r) + 1) = Append(SubSeq(r, i + 1, Len(r)), x)
<1> DEFINE n == Len(r)
           t == Append(r, x)
           a == SubSeq(t, i + 1, n + 1)
           b == SubSeq(r, i + 1, n)
<1>1. /\ n \in Nat /\ t \in Seq(D) /\ t[n + 1] = x
      /\ \A j \in 1..n : t[j] = r[j] /\ r[j] \in D
  OBVIOUS
<1>2. \A j \in (i + 1)..(n + 1) : t[j] \in D
  BY <1>1
<1>3. /\ a \in Seq(D) /\ Len(a) = n + 1 - i
      /\ \A j \in 1..(n + 1 - i) : a[j] = t[i + j]
  <2> DEFINE p == i + 1
             q == n + 1
  <2>1. /\ p \in Int /\ q \in Int /\ p <= q /\ \A j \in p..q : t[j] \in D
        /\ q - p + 1 = n + 1 - i
        /\ \A j \in 1..(n + 1 - i) : p + j - 1 = i + j
    BY <1>1, <1>2
  <2> HIDE DEF t, n, p, q
  <2>2. /\ SubSeq(t, p, q) \in Seq(D)
        /\ Len(SubSeq(t, p, q)) = q - p + 1
        /\ \A j \in 1..(q - p + 1) : SubSeq(t, p, q)[j] = t[p + j - 1]
    BY <2>1, SubSeqProperties
  <2>3. a = SubSeq(t, p, q)
    BY DEF p, q
  <2> HIDE DEF a
  <2> QED
    BY <2>1, <2>2, <2>3
<1>4. /\ b \in Seq(D) /\ Len(b) = n - i
      /\ \A j \in 1..(n - i) : b[j] = r[i + j]
  <2>1. /\ SubSeq(r, i + 1, n) \in Seq(D)
        /\ Len(SubSeq(r, i + 1, n)) = IF i + 1 <= n THEN n - (i + 1) + 1 ELSE 0
        /\ \A j \in 1..(n - (i + 1) + 1) : SubSeq(r, i + 1, n)[j] = r[i + 1 + j - 1]
    <3>1. i + 1 \in Int /\ n \in Int /\ \A j \in (i + 1)..n : r[j] \in D
      BY <1>1
    <3> HIDE DEF n
    <3> QED
      BY <3>1, SubSeqProperties
  <2>2. n - (i + 1) + 1 = n - i /\ (~ (i + 1 <= n) => n - i = 0)
    BY <1>1
  <2>3. \A j \in 1..(n - i) : i + 1 + j - 1 = i + j
    BY <1>1
  <2> HIDE DEF n
  <2> QED
    BY <2>1, <2>2, <2>3
<1> HIDE DEF a, b
<1>5. /\ Append(b, x) \in Seq(D) /\ Len(Append(b, x)) = n - i + 1
      /\ \A j \in 1..(n - i) : Append(b, x)[j] = b[j]
      /\ Append(b, x)[n - i + 1] = x
  BY <1>4, AppendProperties
<1>6. \A j \in 1..(n + 1 - i) : a[j] = Append(b, x)[j]
  <2> SUFFICES ASSUME NEW j \in 1..(n + 1 - i) PROVE a[j] = Append(b, x)[j]
    OBVIOUS
  <2>1. a[j] = t[i + j]
    BY <1>3
  <2>2. CASE j = n + 1 - i
    <3>1. i + j = n + 1 /\ j = n - i + 1
      BY <1>1, <2>2
    <3> QED
      BY <1>1, <1>5, <2>1, <3>1
  <2>3. CASE j # n + 1 - i
    <3>1. j \in 1..(n - i) /\ i + j \in 1..n
      BY <1>1, <2>3
    <3> QED
      BY <1>1, <1>4, <1>5, <2>1, <3>1
  <2> QED
    BY <2>2, <2>3
<1>7. n + 1 - i = n - i + 1
  BY <1>1
<1>8. a = Append(b, x)
  BY <1>3, <1>5, <1>6, <1>7, SeqEqual
<1> QED
  BY <1>4, <1>8 DEF a, b

LEMMA AmongType ==
  ASSUME NEW D, NEW S, NEW s \in Seq(D)
  PROVE  Among(s, S) \in Seq(D)
<1> DEFINE G == {r \in Seq(D) : Among(r, S) \in Seq(D)}
<1>0. <<>> \in Seq(D)
  OBVIOUS
<1>1. <<>> \in G
  BY <1>0, AmongOfNone
<1>2. ASSUME NEW r \in Seq(D), Among(r, S) \in Seq(D), NEW x \in D
      PROVE  Append(r, x) \in Seq(D) /\ Among(Append(r, x), S) \in Seq(D)
  <2>1. Among(Append(r, x), S) = IF x \in S THEN Append(Among(r, S), x) ELSE Among(r, S)
    BY AmongAppend
  <2>2. Append(Among(r, S), x) \in Seq(D) /\ Append(r, x) \in Seq(D)
    BY <1>2, AppendProperties
  <2> QED
    BY <1>2, <2>1, <2>2
<1>3. \A r \in Seq(D) \cap G : \A x \in D : Append(r, x) \in G
  BY <1>2
<1> HIDE DEF G
<1>4. Seq(D) \subseteq G
  BY <1>1, <1>3, SequencesByAppend
<1> QED
  BY <1>4 DEF G

(* Only whether the members of the sequence are in the set matters.        *)
LEMMA AmongAlike ==
  ASSUME NEW D, NEW S, NEW T, NEW s \in Seq(D), \A i \in 1..Len(s) : s[i] \in S <=> s[i] \in T
  PROVE  Among(s, S) = Among(s, T)
<1> DEFINE Alike(r) == \A i \in 1..Len(r) : r[i] \in S <=> r[i] \in T
           G == {r \in Seq(D) : Alike(r) => Among(r, S) = Among(r, T)}
<1>1. <<>> \in G
  BY AmongOfNone
<1>2. ASSUME NEW r \in Seq(D), r \in G, NEW x \in D, Alike(Append(r, x))
      PROVE  Among(Append(r, x), S) = Among(Append(r, x), T)
  <2>1. \A i \in 1..Len(r) : i \in 1..Len(Append(r, x)) /\ Append(r, x)[i] = r[i]
    OBVIOUS
  <2>2. Alike(r) /\ (x \in S <=> x \in T)
    <3>1. Len(r) + 1 \in 1..Len(Append(r, x)) /\ Append(r, x)[Len(r) + 1] = x
      OBVIOUS
    <3> QED
      BY <1>2, <2>1, <3>1
  <2>3. Among(r, S) = Among(r, T)
    BY <1>2, <2>2
  <2>4. /\ Among(Append(r, x), S) = IF x \in S THEN Append(Among(r, S), x) ELSE Among(r, S)
        /\ Among(Append(r, x), T) = IF x \in T THEN Append(Among(r, T), x) ELSE Among(r, T)
    BY AmongAppend
  <2> HIDE DEF Alike
  <2> QED
    BY <2>2, <2>3, <2>4
<1>3. \A r \in Seq(D) \cap G : \A x \in D : Append(r, x) \in G
  <2>1. \A r \in Seq(D) : \A x \in D : Append(r, x) \in Seq(D)
    BY AppendProperties
  <2> HIDE DEF Alike
  <2> QED
    BY <1>2, <2>1
<1> HIDE DEF G
<1>4. Seq(D) \subseteq G
  BY <1>1, <1>3, SequencesByAppend
<1> QED
  BY <1>4 DEF G

LEMMA AmongEmpty ==
  ASSUME NEW D, NEW S, NEW s \in Seq(D), \A i \in 1..Len(s) : s[i] \notin S
  PROVE  Among(s, S) = <<>>
<1> DEFINE G == {r \in Seq(D) : Among(r, {}) = <<>>}
<1>1. <<>> \in G
  BY AmongOfNone
<1>2. \A r \in Seq(D) \cap G : \A x \in D : Append(r, x) \in G
  BY AmongAppend
<1> HIDE DEF G
<1>3. Seq(D) \subseteq G
  BY <1>1, <1>2, SequencesByAppend
<1>4. Among(s, {}) = <<>>
  BY <1>3 DEF G
<1>5. Among(s, S) = Among(s, {})
  BY AmongAlike
<1> QED
  BY <1>4, <1>5

(* The first of them is the head; the tail is what comes after it.         *)
LEMMA AmongFirst ==
  ASSUME NEW D, NEW S, NEW s \in Seq(D), NEW i \in 1..Len(s), s[i] \in S,
         \A j \in 1..(i-1) : s[j] \notin S
  PROVE  /\ Among(s, S) # <<>> /\ Head(Among(s, S)) = s[i]
         /\ Tail(Among(s, S)) = Among(SubSeq(s, i + 1, Len(s)), S)
<1> DEFINE First(r) == i \in 1..Len(r) /\ r[i] \in S /\ \A j \in 1..(i-1) : r[j] \notin S
           Split(r) == /\ Among(r, S) # <<>> /\ Head(Among(r, S)) = r[i]
                       /\ Tail(Among(r, S)) = Among(SubSeq(r, i + 1, Len(r)), S)
           G == {r \in Seq(D) : First(r) => Split(r)}
<1>0. i \in Nat /\ i >= 1
  OBVIOUS
<1>1. <<>> \in G
  OBVIOUS
<1>2. ASSUME NEW r \in Seq(D), r \in G, NEW x \in D, First(Append(r, x))
      PROVE  Split(Append(r, x))
  <2> DEFINE t == Append(r, x)
             n == Len(r)
  <2>1. /\ n \in Nat /\ Len(t) = n + 1 /\ t[n + 1] = x /\ t \in Seq(D)
        /\ \A j \in 1..n : t[j] = r[j]
    OBVIOUS
  <2>2. i \in 1..(n + 1) /\ t[i] \in S /\ \A j \in 1..(i-1) : t[j] \notin S
    BY <1>2, <2>1
  <2>3. Among(t, S) = IF x \in S THEN Append(Among(r, S), x) ELSE Among(r, S)
    BY AmongAppend
  <2>4. Among(r, S) \in Seq(D)
    BY AmongType
  <2>5. CASE i = n + 1
    <3>1. \A j \in 1..Len(r) : r[j] \notin S
      BY <2>1, <2>2, <2>5
    <3>2. Among(r, S) = <<>> /\ x \in S
      BY <2>1, <2>2, <2>5, <3>1, AmongEmpty
    <3>3. Among(t, S) = <<x>>
      BY <2>3, <3>2
    <3>4. SubSeq(t, i + 1, Len(t)) = <<>>
      BY <2>1, <2>5
    <3>5. /\ Among(t, S) # <<>> /\ Head(Among(t, S)) = t[i]
          /\ Tail(Among(t, S)) = Among(SubSeq(t, i + 1, Len(t)), S)
      <4>1. <<x>> # <<>> /\ Head(<<x>>) = x /\ Tail(<<x>>) = <<>>
        OBVIOUS
      <4> HIDE DEF t, n
      <4> QED
        BY <2>1, <2>5, <3>3, <3>4, <4>1, AmongOfNone
    <3> QED
      BY <3>5
  <2>6. CASE i # n + 1
    <3>1. i \in 1..n
      BY <2>1, <2>2, <2>6
    <3>2. First(r)
      <4>1. \A j \in 1..(i-1) : j \in 1..n
        BY <1>0, <2>1, <3>1
      <4> QED
        BY <2>1, <2>2, <3>1, <4>1
    <3>3. Split(r)
      BY <1>2, <3>2
    <3> DEFINE q == SubSeq(r, i + 1, n)
    <3>4. i \in Nat /\ i <= Len(r)
      BY <1>0, <2>1, <3>1
    <3>5. q \in Seq(D) /\ SubSeq(t, i + 1, n + 1) = Append(q, x)
      BY <3>4, SubSeqAppend
    <3> HIDE DEF q
    <3>6. Among(SubSeq(t, i + 1, n + 1), S) =
            IF x \in S THEN Append(Among(q, S), x) ELSE Among(q, S)
      <4> HIDE DEF t, n
      <4>1. Among(Append(q, x), S) = IF x \in S THEN Append(Among(q, S), x) ELSE Among(q, S)
        BY <3>5, AmongAppend
      <4> QED
        BY <3>5, <4>1
    <3>7. t[i] = r[i]
      BY <2>1, <3>1
    <3>8. CASE x \in S
      <4> DEFINE a == Among(r, S)
      <4>1. Among(t, S) = Append(a, x) /\ a \in Seq(D) /\ a # <<>> /\ Head(a) = r[i]
            /\ Tail(a) = Among(q, S)
        BY <2>3, <2>4, <3>3, <3>8 DEF q
      <4> HIDE DEF a, t
      <4>2. Append(a, x) # <<>> /\ Head(Append(a, x)) = Head(a)
            /\ Tail(Append(a, x)) = Append(Tail(a), x)
        BY <4>1, HeadTailAppend, AppendProperties
      <4>3. /\ Among(t, S) # <<>> /\ Head(Among(t, S)) = t[i]
            /\ Tail(Among(t, S)) = Among(SubSeq(t, i + 1, Len(t)), S)
        BY <2>1, <3>6, <3>7, <3>8, <4>1, <4>2
      <4> QED
        BY <4>3 DEF t
    <3>9. CASE x \notin S
      <4>1. Among(r, S) # <<>> /\ Head(Among(r, S)) = r[i] /\ Tail(Among(r, S)) = Among(q, S)
        BY <3>3 DEF q
      <4> HIDE DEF t
      <4>2. /\ Among(t, S) # <<>> /\ Head(Among(t, S)) = t[i]
            /\ Tail(Among(t, S)) = Among(SubSeq(t, i + 1, Len(t)), S)
        BY <2>1, <2>3, <3>6, <3>7, <3>9, <4>1
      <4> QED
        BY <4>2 DEF t
    <3> QED
      BY <3>8, <3>9
  <2> QED
    BY <2>5, <2>6
<1>3. \A r \in Seq(D) \cap G : \A x \in D : Append(r, x) \in G
  <2>1. \A r \in Seq(D) : \A x \in D : Append(r, x) \in Seq(D)
    BY AppendProperties
  <2> HIDE DEF First, Split
  <2> QED
    BY <1>2, <2>1
<1>4. Seq(D) \subseteq G
  <2> HIDE DEF G
  <2> QED
    BY <1>1, <1>3, SequencesByAppend
<1>5. First(s)
  OBVIOUS
<1> HIDE DEF First
<1> QED
  BY <1>4, <1>5

(* (A name of its own for concatenation keeps the provers from expanding it.) *)
Joined(u, v) == u \o v

LEMMA AppendToJoined ==
  ASSUME NEW D, NEW u \in Seq(D), NEW v \in Seq(D), NEW x \in D
  PROVE  Append(Joined(u, v), x) = Joined(u, Append(v, x))
<1> SUFFICES Append(u \o v, x) = u \o Append(v, x)
  BY DEF Joined
<1> DEFINE w == <<x>>
<1>1. u \o v \in Seq(D) /\ w \in Seq(D)
  BY ConcatProperties
<1>2. Append(u \o v, x) = (u \o v) \o w /\ Append(v, x) = v \o w
  BY <1>1, AppendIsConcat
<1> HIDE DEF w
<1>3. (u \o v) \o w = u \o (v \o w)
  BY <1>1, ConcatAssociative
<1> QED
  BY <1>2, <1>3

(* One that leaves closes its place.                                       *)
ClosedAt(s, i) == SubSeq(s, 1, i - 1) \o SubSeq(s, i + 1, Len(s))

LEMMA AmongWithout ==
  ASSUME NEW D, NEW S, NEW c \in S, NEW s \in Seq(D),
         \A i, j \in 1..Len(s) : i # j => s[i] # s[j],
         NEW p \in 1..Len(s), s[p] = c
  PROVE  \E i \in 1..Len(Among(s, S)) :
           Among(s, S)[i] = c /\ Among(s, S \ {c}) = ClosedAt(Among(s, S), i)
<1> DEFINE Once(r) == /\ \A i, j \in 1..Len(r) : i # j => r[i] # r[j]
                      /\ p \in 1..Len(r) /\ r[p] = c
           Left(a, b) == \E i \in 1..Len(a) :
                           a[i] = c /\ b = SubSeq(a, 1, i - 1) \o SubSeq(a, i + 1, Len(a))
           G == {r \in Seq(D) : Once(r) => Left(Among(r, S), Among(r, S \ {c}))}
<1>1. <<>> \in G
  OBVIOUS
<1>2. ASSUME NEW r \in Seq(D), r \in G, NEW x \in D, Once(Append(r, x))
      PROVE  Left(Among(Append(r, x), S), Among(Append(r, x), S \ {c}))
  <2> DEFINE t == Append(r, x)
             n == Len(r)
             a == Among(r, S)
             b == Among(r, S \ {c})
  <2>1. /\ n \in Nat /\ Len(t) = n + 1 /\ t[n + 1] = x /\ t \in Seq(D)
        /\ \A j \in 1..n : t[j] = r[j] /\ j \in 1..(n + 1)
    OBVIOUS
  <2>2. /\ p \in 1..(n + 1) /\ t[p] = c
        /\ \A i, j \in 1..(n + 1) : i # j => t[i] # t[j]
    BY <1>2, <2>1
  <2>3. /\ Among(t, S) = IF x \in S THEN Append(a, x) ELSE a
        /\ Among(t, S \ {c}) = IF x \in S \ {c} THEN Append(b, x) ELSE b
    BY AmongAppend
  <2>4. a \in Seq(D) /\ b \in Seq(D)
    BY AmongType
  <2>5. CASE p = n + 1
    <3>1. x = c
      BY <2>1, <2>2, <2>5
    <3>2. \A j \in 1..n : r[j] # c
      BY <2>1, <2>2, <2>5
    <3>3. a = b
      BY <3>2, AmongAlike
    <3> HIDE DEF a, b, t
    <3>4. Among(t, S) = Append(a, c) /\ Among(t, S \ {c}) = a
      BY <2>3, <3>1, <3>3
    <3> DEFINE m == Len(a) + 1
    <3>5. /\ m \in 1..Len(Append(a, c)) /\ Append(a, c)[m] = c
          /\ a = SubSeq(Append(a, c), 1, m - 1) \o SubSeq(Append(a, c), m + 1, Len(Append(a, c)))
      <4>1. c \in D /\ Append(a, c) \in Seq(D) /\ Len(Append(a, c)) = m /\ m \in Nat
        BY <2>4, <3>1
      <4>2. SubSeq(Append(a, c), 1, m - 1) = a
        BY <2>4, <4>1
      <4>3. SubSeq(Append(a, c), m + 1, m) = <<>>
        BY <4>1
      <4> QED
        BY <2>4, <4>1, <4>2, <4>3
    <3> QED
      BY <3>4, <3>5 DEF t
  <2>6. CASE p # n + 1
    <3>1. p \in 1..n /\ x # c
      BY <2>1, <2>2, <2>6
    <3>2. Once(r)
      BY <2>1, <2>2, <3>1
    <3>3. Left(a, b)
      BY <1>2, <3>2
    <3> HIDE DEF a, b, t
    <3>4. PICK i \in 1..Len(a) : a[i] = c /\ b = SubSeq(a, 1, i - 1) \o SubSeq(a, i + 1, Len(a))
      BY <3>3
    <3>5. CASE x \in S
      <4>1. Among(t, S) = Append(a, x) /\ Among(t, S \ {c}) = Append(b, x)
        BY <2>3, <3>1, <3>5
      <4> DEFINE e == Append(a, x)
      <4>2. i \in 1..Len(e) /\ e[i] = c /\ Len(e) = Len(a) + 1 /\ i \in Nat /\ Len(a) \in Nat
        BY <2>4, <3>4
      <4>3. SubSeq(e, 1, i - 1) = SubSeq(a, 1, i - 1)
        BY <2>4, <3>4, <4>2
      <4>4. SubSeq(e, i + 1, Len(e)) = Append(SubSeq(a, i + 1, Len(a)), x)
        <5>1. a \in Seq(D) /\ i \in Nat /\ i <= Len(a) /\ Len(e) = Len(a) + 1
          BY <2>4, <3>4, <4>2
        <5>2. SubSeq(Append(a, x), i + 1, Len(a) + 1) = Append(SubSeq(a, i + 1, Len(a)), x)
          BY <5>1, SubSeqAppend
        <5> QED
          BY <5>1, <5>2
      <4>5. SubSeq(a, 1, i - 1) \in Seq(D) /\ SubSeq(a, i + 1, Len(a)) \in Seq(D)
        BY <2>4, <3>4, <4>2
      <4> HIDE DEF e
      <4>6. Append(b, x) = SubSeq(e, 1, i - 1) \o SubSeq(e, i + 1, Len(e))
        <5> DEFINE front == SubSeq(a, 1, i - 1)
                   back  == SubSeq(a, i + 1, Len(a))
        <5>1. b = Joined(front, back)
          BY <3>4, <4>5 DEF Joined
        <5>2. front \in Seq(D) /\ back \in Seq(D)
          BY <4>5
        <5> HIDE DEF front, back
        <5>3. Append(Joined(front, back), x) = Joined(front, Append(back, x))
          BY <5>2, AppendToJoined
        <5> QED
          BY <4>3, <4>4, <5>1, <5>3 DEF front, back, Joined
      <4> QED
        BY <4>1, <4>2, <4>6 DEF e, t
    <3>6. CASE x \notin S
      <4>1. Among(t, S) = a /\ Among(t, S \ {c}) = b
        BY <2>3, <3>6
      <4> QED
        BY <3>3, <4>1 DEF t
    <3> QED
      BY <3>5, <3>6
  <2> QED
    BY <2>5, <2>6
<1>3. \A r \in Seq(D) \cap G : \A x \in D : Append(r, x) \in G
  <2>1. \A r \in Seq(D) : \A x \in D : Append(r, x) \in Seq(D)
    BY AppendProperties
  <2> HIDE DEF Once, Left
  <2> QED
    BY <1>2, <2>1
<1>4. Seq(D) \subseteq G
  <2> HIDE DEF G
  <2> QED
    BY <1>1, <1>3, SequencesByAppend
<1>5. Once(s)
  OBVIOUS
<1> HIDE DEF Once
<1> QED
  BY <1>4, <1>5 DEF ClosedAt

-----------------------------------------------------------------------------
(* The lane coordinator implements SerialServer.                           *)
LEMMA StandingSubset == Standing \subseteq Works
BY DEF Standing

(* Nothing that the server knows of changes.                               *)
LEMMA ServerStays ==
  ASSUME \A k \in Keys : Line(k)' = Line(k) /\ Running(k)' = Running(k), Entered' = Entered
  PROVE  UNCHANGED Server!serverVars
BY DEF Server!serverVars

(* A line stays, when its queue stays and nobody in it leaves.             *)
LEMMA LineStays ==
  ASSUME LaneTypeOK, NEW k \in Keys, queue'[k] = queue[k],
         \A i \in 1..Len(queue[k]) : withdrawn'[queue[k][i]] = withdrawn[queue[k][i]]
  PROVE  Line(k)' = Line(k)
<1>1. queue[k] \in Seq(Works)
  BY DEF LaneTypeOK
<1>2. \A i \in 1..Len(queue[k]) : queue[k][i] \in Standing' <=> queue[k][i] \in Standing
  BY <1>1 DEF Standing
<1>3. Among(queue[k], Standing') = Among(queue[k], Standing)
  BY <1>1, <1>2, AmongAlike
<1> QED
  BY <1>3 DEF Line

LEMMA Init_Serves == LaneInit => Server!ServerInit
<1> SUFFICES ASSUME LaneInit PROVE Server!ServerInit
  OBVIOUS
<1>1. \A k \in Keys : Line(k) = <<>>
  BY AmongOfNone DEF LaneInit, Line
<1>2. \A k \in Keys : Running(k) = {}
  BY DEF LaneInit, Running
<1>3. Entered = {}
  BY DEF LaneInit, Entered
<1> QED
  BY <1>1, <1>2, <1>3 DEF Server!ServerInit

LEMMA Idle_Serves ==
  ASSUME LaneInv, NEW w \in Works, Reserve(w) \/ RejectFull(w) \/ EnqueueWithdrawn(w)
  PROVE  UNCHANGED Server!serverVars
<1>1. LaneTypeOK /\ UNCHANGED <<queue, withdrawn>>
  BY DEF LaneInv, Reserve, RejectFull, EnqueueWithdrawn
<1>2. /\ work[w] \in {"new", "reserved"}
      /\ work' = [work EXCEPT ![w] = work'[w]]
      /\ work'[w] \in {"reserved", "rejected", "ignored"}
  BY <1>1 DEF Reserve, RejectFull, EnqueueWithdrawn, LaneTypeOK
<1>3. \A v \in Works : v # w => work'[v] = work[v]
  BY <1>1, <1>2 DEF LaneTypeOK
<1>4. \A k \in Keys : Line(k)' = Line(k)
  BY <1>1, LineStays
<1>5. \A k \in Keys : Running(k)' = Running(k)
  BY <1>2, <1>3 DEF Running
<1>6. Entered' = Entered
  BY <1>2, <1>3 DEF Entered
<1> QED
  BY <1>4, <1>5, <1>6, ServerStays

LEMMA Enqueue_Serves ==
  ASSUME LaneInv, NEW w \in Works, Enqueue(w)
  PROVE  Server!Join(w) \/ Server!WalkIn(w)
<1> DEFINE k == KeyOf[w]
<1>1. /\ LaneTypeOK /\ k \in Keys /\ work[w] = "reserved" /\ ~withdrawn[w]
      /\ withdrawn' = withdrawn /\ queue[k] \in Seq(Works)
  BY LaneAssumption DEF LaneInv, LaneTypeOK, Enqueue
<1>2. Standing' = Standing /\ w \in Standing
  BY <1>1 DEF Standing
<1>3. \A v \in Works : v # w => work'[v] = work[v]
  BY <1>1 DEF Enqueue, LaneTypeOK
<1>4. work'[w] \in {"queued", "running"} /\ (work'[w] = "queued" <=> active[k])
  BY <1>1 DEF Enqueue, LaneTypeOK
<1>5. w \notin Entered /\ Entered' = Entered \cup {w}
  BY <1>1, <1>3, <1>4 DEF Entered
<1>6. \A q \in Keys : q # k => Running(q)' = Running(q)
  BY <1>3 DEF Running
<1>7. CASE active[k]
  <2>1. queue' = [queue EXCEPT ![k] = Append(@, w)]
    BY <1>7 DEF Enqueue
  <2>2. \A q \in Keys : Line(q)' = IF q = k THEN Append(Line(k), w) ELSE Line(q)
    <3> SUFFICES ASSUME NEW q \in Keys
                 PROVE  Line(q)' = IF q = k THEN Append(Line(k), w) ELSE Line(q)
      OBVIOUS
    <3>1. CASE q = k
      <4>1. queue'[k] = Append(queue[k], w)
        BY <1>1, <2>1 DEF LaneTypeOK
      <4>2. Among(Append(queue[k], w), Standing) = Append(Among(queue[k], Standing), w)
        BY <1>1, <1>2, AmongAppend
      <4> QED
        BY <1>2, <3>1, <4>1, <4>2 DEF Line
    <3>2. CASE q # k
      BY <1>1, <1>2, <2>1, <3>2 DEF LaneTypeOK, Line
    <3> QED
      BY <3>1, <3>2
  <2>3. [q \in Keys |-> Line(q)]' = [[q \in Keys |-> Line(q)] EXCEPT ![k] = Append(@, w)]
    BY <1>1, <2>2
  <2>4. \A q \in Keys : Running(q)' = Running(q)
    BY <1>1, <1>3, <1>4, <1>7 DEF Running
  <2> QED
    BY <1>5, <2>3, <2>4 DEF Server!Join
<1>8. CASE ~active[k]
  <2>1. queue[k] = <<>> /\ InDrain(k) = {} /\ queue' = queue
    BY <1>1, <1>8 DEF LaneInv, QueueHoldsWaitingWork, OneDrainPerLane, Enqueue
  <2>2. Line(k) = <<>>
    BY <2>1, AmongOfNone DEF Line
  <2>3. Running(k) = {}
    BY <2>1 DEF Running, InDrain
  <2>4. Running(k)' = {w}
    BY <1>1, <1>3, <1>4, <1>8, <2>3 DEF Running
  <2>5. [q \in Keys |-> Running(q)]' = [[q \in Keys |-> Running(q)] EXCEPT ![k] = {w}]
    BY <1>1, <1>6, <2>4
  <2>6. \A q \in Keys : Line(q)' = Line(q)
    BY <1>2, <2>1 DEF Line
  <2> QED
    BY <1>1, <1>5, <2>2, <2>3, <2>5, <2>6 DEF Server!WalkIn
<1> QED
  BY <1>7, <1>8

LEMMA Withdraw_Serves ==
  ASSUME LaneInv, NEW w \in Works, Withdraw(w)
  PROVE  Server!Leave(w) \/ UNCHANGED Server!serverVars
<1> DEFINE k == KeyOf[w]
<1>1. /\ LaneTypeOK /\ QueueHoldsWaitingWork /\ k \in Keys /\ ~withdrawn[w]
      /\ UNCHANGED <<queue, work>> /\ withdrawn' = [withdrawn EXCEPT ![w] = TRUE]
      /\ queue[k] \in Seq(Works)
  BY LaneAssumption DEF LaneInv, LaneTypeOK, Withdraw
<1>2. Entered' = Entered /\ \A q \in Keys : Running(q)' = Running(q)
  BY <1>1 DEF Entered, Running
<1>3. Standing' = Standing \ {w} /\ w \in Standing
  BY <1>1 DEF Standing, LaneTypeOK
<1>4. \A v \in Works : v # w => withdrawn'[v] = withdrawn[v]
  BY <1>1 DEF LaneTypeOK
<1>5. ASSUME NEW q \in Keys, \A i \in 1..Len(queue[q]) : queue[q][i] # w
      PROVE  Line(q)' = Line(q)
  <2>1. queue[q] \in Seq(Works) /\ queue'[q] = queue[q]
    BY <1>1 DEF LaneTypeOK
  <2>2. \A i \in 1..Len(queue[q]) : withdrawn'[queue[q][i]] = withdrawn[queue[q][i]]
    BY <1>4, <1>5, <2>1
  <2> QED
    BY <1>1, <2>1, <2>2, LineStays
<1>6. CASE work[w] = "queued"
  <2>1. PICK p \in 1..Len(queue[k]) : queue[k][p] = w
    BY <1>1, <1>6 DEF QueueHoldsWaitingWork
  <2>2. \A i, j \in 1..Len(queue[k]) : i # j => queue[k][i] # queue[k][j]
    BY <1>1 DEF QueueHoldsWaitingWork
  <2>3. PICK i \in 1..Len(Line(k)) :
          /\ Line(k)[i] = w
          /\ Line(k)' = SubSeq(Line(k), 1, i - 1) \o SubSeq(Line(k), i + 1, Len(Line(k)))
    <3> DEFINE q0 == queue[k]
               before == Among(q0, Standing)
               after == Among(q0, Standing \ {w})
    <3>1. \E i \in 1..Len(before) : before[i] = w /\ after = ClosedAt(before, i)
      <4>1. w \in Standing /\ q0 \in Seq(Works) /\ p \in 1..Len(q0) /\ q0[p] = w
        BY <1>1, <1>3, <2>1
      <4>2. \A i, j \in 1..Len(q0) : i # j => q0[i] # q0[j]
        BY <2>2
      <4> HIDE DEF q0
      <4> QED
        BY <4>1, <4>2, AmongWithout
    <3>2. Line(k)' = Among(queue[k], Standing \ {w})
      BY <1>1, <1>3 DEF Line
    <3> QED
      BY <3>1, <3>2 DEF Line, ClosedAt
  <2>4. \A q \in Keys : q # k => Line(q)' = Line(q)
    <3>1. \A q \in Keys : q # k => \A j \in 1..Len(queue[q]) : queue[q][j] # w
      BY <1>1 DEF QueueHoldsWaitingWork
    <3> QED
      BY <1>5, <3>1
  <2>5. [q \in Keys |-> Line(q)]' =
          [[q \in Keys |-> Line(q)] EXCEPT ![k] = SubSeq(@, 1, i - 1) \o SubSeq(@, i + 1, Len(@))]
    BY <1>1, <2>3, <2>4
  <2>6. [q \in Keys |-> Line(q)][k] = Line(k)
    BY <1>1
  <2> QED
    BY <1>2, <2>3, <2>5, <2>6 DEF Server!Leave
<1>7. CASE work[w] # "queued"
  <2>1. \A q \in Keys : \A j \in 1..Len(queue[q]) : queue[q][j] # w
    BY <1>1, <1>7 DEF QueueHoldsWaitingWork
  <2>2. \A q \in Keys : Line(q)' = Line(q)
    BY <1>5, <2>1
  <2> QED
    BY <1>2, <2>2, ServerStays
<1> QED
  BY <1>6, <1>7

LEMMA Return_Serves ==
  ASSUME LaneInv, NEW w \in Works, Return(w)
  PROVE  Server!Depart(KeyOf[w])
<1> DEFINE k == KeyOf[w]
<1>1. /\ LaneTypeOK /\ k \in Keys /\ work[w] = "running" /\ UNCHANGED <<queue, withdrawn>>
      /\ work' = [work EXCEPT ![w] = "returned"]
  BY LaneAssumption DEF LaneInv, Return
<1>2. \A v \in Works : work'[v] = IF v = w THEN "returned" ELSE work[v]
  BY <1>1 DEF LaneTypeOK
<1>3. \A v \in InDrain(k) : v = w
  BY <1>1 DEF LaneInv, OneDrainPerLane, InDrain
<1>4. Running(k) # {} /\ Running(k)' = {}
  BY <1>1, <1>2, <1>3 DEF Running, InDrain
<1>5. \A q \in Keys : q # k => Running(q)' = Running(q)
  BY <1>2 DEF Running
<1>6. [q \in Keys |-> Running(q)]' = [[q \in Keys |-> Running(q)] EXCEPT ![k] = {}]
  BY <1>1, <1>4, <1>5
<1>7. Entered' = Entered
  BY <1>1, <1>2 DEF Entered
<1>8. \A q \in Keys : Line(q)' = Line(q)
  BY <1>1 DEF Line, Standing
<1> QED
  BY <1>1, <1>4, <1>6, <1>7, <1>8 DEF Server!Depart

(* A drain loop that goes on or ends: the work it executed is done, the    *)
(* withdrawn work it shifted away is dropped, and nothing else has changed *)
(* but what it executes next.                                              *)
LEMMA DrainNext_Serves ==
  ASSUME LaneInv, NEW w \in Works, DrainNext(w)
  PROVE  Server!Serve(KeyOf[w])
<1> DEFINE k == KeyOf[w]
           q0 == queue[k]
<1>1. /\ LaneTypeOK /\ QueueHoldsWaitingWork /\ OneDrainPerLane
      /\ k \in Keys /\ work[w] = "returned" /\ w \in InDrain(k)
      /\ withdrawn' = withdrawn /\ q0 \in Seq(Works)
  BY LaneAssumption DEF LaneInv, LaneTypeOK, DrainNext, InDrain
<1>2. PICK i \in Wanted(k) :
        /\ \A j \in Wanted(k) : i <= j
        /\ queue' = [queue EXCEPT ![k] = SubSeq(@, i + 1, Len(@))]
        /\ work' = [v \in Works |->
                      IF v = w THEN "done"
                      ELSE IF v = q0[i] THEN "running"
                      ELSE IF \E j \in 1..(i-1) : v = q0[j] THEN "dropped"
                      ELSE work[v]]
  BY DEF DrainNext
<1>3. i \in 1..Len(q0) /\ ~withdrawn[q0[i]] /\ q0[i] \in Works /\ Len(q0) \in Nat
  BY <1>1, <1>2 DEF Wanted
<1>4. \A j \in 1..(i-1) : j \in 1..Len(q0) /\ ~ (i <= j)
  BY <1>3
<1>5. \A j \in 1..(i-1) : q0[j] \notin Standing
  BY <1>2, <1>4 DEF Wanted, Standing
<1>6. Standing' = Standing /\ q0[i] \in Standing
  BY <1>1, <1>3 DEF Standing
<1>7. \A j \in 1..Len(q0) : KeyOf[q0[j]] = k /\ work[q0[j]] = "queued" /\ q0[j] # w
  BY <1>1 DEF QueueHoldsWaitingWork
<1>8. /\ work'[q0[i]] = "running" /\ work'[w] = "done"
      /\ \A v \in Works : \/ v = w \/ v = q0[i]
                          \/ work[v] = "queued" /\ KeyOf[v] = k /\ work'[v] = "dropped"
                          \/ work'[v] = work[v]
  BY <1>2, <1>3, <1>4, <1>7
<1>9. \A v \in InDrain(k) : v = w
  BY <1>1 DEF OneDrainPerLane
<1>10. Running(k) = {} /\ Running(k)' = {q0[i]}
  BY <1>1, <1>3, <1>7, <1>8, <1>9 DEF Running, InDrain
<1>11. \A q \in Keys : q # k => Running(q)' = Running(q)
  BY <1>3, <1>7, <1>8 DEF Running
<1>12. Entered' = Entered
  BY <1>1, <1>3, <1>7, <1>8 DEF Entered
<1>13. /\ Line(k) # <<>> /\ Head(Line(k)) = q0[i]
       /\ Tail(Line(k)) = Among(SubSeq(q0, i + 1, Len(q0)), Standing)
  BY <1>1, <1>3, <1>5, <1>6, AmongFirst DEF Line
<1>14. Line(k)' = Tail(Line(k))
  <2>1. queue'[k] = SubSeq(q0, i + 1, Len(q0))
    BY <1>1, <1>2 DEF LaneTypeOK
  <2> QED
    BY <1>6, <1>13, <2>1 DEF Line
<1>15. \A q \in Keys : q # k => Line(q)' = Line(q)
  BY <1>1, <1>2, <1>6 DEF Line, LaneTypeOK
<1>16. [q \in Keys |-> Running(q)]' = [[q \in Keys |-> Running(q)] EXCEPT ![k] = {Head(Line(k))}]
  BY <1>1, <1>10, <1>11, <1>13
<1>17. [q \in Keys |-> Line(q)]' = [[q \in Keys |-> Line(q)] EXCEPT ![k] = Tail(@)]
  BY <1>1, <1>14, <1>15
<1> QED
  BY <1>1, <1>10, <1>12, <1>13, <1>16, <1>17 DEF Server!Serve

LEMMA DrainEnd_Serves ==
  ASSUME LaneInv, NEW w \in Works, DrainEnd(w)
  PROVE  UNCHANGED Server!serverVars
<1> DEFINE k == KeyOf[w]
           q0 == queue[k]
<1>1. /\ LaneTypeOK /\ QueueHoldsWaitingWork /\ OneDrainPerLane
      /\ k \in Keys /\ work[w] = "returned" /\ w \in InDrain(k) /\ Wanted(k) = {}
      /\ withdrawn' = withdrawn /\ q0 \in Seq(Works)
      /\ queue' = [queue EXCEPT ![k] = <<>>]
      /\ work' = [v \in Works |->
                    IF v = w THEN "done"
                    ELSE IF \E j \in 1..Len(q0) : v = q0[j] THEN "dropped"
                    ELSE work[v]]
  BY LaneAssumption DEF LaneInv, LaneTypeOK, DrainEnd, InDrain
<1>2. \A j \in 1..Len(q0) : q0[j] \notin Standing
  BY <1>1 DEF Wanted, Standing
<1>3. \A j \in 1..Len(q0) : KeyOf[q0[j]] = k /\ work[q0[j]] = "queued" /\ q0[j] # w
  BY <1>1 DEF QueueHoldsWaitingWork
<1>4. \A v \in Works : \/ v = w /\ work'[v] = "done"
                       \/ work[v] = "queued" /\ KeyOf[v] = k /\ work'[v] = "dropped"
                       \/ work'[v] = work[v]
  BY <1>1, <1>3
<1>5. \A q \in Keys : Running(q)' = Running(q)
  BY <1>1, <1>4 DEF Running
<1>6. Entered' = Entered
  BY <1>1, <1>4 DEF Entered
<1>7. \A q \in Keys : Line(q)' = Line(q)
  <2> SUFFICES ASSUME NEW q \in Keys PROVE Line(q)' = Line(q)
    OBVIOUS
  <2>1. Standing' = Standing
    BY <1>1 DEF Standing
  <2>2. CASE q = k
    <3>1. queue'[k] = <<>>
      BY <1>1 DEF LaneTypeOK
    <3>2. Line(k) = <<>>
      BY <1>1, <1>2, AmongEmpty DEF Line
    <3> QED
      BY <2>2, <3>1, <3>2, AmongOfNone DEF Line
  <2>3. CASE q # k
    BY <1>1, <2>1, <2>3 DEF Line, LaneTypeOK
  <2> QED
    BY <2>2, <2>3
<1> QED
  BY <1>5, <1>6, <1>7, ServerStays

(* "One active run for each session, in arrival order" (session-run-lane.ts, *)
(* drain() and enqueue()): the coordinator is a single server per key with *)
(* a first-in first-out line, which cancelled work leaves at once although *)
(* the drain loop removes it later.                                        *)
THEOREM LanesServeInOrder == LaneSpec => Server!ServerSafety
<1>1. LaneInv /\ [LaneNext]_laneVars => [Server!ServerNext]_(Server!serverVars)
  <2> SUFFICES ASSUME LaneInv, [LaneNext]_laneVars
               PROVE  Server!ServerNext \/ UNCHANGED Server!serverVars
    OBVIOUS
  <2>1. ASSUME NEW w \in Works, Reserve(w) \/ RejectFull(w) \/ EnqueueWithdrawn(w)
        PROVE  UNCHANGED Server!serverVars
    BY <2>1, Idle_Serves
  <2>2. ASSUME NEW w \in Works, Enqueue(w) \/ Withdraw(w)
        PROVE  Server!ServerNext \/ UNCHANGED Server!serverVars
    BY <2>2, Enqueue_Serves, Withdraw_Serves DEF Server!ServerNext
  <2>3. ASSUME NEW w \in Works, Return(w) \/ DrainNext(w)
        PROVE  Server!ServerNext
    <3>1. KeyOf[w] \in Keys
      BY LaneAssumption
    <3>2. Server!Depart(KeyOf[w]) \/ Server!Serve(KeyOf[w])
      BY <2>3, Return_Serves, DrainNext_Serves
    <3> QED
      BY <3>1, <3>2 DEF Server!ServerNext
  <2>4. ASSUME NEW w \in Works, DrainEnd(w)
        PROVE  UNCHANGED Server!serverVars
    BY <2>4, DrainEnd_Serves
  <2>5. CASE UNCHANGED laneVars
    <3>1. UNCHANGED <<queue, work, withdrawn>>
      BY <2>5 DEF laneVars
    <3>2. /\ \A q \in Keys : Line(q)' = Line(q) /\ Running(q)' = Running(q)
          /\ Entered' = Entered
      BY <3>1 DEF Line, Standing, Running, Entered
    <3> QED
      BY <3>2, ServerStays
  <2> QED
    BY <2>1, <2>2, <2>3, <2>4, <2>5 DEF LaneNext
<1> QED
  BY <1>1, LaneInvariant, Init_Serves, PTL DEF LaneSpec, Server!ServerSafety
=============================================================================
