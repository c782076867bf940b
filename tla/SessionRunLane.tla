--------------------------- MODULE SessionRunLane ---------------------------
(***************************************************************************)
(* The per-session run lane: SessionRunLaneCoordinator of                  *)
(* src/src/agents/session-run-lane.ts.                                     *)
(*                                                                         *)
(* A lane belongs to one route key (agent and session).  A piece of work   *)
(* first reserves a slot, later enqueues itself, and is executed by the    *)
(* drain loop of its lane, one piece of work at a time, in arrival order.  *)
(* `lanes' of the code is a Map from keys to lane objects; a lane object   *)
(* is dropped from the map when it is idle.  Lane objects have no identity *)
(* here: MappedExactlyWhileUsed shows that an object leaves the map only   *)
(* when nothing is left in it and no holder can still put work into it, so *)
(* that the fresh object of a later reserve is the empty one modelled.     *)
(* The code needs a discipline of its holders for this, which Withdraw has *)
(* for a guard: a cancel after the work has returned would drop whatever   *)
(* object the map holds by then.  CancelFindsItsLane of RunLifecycle shows *)
(* that the runtime keeps the discipline.                                  *)
(*                                                                         *)
(* A step is a synchronous segment of the single-threaded program, from    *)
(* one await to the next.                                                  *)
(***************************************************************************)
EXTENDS Naturals, Sequences, FiniteSets

CONSTANTS
  Works,        \* the pieces of work that may ask for a slot
  Keys,         \* the route keys
  KeyOf,        \* the key each piece of work is for
  LaneCapacity  \* perSessionQueueCapacity, the slots of a lane

ASSUME LaneAssumption ==
  /\ KeyOf \in [Works -> Keys]
  /\ LaneCapacity \in Nat \ {0}

VARIABLES
  mapped,    \* mapped[k]: the map holds a lane object for k
  active,    \* active[k]: a drain loop runs on the lane of k
  reserved,  \* reserved[k]: slots reserved and not yet enqueued
  queue,     \* queue[k]: enqueued work the drain loop has not taken yet
  work,      \* work[w]: how far w has come
  withdrawn  \* withdrawn[w]: the holder of w has called cancel

laneVars == <<mapped, active, reserved, queue, work, withdrawn>>

(* "running": execute() has been called and has not returned; "returned":  *)
(* it has returned and the drain loop awaiting it has not resumed yet.     *)
WorkStates ==
  {"new", "rejected", "reserved", "queued", "running", "returned", "done",
   "dropped",   \* shifted from the queue after cancel
   "ignored"}   \* enqueued after cancel

LaneTypeOK ==
  /\ mapped \in [Keys -> BOOLEAN]
  /\ active \in [Keys -> BOOLEAN]
  /\ reserved \in [Keys -> Nat]
  /\ queue \in [Keys -> Seq(Works)]
  /\ work \in [Works -> WorkStates]
  /\ withdrawn \in [Works -> BOOLEAN]

LaneInit ==
  /\ mapped = [k \in Keys |-> FALSE]
  /\ active = [k \in Keys |-> FALSE]
  /\ reserved = [k \in Keys |-> 0]
  /\ queue = [k \in Keys |-> <<>>]
  /\ work = [w \in Works |-> "new"]
  /\ withdrawn = [w \in Works |-> FALSE]

-----------------------------------------------------------------------------
(* Plausible defects, each the mutant of the definition it is named after. *)
LaneFullWithoutReservations(k) ==
  Len(queue[k]) + (IF active[k] THEN 1 ELSE 0) >= LaneCapacity

(* enqueue() without the `if (lane.active) return' of drain(). *)
EnqueueSecondDrain(w) ==
  /\ work[w] = "reserved" /\ ~withdrawn[w]
  /\ reserved' = [reserved EXCEPT ![KeyOf[w]] = @ - 1]
  /\ active' = [active EXCEPT ![KeyOf[w]] = TRUE]
  /\ work' = [work EXCEPT ![w] = "running"]
  /\ UNCHANGED <<mapped, queue, withdrawn>>

(* enqueue() with unshift in place of push. *)
EnqueueInFront(w) ==
  /\ work[w] = "reserved" /\ ~withdrawn[w]
  /\ reserved' = [reserved EXCEPT ![KeyOf[w]] = @ - 1]
  /\ active' = [active EXCEPT ![KeyOf[w]] = TRUE]
  /\ queue' = [queue EXCEPT ![KeyOf[w]] = IF active[KeyOf[w]] THEN <<w>> \o @ ELSE @]
  /\ work' = [work EXCEPT ![w] = IF active[KeyOf[w]] THEN "queued" ELSE "running"]
  /\ UNCHANGED <<mapped, withdrawn>>

(* cancel() without `if (!enqueued)'. *)
WithdrawGivesBackTwice(w) ==
  /\ work[w] \in {"reserved", "queued", "running"} /\ ~withdrawn[w]
  /\ withdrawn' = [withdrawn EXCEPT ![w] = TRUE]
  /\ reserved' = [reserved EXCEPT ![KeyOf[w]] = @ - 1]
  /\ UNCHANGED <<mapped, active, queue, work>>

(* A drain loop that stops at cancelled work. *)
WantedHeadOnly(k) ==
  {i \in 1..Len(queue[k]) : i = 1 /\ ~withdrawn[queue[k][i]]}

(* drain() without `!lane.reserved' in its finally block. *)
DrainEndForgetsReservations(w) ==
  /\ work[w] = "returned"
  /\ \A i \in 1..Len(queue[KeyOf[w]]) : withdrawn[queue[KeyOf[w]][i]]
  /\ work' = [work EXCEPT ![w] = "done"]
  /\ queue' = [queue EXCEPT ![KeyOf[w]] = <<>>]
  /\ active' = [active EXCEPT ![KeyOf[w]] = FALSE]
  /\ mapped' = [mapped EXCEPT ![KeyOf[w]] = FALSE]
  /\ UNCHANGED <<reserved, withdrawn>>

(* drain() with `if' in place of `while'. *)
DrainEndAfterOne(w) ==
  /\ work[w] = "returned"
  /\ work' = [work EXCEPT ![w] = "done"]
  /\ active' = [active EXCEPT ![KeyOf[w]] = FALSE]
  /\ UNCHANGED <<mapped, reserved, queue, withdrawn>>

-----------------------------------------------------------------------------
(* The slots of k that are taken. *)
Occupancy(k) == Len(queue[k]) + reserved[k] + (IF active[k] THEN 1 ELSE 0)

LaneFull(k) == Occupancy(k) >= LaneCapacity

(* reserve(key) takes a slot. *)
Reserve(w) ==
  /\ work[w] = "new"
  /\ ~LaneFull(KeyOf[w])
  /\ reserved' = [reserved EXCEPT ![KeyOf[w]] = @ + 1]
  /\ mapped' = [mapped EXCEPT ![KeyOf[w]] = TRUE]
  /\ work' = [work EXCEPT ![w] = "reserved"]
  /\ UNCHANGED <<active, queue, withdrawn>>

(* reserve(key) throws SESSION_RUN_QUEUE_FULL. *)
RejectFull(w) ==
  /\ work[w] = "new"
  /\ LaneFull(KeyOf[w])
  /\ work' = [work EXCEPT ![w] = "rejected"]
  /\ UNCHANGED <<mapped, active, reserved, queue, withdrawn>>

(* enqueue(execute) on an idle lane: drain() starts and calls execute() at *)
(* once.  On an active lane drain() returns immediately and the work waits.*)
Enqueue(w) ==
  LET k == KeyOf[w] IN
  /\ work[w] = "reserved" /\ ~withdrawn[w]
  /\ reserved' = [reserved EXCEPT ![k] = @ - 1]
  /\ IF active[k]
       THEN /\ queue' = [queue EXCEPT ![k] = Append(@, w)]
            /\ work' = [work EXCEPT ![w] = "queued"]
            /\ UNCHANGED active
       ELSE /\ active' = [active EXCEPT ![k] = TRUE]
            /\ work' = [work EXCEPT ![w] = "running"]
            /\ UNCHANGED queue
  /\ UNCHANGED <<mapped, withdrawn>>

(* enqueue(execute) after cancel() returns without doing anything. *)
EnqueueWithdrawn(w) ==
  /\ work[w] = "reserved" /\ withdrawn[w]
  /\ work' = [work EXCEPT ![w] = "ignored"]
  /\ UNCHANGED <<mapped, active, reserved, queue, withdrawn>>

(* cancel() gives a slot back that was reserved and never enqueued; work   *)
(* that is queued keeps its slot until the drain loop reaches it.  A       *)
(* second cancel() does nothing; one after the work returned is not made.  *)
Withdraw(w) ==
  LET k == KeyOf[w]
      left == IF work[w] = "reserved" THEN reserved[k] - 1 ELSE reserved[k] IN
  /\ work[w] \in {"reserved", "queued", "running"} /\ ~withdrawn[w]
  /\ withdrawn' = [withdrawn EXCEPT ![w] = TRUE]
  /\ reserved' = [reserved EXCEPT ![k] = left]
  /\ mapped' = [mapped EXCEPT ![k] =
                  @ /\ ~(~active[k] /\ queue[k] = <<>> /\ left = 0)]
  /\ UNCHANGED <<active, queue, work>>

(* execute() of w returns (or throws: the runtime's executor never does). *)
Return(w) ==
  /\ work[w] = "running"
  /\ work' = [work EXCEPT ![w] = "returned"]
  /\ UNCHANGED <<mapped, active, reserved, queue, withdrawn>>

(* The positions of the queue of k whose work is still wanted. *)
Wanted(k) == {i \in 1..Len(queue[k]) : ~withdrawn[queue[k][i]]}

(* The drain loop that executed w resumes and finds work: it shifts the    *)
(* withdrawn work in front away and calls execute() of the next.           *)
DrainNext(w) ==
  LET k == KeyOf[w] IN
  /\ work[w] = "returned"
  /\ \E i \in Wanted(k) :
       /\ \A j \in Wanted(k) : i <= j
       /\ queue' = [queue EXCEPT ![k] = SubSeq(@, i + 1, Len(@))]
       /\ work' = [v \in Works |->
                     IF v = w THEN "done"
                     ELSE IF v = queue[k][i] THEN "running"
                     ELSE IF \E j \in 1..(i-1) : v = queue[k][j] THEN "dropped"
                     ELSE work[v]]
  /\ UNCHANGED <<mapped, active, reserved, withdrawn>>

(* The drain loop that executed w resumes, finds no wanted work and ends.  *)
(* The lane leaves the map unless a reservation is open.                   *)
DrainEnd(w) ==
  LET k == KeyOf[w] IN
  /\ work[w] = "returned"
  /\ Wanted(k) = {}
  /\ work' = [v \in Works |->
                IF v = w THEN "done"
                ELSE IF \E j \in 1..Len(queue[k]) : v = queue[k][j] THEN "dropped"
                ELSE work[v]]
  /\ queue' = [queue EXCEPT ![k] = <<>>]
  /\ active' = [active EXCEPT ![k] = FALSE]
  /\ mapped' = [mapped EXCEPT ![k] = @ /\ reserved[k] # 0]
  /\ UNCHANGED <<reserved, withdrawn>>

Resume(w) == DrainNext(w) \/ DrainEnd(w)

LaneNext ==
  \E w \in Works :
    \/ Reserve(w) \/ RejectFull(w)
    \/ Enqueue(w) \/ EnqueueWithdrawn(w)
    \/ Withdraw(w)
    \/ Return(w) \/ DrainNext(w) \/ DrainEnd(w)

(* The drain loop is a microtask of the event loop, and the executor the   *)
(* runtime hands in always returns; nothing makes a holder enqueue.        *)
LaneFairness == \A w \in Works : WF_laneVars(Return(w)) /\ WF_laneVars(Resume(w))

LaneSpec == LaneInit /\ [][LaneNext]_laneVars /\ LaneFairness

-----------------------------------------------------------------------------
(* The work of k whose execute() is under way, and the work of k whose     *)
(* drain loop has not ended or gone on to other work.                      *)
Running(k) == {w \in Works : KeyOf[w] = k /\ work[w] = "running"}
InDrain(k) == {w \in Works : KeyOf[w] = k /\ work[w] \in {"running", "returned"}}

(* ADR 0006, "at most one active run for a logical session": one drain     *)
(* loop per lane, whatever reserve, enqueue and cancel do between the      *)
(* loop's await and its resumption.                                        *)
OneDrainPerLane ==
  \A k \in Keys :
    /\ \A v, w \in InDrain(k) : v = w
    /\ active[k] <=> InDrain(k) # {}

(* The bound on a lane is on reservations, waiting and running work taken  *)
(* together: work that is reserved early and enqueued late never overfills *)
(* the lane, and cancelled work that still occupies the queue counts.      *)
LaneBounded == \A k \in Keys : Occupancy(k) <= LaneCapacity

(* The reserved count is the number of open reservations: a cancel that    *)
(* comes after the enqueue, or twice, does not give the slot back again.   *)
OpenReservations(k) ==
  {w \in Works : KeyOf[w] = k /\ work[w] = "reserved" /\ ~withdrawn[w]}
ReservedMatchesHolders ==
  \A k \in Keys : reserved[k] = Cardinality(OpenReservations(k))

(* No work is lost or run twice between enqueue and the drain loop: the    *)
(* queue of a lane holds exactly the work of its key that waits, each once,*)
(* and a lane without a drain loop has nothing waiting.                    *)
QueueHoldsWaitingWork ==
  /\ \A k \in Keys :
       /\ \A i \in 1..Len(queue[k]) : KeyOf[queue[k][i]] = k /\ work[queue[k][i]] = "queued"
       /\ \A i, j \in 1..Len(queue[k]) : i # j => queue[k][i] # queue[k][j]
       /\ ~active[k] => queue[k] = <<>>
  /\ \A w \in Works : work[w] = "queued" =>
       \E i \in 1..Len(queue[KeyOf[w]]) : queue[KeyOf[w]][i] = w

(* The lane object of k is in the map exactly while it is used.  Dropped   *)
(* too early, a second object for k would run work beside the first;       *)
(* dropped too late, the map grows with every session ever seen.           *)
MappedExactlyWhileUsed ==
  \A k \in Keys :
    mapped[k] <=> active[k] \/ queue[k] # <<>> \/ OpenReservations(k) # {}

(* Enqueued work is executed, unless its holder cancels it first. *)
QueuedWorkRuns ==
  \A w \in Works : work[w] = "queued" ~> (work[w] = "running" \/ withdrawn[w])

(* The members of the sequence s that are in S, in order: SelectSeq as a   *)
(* recursive function, which the proofs can unfold.                        *)
Among(s, S) ==
  LET upto[i \in 0..Len(s)] ==
        IF i = 0 THEN <<>> ELSE IF s[i] \in S THEN Append(upto[i-1], s[i]) ELSE upto[i-1]
  IN upto[Len(s)]

(* The coordinator is a single server per key with a first-in first-out    *)
(* line, in which cancelled work no longer stands.                         *)
Standing == {w \in Works : ~withdrawn[w]}
Line(k)  == Among(queue[k], Standing)
Entered  == {w \in Works : work[w] \in {"queued", "running", "returned", "done", "dropped"}}

Server == INSTANCE SerialServer WITH
  Customers <- Works,
  line    <- [k \in Keys |-> Line(k)],
  serving <- [k \in Keys |-> Running(k)],
  entered <- Entered

ServesInOrder == Server!ServerSpec
=============================================================================
