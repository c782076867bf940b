------------------------ MODULE ApprovalCoordinator ------------------------
(* The pending approvals (policy/approval-coordinator.ts).  A request is   *)
(* settled by a client, by its timer, by the abort signal of its run or by *)
(* the disposal of the coordinator, whichever comes first.                 *)
CONSTANT Requests

VARIABLES pending,  \* requests in the map of pending approvals
          answer,   \* what the promise of a request resolved to, or "none"
          told      \* answers whose senders were told that they were taken

approvalVars == <<pending, answer, told>>

Answers  == {"allowed", "denied"}
Statuses == Answers \cup {"expired", "cancelled"}

ApprovalTypeOK ==
  /\ pending \subseteq Requests
  /\ answer \in [Requests -> Statuses \cup {"none"}]
  /\ told \in [Requests -> SUBSET Answers]

ApprovalInit ==
  /\ pending = {}
  /\ answer = [c \in Requests |-> "none"]
  /\ told = [c \in Requests |-> {}]

(* resolvedIds.                                                            *)
Resolved == {c \in Requests : answer[c] # "none"}

(* finish: only what is still pending can be settled.                      *)
Finish(S, status) ==
  LET settled == S \cap pending
  IN  /\ pending' = pending \ settled
      /\ answer' = [c \in Requests |-> IF c \in settled THEN status ELSE answer[c]]

(* requestApproval: a request whose run is already aborted is cancelled in *)
(* the same segment and nobody hears of it.                                *)
Ask(c, isAborted) ==
  /\ c \notin pending \cup Resolved
  /\ IF isAborted
       THEN answer' = [answer EXCEPT ![c] = "cancelled"] /\ UNCHANGED pending
       ELSE pending' = pending \cup {c} /\ UNCHANGED answer
  /\ UNCHANGED told

(* Defect: an answer is looked up among the bindings, which are never      *)
(* deleted, so that a late one is told it was taken.                       *)
ResolveByBinding(c, d) ==
  /\ c \in pending \cup Resolved
  /\ Finish({c}, d)
  /\ told' = [told EXCEPT ![c] = @ \cup {d}]

(* resolveApproval for the run that asked.  Every other call (a settled or *)
(* unknown request, another run's) is told so and changes nothing.         *)
Resolve(c, d) ==
  /\ c \notin Resolved
  /\ c \in pending
  /\ Finish({c}, d)
  /\ told' = [told EXCEPT ![c] = @ \cup {d}]

(* Defect: the timer forgets the request and settles nothing.              *)
ExpireSilently(c) ==
  /\ c \in pending
  /\ pending' = pending \ {c}
  /\ UNCHANGED <<answer, told>>

(* The timer of a request; finish clears it.                               *)
Expire(c) ==
  /\ c \in pending
  /\ Finish({c}, "expired")
  /\ UNCHANGED told

(* The abort listener of each request of a run, and cancelPendingForRun;   *)
(* dispose cancels all of them.                                            *)
CancelPending(S) ==
  /\ Finish(S, "cancelled")
  /\ UNCHANGED told

Decision == INSTANCE ApprovalDecision WITH decision <- answer, granted <- told
=============================================================================
