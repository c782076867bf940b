-------------------------- MODULE ApprovalDecision --------------------------
(* What an approval promises: a request is decided at most once, and a     *)
(* client that is told its answer was taken is told the truth.             *)
CONSTANT Requests

VARIABLES decision,  \* what was decided on each request, "none" before that
          granted    \* the answers each request's clients were told were taken

Answers   == {"allowed", "denied"}
Decisions == Answers \cup {"expired", "cancelled"}

Init ==
  /\ decision = [c \in Requests |-> "none"]
  /\ granted = [c \in Requests |-> {}]

(* The request is decided by a client, who is told so.                     *)
Answer(c, d) ==
  /\ decision[c] = "none"
  /\ decision' = [decision EXCEPT ![c] = d]
  /\ granted' = [granted EXCEPT ![c] = {d}]

(* Undecided requests lapse, several at once when their run is cancelled.  *)
Lapse(S, d) ==
  /\ \A c \in S : decision[c] = "none"
  /\ decision' = [c \in Requests |-> IF c \in S THEN d ELSE decision[c]]
  /\ UNCHANGED granted

Next ==
  \/ \E c \in Requests, d \in Answers : Answer(c, d)
  \/ \E S \in SUBSET Requests, d \in Decisions \ Answers : Lapse(S, d)

Spec == Init /\ [][Next]_<<decision, granted>>
=============================================================================
