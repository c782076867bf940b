------------------------------ MODULE ToolLoop ------------------------------
(* The tool loop of one run (agents/agent-runtime.ts): the batches of      *)
(* ToolBatch, the transcript they are recorded in, and the context that    *)
(* the next model call is prepared from.  Nobody else appends to the       *)
(* session meanwhile: that is RunLifecycle's subject.                      *)
EXTENDS ToolBatch, ModelContext

CONSTANTS
  Texts,      \* what an entry may say
  Input,      \* the text of the run's input
  Histories   \* transcripts an earlier run may have left

Entries == [type : {"user", "assistant", "call", "result"}, call : Nat, text : Texts]

(* An earlier run leaves complete groups behind, as this one will (see     *)
(* ContextIsComplete); nextToolCallId does not repeat a number.            *)
ASSUME HistoryAssumption ==
  /\ {Input, "answer", "arguments"} \cup Outcomes \subseteq Texts
  /\ Histories \subseteq Seq(Entries)
  /\ \A h \in Histories : CompleteGroups(h) /\ \A i \in DOMAIN h : h[i].call \notin Calls

VARIABLE history

vars == <<toolVars, history>>

Init == ToolInit /\ history \in Histories

(* Defect: every exchange brings the input.                                *)
InputEntryEachTime(isFirst) == <<Message("user", Input)>>

(* userInputCommitted: the first exchange that is appended brings it.      *)
InputEntry(isFirst) == IF isFirst THEN <<Message("user", Input)>> ELSE <<>>

(* Each call of the batch with the result that was made of its outcome.    *)
CycleEntries ==
  InputEntry(first = 1) \o
  [i \in 1 .. 2 * (last - first + 1) |->
     LET c == first + (i - 1) \div 2
     IN  IF i % 2 = 1 THEN ToolCall(c) ELSE ToolResult(c, outcome[c])]

(* The cycle is appended in one transaction, and then the run goes by the  *)
(* decision; when the append throws it fails.                              *)
RecordCycle ==
  /\ EndCycle
  /\ \/ history' = history \o CycleEntries
     \/ at' = "over" /\ UNCHANGED history

(* The model answers with text, or its call fails.                         *)
Conclusion ==
  /\ EndRun
  /\ \/ history' = history \o InputEntry(last = 0) \o <<Message("assistant", "answer")>>
     \/ UNCHANGED history

Next ==
  \/ RecordCycle \/ Conclusion
  \/ /\ Ask \/ Admission \/ CycleThrows \/ Client \/ ApprovalTimer \/ Dispose \/ Abort
        \/ \E c \in Calls : Execution(c) \/ TimeOut(c) \/ Implementation(c)
     /\ UNCHANGED history

Fairness ==
  /\ WF_vars((Executor /\ UNCHANGED history) \/ RecordCycle)
  /\ WF_vars(ApprovalTimer /\ UNCHANGED history)
  /\ WF_vars((\E c \in Calls : TimeOut(c)) /\ UNCHANGED history)

Spec == Init /\ [][Next]_vars /\ Fairness

-----------------------------------------------------------------------------
Turns == PreparedTurns(history, Input)

(* What the model is sent has the input of the run and, after it, every    *)
(* call of the run directly followed by its result; and what a run leaves  *)
(* behind, however it ended, is accepted when the next one is prepared.    *)
ContextIsComplete ==
  /\ at \in {"model", "over"} => CompleteGroups(history)
  /\ at = "model" =>
       \E i \in DOMAIN Turns :
         /\ Turns[i] = Message("user", Input)
         /\ Len(Turns) = i + 2 * last
         /\ \A c \in 1 .. last : /\ Turns[i + 2 * c - 1] = ToolCall(c)
                                /\ Turns[i + 2 * c] = ToolResult(c, outcome[c])

(* When the model is called it has been told of every change that its      *)
(* calls made, and of none that they did not make or may still make.       *)
ModelKnowsTheWorkspace ==
  at = "model" => \A c \in 1 .. last : kind[c] \in Effects =>
    /\ c \in written <=> ToolResult(c, "completed") \in ToSet(Turns)
    /\ tool[c] # "writing"

(* The current user input follows the projected transcript in the order of *)
(* the prompt (docs/ARCHITECTURE.md:558): what the first model call is     *)
(* asked last is the input of this run.                                    *)
InputIsAsked ==
  at = "model" /\ last = 0 => Last(Turns) = Message("user", Input)
=============================================================================
