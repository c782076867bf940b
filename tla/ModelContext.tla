---------------------------- MODULE ModelContext ----------------------------
(* The context of a model call (context/prepared-model-context.ts) from    *)
(* the entries of a transcript (sessions/transcript-entry.ts).             *)
EXTENDS Naturals, SequencesExt

(* An entry is a message with its text, or a tool call or result with the  *)
(* number of the call; the text of a result is the outcome it reports.     *)
Message(role, text) == [type |-> role, call |-> 0, text |-> text]
ToolCall(c)         == [type |-> "call", call |-> c, text |-> "arguments"]
ToolResult(c, out)  == [type |-> "result", call |-> c, text |-> out]

(* validateCompleteExchangeGroups: every entry overwrites expectedRole, so *)
(* that only the last one counts.                                          *)
CompleteGroups(history) ==
  history # <<>> => Last(history).type \in {"assistant", "result"}

(* The turns sent: those of the history, and the input of the run unless   *)
(* the history already holds a user message with its text.                 *)
PreparedTurns(history, input) ==
  IF Message("user", input) \in ToSet(history)
    THEN history
    ELSE Append(history, Message("user", input))
=============================================================================
