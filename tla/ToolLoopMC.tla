----------------------------- MODULE ToolLoopMC -----------------------------
(* ToolLoop for TLC: one run of up to three calls, in the batches that     *)
(* differ: single calls, an effect before or after another call, reads in  *)
(* parallel, too many calls.                                               *)
EXTENDS ToolLoop

SomeAsks ==
  {<<k>> : k \in {"unknown", "read", "write"}} \cup
  {<<"read", "write">>, <<"create", "write">>, <<"write", "unknown">>,
   <<"longRead", "create">>, <<"longWrite", "create">>, <<"malformed", "read">>,
   <<"read", "read", "read">>, <<"read", "read", "read", "read">>}
OneAsk == {<<"read">>}

SomeTexts == {"input", "other", "answer", "arguments"} \cup Outcomes

EarlierRun(text) == <<Message("user", text), Message("assistant", "answer")>>
CancelledRun(text) == <<Message("user", text), ToolCall(0), ToolResult(0, "completed")>>
OtherInput == {EarlierRun("other"), CancelledRun("other")}
SameInput  == {EarlierRun(Input)}
=============================================================================
