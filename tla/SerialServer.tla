---------------------------- MODULE SerialServer ----------------------------
(***************************************************************************)
(* What a run lane promises: each key is a single server with a first-in   *)
(* first-out waiting line.  A customer enters the line of its key at most  *)
(* once, may leave it while it waits, and is served alone.  Whoever waits  *)
(* long enough without leaving is served.                                  *)
(***************************************************************************)
EXTENDS Naturals, Sequences

CONSTANTS Customers, Keys, KeyOf

VARIABLES
  line,     \* line[k]: who waits at k, in order of arrival
  serving,  \* serving[k]: the customers being served at k, at most one
  entered   \* the customers that have entered a line

serverVars == <<line, serving, entered>>

ServerInit ==
  /\ line = [k \in Keys |-> <<>>]
  /\ serving = [k \in Keys |-> {}]
  /\ entered = {}

(* c joins the line of its key. *)
Join(c) ==
  /\ c \notin entered
  /\ entered' = entered \cup {c}
  /\ line' = [line EXCEPT ![KeyOf[c]] = Append(@, c)]
  /\ UNCHANGED serving

(* c finds nobody waiting and nobody served, and is served at once. *)
WalkIn(c) ==
  /\ c \notin entered
  /\ line[KeyOf[c]] = <<>> /\ serving[KeyOf[c]] = {}
  /\ entered' = entered \cup {c}
  /\ serving' = [serving EXCEPT ![KeyOf[c]] = {c}]
  /\ UNCHANGED line

(* c gives up waiting: its place closes. *)
Leave(c) ==
  /\ \E i \in 1..Len(line[KeyOf[c]]) :
       /\ line[KeyOf[c]][i] = c
       /\ line' = [line EXCEPT ![KeyOf[c]] = SubSeq(@, 1, i - 1) \o SubSeq(@, i + 1, Len(@))]
  /\ UNCHANGED <<serving, entered>>

(* The first in the line of k is served. *)
Serve(k) ==
  /\ serving[k] = {} /\ line[k] # <<>>
  /\ serving' = [serving EXCEPT ![k] = {Head(line[k])}]
  /\ line' = [line EXCEPT ![k] = Tail(@)]
  /\ UNCHANGED entered

(* The customer served at k is done. *)
Depart(k) ==
  /\ serving[k] # {}
  /\ serving' = [serving EXCEPT ![k] = {}]
  /\ UNCHANGED <<line, entered>>

ServerNext ==
  \/ \E c \in Customers : Join(c) \/ WalkIn(c) \/ Leave(c)
  \/ \E k \in Keys : Serve(k) \/ Depart(k)

ServerSafety == ServerInit /\ [][ServerNext]_serverVars

ServerSpec ==
  /\ ServerSafety
  /\ \A k \in Keys : WF_serverVars(Serve(k)) /\ WF_serverVars(Depart(k))
=============================================================================
