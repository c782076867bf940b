------------------------------ MODULE Gateway ------------------------------
(* The WebSocket gateway (gateway/create-gateway.ts): the handshake, the   *)
(* requests that are dispatched concurrently, and the events of a run,     *)
(* which are buffered until the request that started it was answered and   *)
(* then numbered and sent to its socket.  The runtime behind it emits the  *)
(* events of an accepted run at any time.                                  *)
EXTENDS Sessions, Naturals, Sequences

CONSTANTS
  Sockets,
  SocketOf,   \* the socket each request comes from
  MethodOf,   \* its method
  MaxEvents   \* bound: events of one run

Methods == {"agent.run", "sessions.resolve", "sessions.create"}

ASSUME GatewayAssumption ==
  /\ SocketOf \in [Requests -> Sockets]
  /\ MethodOf \in [Requests -> Methods]
  /\ MaxEvents \in Nat \ {0}

VARIABLES
  socket,      \* readyState of a socket, "new" before it is accepted
  connection,  \* GatewayConnectionState
  request,     \* await the dispatch of a request is in: see Points
  emitted,     \* number of events the run of a request has emitted
  owner,       \* runOwners: a set of at most one socket for each run
  held,        \* pendingRunEvents: numbers of the events held for a run
  sequence,    \* eventSequences
  sent,        \* the frames written to a socket, in order
  stopping     \* stop() was called

vars == <<sessionVars, socket, connection, request, emitted, owner, held, sequence,
          sent, stopping>>

SocketStates == {"new", "open", "closing", "closed"}

(* A request is a message yet to come, awaits its session or the row of    *)
(* its run, has its result, or was answered.                               *)
Points == {"idle", "lookup", "resolved", "created", "done", "failed", "answered"}

Frame == [type : {"res", "event"}, of : Requests, seq : Nat, number : Nat]

Response(q)    == [type |-> "res", of |-> q, seq |-> 0, number |-> 0]
Event(q, n, s) == [type |-> "event", of |-> q, seq |-> s, number |-> n]

GatewayTypeOK ==
  /\ SessionsTypeOK
  /\ socket \in [Sockets -> SocketStates]
  /\ connection \in [Sockets -> {"connecting", "ready"}]
  /\ request \in [Requests -> Points]
  /\ emitted \in [Requests -> 0 .. MaxEvents]
  /\ owner \in [Requests -> SUBSET Sockets]
  /\ held \in [Requests -> Seq(1 .. MaxEvents)]
  /\ sequence \in [Sockets -> Nat]
  /\ sent \in [Sockets -> Seq(Frame)]
  /\ stopping \in BOOLEAN

Init ==
  /\ SessionsInit
  /\ socket = [s \in Sockets |-> "new"]
  /\ connection = [s \in Sockets |-> "connecting"]
  /\ request = [q \in Requests |-> "idle"]
  /\ emitted = [q \in Requests |-> 0]
  /\ owner = [q \in Requests |-> {}]
  /\ held = [q \in Requests |-> <<>>]
  /\ sequence = [s \in Sockets |-> 0]
  /\ sent = [s \in Sockets |-> <<>>]
  /\ stopping = FALSE

socketVars == <<socket, connection, stopping>>
eventVars  == <<emitted, owner, held, sequence, sent>>

-----------------------------------------------------------------------------
(* Connections                                                             *)

Accept(s) ==
  /\ socket[s] = "new" /\ ~stopping
  /\ socket' = [socket EXCEPT ![s] = "open"]
  /\ UNCHANGED <<sessionVars, connection, stopping, request, eventVars>>

(* A socket that is being closed by the gateway still receives.            *)
Receiving(s) == socket[s] \in {"open", "closing"}

(* connect, of a supported protocol version: the state changes in the same *)
(* segment.  A second connect changes nothing.                             *)
Connect(s) ==
  /\ Receiving(s) /\ connection[s] = "connecting"
  /\ connection' = [connection EXCEPT ![s] = "ready"]
  /\ UNCHANGED <<sessionVars, socket, stopping, request, eventVars>>

BeginClose(s) ==
  /\ socket[s] = "open"
  /\ socket' = [socket EXCEPT ![s] = "closing"]
  /\ UNCHANGED <<sessionVars, connection, stopping, request, eventVars>>

(* The close event: the runs of the socket have no owner any more.         *)
Close(s) ==
  /\ Receiving(s)
  /\ socket' = [socket EXCEPT ![s] = "closed"]
  /\ owner' = [q \in Requests |-> owner[q] \ {s}]
  /\ UNCHANGED <<sessionVars, connection, stopping, request, emitted, held, sequence, sent>>

(* stop(): the clients are asked to go, nobody else is let in.             *)
Stop ==
  /\ ~stopping
  /\ stopping' = TRUE
  /\ socket' = [s \in Sockets |-> IF socket[s] = "open" THEN "closing" ELSE socket[s]]
  /\ UNCHANGED <<sessionVars, connection, request, eventVars>>

-----------------------------------------------------------------------------
(* Requests                                                                *)

AtPoint(q, from, to) ==
  /\ request[q] = from
  /\ request' = [request EXCEPT ![q] = to]

(* The first segment of a request.  Before the handshake only connect is   *)
(* served.                                                                 *)
Receive(q) ==
  /\ Receiving(SocketOf[q])
  /\ \/ /\ connection[SocketOf[q]] = "connecting"
        /\ AtPoint(q, "idle", "failed") /\ UNCHANGED sessionVars
     \/ /\ connection[SocketOf[q]] = "ready"
        /\ MethodOf[q] # "sessions.create"
        /\ \/ AtPoint(q, "idle", "lookup") /\ LookUp(q)
           \/ AtPoint(q, "idle", "failed") /\ LookUpFails(q)
     \/ /\ connection[SocketOf[q]] = "ready"
        /\ MethodOf[q] = "sessions.create"
        /\ Create(q)
        /\ AtPoint(q, "idle", IF resolved'[q] \in Failures THEN "failed" ELSE "done")
  /\ UNCHANGED <<socketVars, eventVars>>

LookupReturns(q) ==
  /\ ResolveLooked(q)
  /\ AtPoint(q, "lookup", IF resolved'[q] \in Failures THEN "failed"
                          ELSE IF MethodOf[q] = "agent.run" THEN "resolved" ELSE "done")
  /\ UNCHANGED <<socketVars, eventVars>>

(* admit(): the lane may be full and the row of the run refused.           *)
CreateRun(q) ==
  /\ AtPoint(q, "resolved", "created") \/ AtPoint(q, "resolved", "failed")
  /\ UNCHANGED <<sessionVars, socketVars, eventVars>>

-----------------------------------------------------------------------------
(* Events                                                                  *)

(* The listener of the event bus: the owner gets the event if it is still  *)
(* open, and without an owner it is held.                                  *)
Emit(q) ==
  LET n == emitted[q] + 1
  IN  /\ emitted' = [emitted EXCEPT ![q] = n]
      /\ IF owner[q] = {}
           THEN held' = [held EXCEPT ![q] = Append(@, n)] /\ UNCHANGED <<sequence, sent>>
           ELSE /\ \E s \in owner[q] :
                     IF socket[s] = "open"
                       THEN /\ sequence' = [sequence EXCEPT ![s] = @ + 1]
                            /\ sent' = [sent EXCEPT ![s] = Append(@, Event(q, n, sequence[s] + 1))]
                       ELSE UNCHANGED <<sequence, sent>>
                /\ UNCHANGED held
      /\ UNCHANGED owner

(* The row is there: run.queued is emitted, the run is enqueued and        *)
(* admit() returns.                                                        *)
AdmitReturns(q) ==
  /\ AtPoint(q, "created", "done")
  /\ Emit(q)
  /\ UNCHANGED <<sessionVars, socketVars>>

(* The executor emits an event, before or after the request was answered.  *)
RunEmits(q) ==
  /\ emitted[q] \in 1 .. MaxEvents - 1
  /\ Emit(q)
  /\ UNCHANGED <<sessionVars, socketVars, request>>

-----------------------------------------------------------------------------
(* Answers                                                                 *)

(* The frames that still leave an open socket.                             *)
Written(s, frames) ==
  [sent EXCEPT ![s] = IF socket[s] = "open" THEN @ \o frames ELSE @]

Numbered(q, s, events) ==
  [i \in DOMAIN events |-> Event(q, events[i], sequence[s] + i)]

(* Defect: the held events are sent before the answer.                     *)
AnswerRunLast(q) ==
  LET s == SocketOf[q]
  IN  /\ owner' = [owner EXCEPT ![q] = {s}]
      /\ held' = [held EXCEPT ![q] = <<>>]
      /\ sequence' = [sequence EXCEPT ![s] = IF socket[s] = "open" THEN @ + Len(held[q]) ELSE @]
      /\ sent' = Written(s, Numbered(q, s, held[q]) \o <<Response(q)>>)

(* Defect: the answer is sent, and the owner never recorded.               *)
AnswerRunDisowned(q) ==
  /\ sent' = Written(SocketOf[q], <<Response(q)>>)
  /\ UNCHANGED <<owner, held, sequence>>

(* The answer, then what was held; the socket owns the run, even if it was *)
(* closed meanwhile.                                                       *)
AnswerRun(q) ==
  LET s == SocketOf[q]
  IN  /\ owner' = [owner EXCEPT ![q] = {s}]
      /\ held' = [held EXCEPT ![q] = <<>>]
      /\ sequence' = [sequence EXCEPT ![s] = IF socket[s] = "open" THEN @ + Len(held[q]) ELSE @]
      /\ sent' = Written(s, <<Response(q)>> \o Numbered(q, s, held[q]))

Answer(q) ==
  /\ \/ /\ request[q] = "done" /\ MethodOf[q] = "agent.run"
        /\ AnswerRun(q)
     \/ /\ request[q] = "failed" \/ (request[q] = "done" /\ MethodOf[q] # "agent.run")
        /\ sent' = Written(SocketOf[q], <<Response(q)>>)
        /\ UNCHANGED <<owner, held, sequence>>
  /\ AtPoint(q, request[q], "answered")
  /\ UNCHANGED <<sessionVars, socketVars, emitted>>

-----------------------------------------------------------------------------
Dispatch(q) == LookupReturns(q) \/ CreateRun(q) \/ AdmitReturns(q) \/ Answer(q)

Next ==
  \/ \E s \in Sockets : Accept(s) \/ Connect(s) \/ BeginClose(s) \/ Close(s)
  \/ \E q \in Requests : Receive(q) \/ Dispatch(q) \/ RunEmits(q)
  \/ Stop

(* The awaits of a dispatch are on synchronous storage calls: they return. *)
(* Runs, clients and the shutdown are not assumed to do anything.          *)
Fairness == \A q \in Requests : WF_vars(Dispatch(q))

Spec == Init /\ [][Next]_vars /\ Fairness

-----------------------------------------------------------------------------
(* Properties                                                              *)

(* Frame j goes on from those that were sent to the socket s before it.    *)
FollowsOn(frames, s, j) ==
  LET frame == frames[j]
      Earlier == 1 .. j - 1
  IN  /\ SocketOf[frame.of] = s
      /\ \/ frame.type = "res" /\ \A i \in Earlier : frames[i].of # frame.of
         \/ /\ frame.type = "event"
            /\ \A i \in Earlier :
                 /\ frames[i].type = "event" => frames[i].seq < frame.seq
                 /\ frames[i].of = frame.of => frames[i].number < frame.number
            /\ \/ frame.seq = 1
               \/ \E i \in Earlier : frames[i].type = "event" /\ frames[i].seq = frame.seq - 1
            /\ \E i \in Earlier : frames[i].of = frame.of /\ frames[i].number = frame.number - 1

(* On every connection the events are numbered 1, 2, 3..., and those of a  *)
(* run come to the socket that asked for it, after the answer, in the      *)
(* order they were emitted in, from the first on and without a gap: the    *)
(* answer is number 0 of its run.                                          *)
DeliveryIsOrdered ==
  \A s \in Sockets : \A j \in DOMAIN sent[s] : FollowsOn(sent[s], s, j)

(* While its socket stays open the client of a run comes to have its answer *)
(* and every event emitted so far: none stays held and none is dropped.    *)
EventsReachTheirClient ==
  \A q \in Requests :
    []<>(\/ emitted[q] = 0 \/ socket[SocketOf[q]] # "open"
         \/ \E i \in DOMAIN sent[SocketOf[q]] :
              LET frame == sent[SocketOf[q]][i]
              IN  frame.of = q /\ frame.number = emitted[q])

-----------------------------------------------------------------------------
(* What a document of the repository says and the code does not do.        *)

(* ADR 0003, "Resolving or creating a session for a canonical key must     *)
(* behave atomically from the caller's perspective": a request that        *)
(* resolves its session does not learn that another one created it first.  *)
ResolveIsAtomic ==
  \A q \in Requests : MethodOf[q] # "sessions.create" => resolved[q] # "conflict"
=============================================================================
