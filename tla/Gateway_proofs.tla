--------------------------- MODULE Gateway_proofs ---------------------------
(* Proofs about the gateway, for every value of its constants: a session   *)
(* key is mapped to one session, and what a client receives is in order.   *)
EXTENDS Gateway, TLAPS

(* What was read of the index is still its row, for rows never change, and *)
(* who has a row was told so.                                              *)
IndexInv ==
  /\ SessionsTypeOK
  /\ \A q \in Requests : looked[q] \subseteq {session[KeyOf[q]]}
  /\ \A q \in Requests : session[KeyOf[q]] = q => resolved[q] = q
  /\ ResolveAgrees

(* A request whose session is still to come was told nothing: it creates   *)
(* one at most once.                                                       *)
SessionsInv ==
  /\ IndexInv
  /\ request \in [Requests -> Points]
  /\ \A q \in Requests : request[q] \in {"idle", "lookup"} => resolved[q] = "none"

-----------------------------------------------------------------------------
(* Sessions.                                                               *)

LEMMA LookUpKeeps ==
  ASSUME IndexInv, NEW q \in Requests, LookUp(q)
  PROVE  IndexInv'
<1> USE DEF IndexInv, LookUp
<1>1. SessionsTypeOK'
  <2>1. session[KeyOf[q]] \in Requests \cup {"none"}
    BY SessionsAssumption DEF SessionsTypeOK
  <2>2. {session[KeyOf[q]]} \ {"none"} \in SUBSET Requests
    BY <2>1
  <2> QED BY <2>2 DEF SessionsTypeOK
<1>2. (\A r \in Requests : looked[r] \subseteq {session[KeyOf[r]]})'
  BY DEF SessionsTypeOK
<1>3. ResolveAgrees' /\ (\A r \in Requests : session[KeyOf[r]] = r => resolved[r] = r)'
  BY DEF ResolveAgrees
<1> QED BY <1>1, <1>2, <1>3

(* A request that fails, of a conflict with the row of another or without  *)
(* one, has no row.                                                        *)
LEMMA FailureKeeps ==
  ASSUME IndexInv, NEW q \in Requests, NEW failure \in Failures, resolved[q] = "none",
         failure = "conflict" => session[KeyOf[q]] # "none",
         session' = session, looked' = looked, resolved' = [resolved EXCEPT ![q] = failure]
  PROVE  IndexInv'
<1> USE SessionsAssumption, NoRequestIsAWord DEF IndexInv, SessionsTypeOK, Failures
<1>1. session[KeyOf[q]] # q
  OBVIOUS
<1>2. SessionsTypeOK' /\ (\A r \in Requests : looked[r] \subseteq {session[KeyOf[r]]})'
  OBVIOUS
<1>3. ASSUME NEW r \in Requests
      PROVE  /\ session'[KeyOf[r]] = r => resolved'[r] = r
             /\ resolved'[r] \in Requests => resolved'[r] = session'[KeyOf[r]]
             /\ resolved'[r] = "conflict" => session'[KeyOf[r]] \in Requests \ {r}
             /\ resolved'[r] = "error" => session'[KeyOf[r]] # r
  <2>1. CASE r = q
    <3>1. resolved'[r] = failure /\ session'[KeyOf[r]] = session[KeyOf[q]]
      BY <2>1
    <3>2. session[KeyOf[q]] \in Requests \cup {"none"}
      OBVIOUS
    <3> QED BY <1>1, <2>1, <3>1, <3>2
  <2>2. CASE r # q
    <3>1. resolved'[r] = resolved[r] /\ session'[KeyOf[r]] = session[KeyOf[r]]
      BY <2>2
    <3> QED BY <3>1 DEF ResolveAgrees
  <2> QED BY <2>1, <2>2
<1> QED BY <1>2, <1>3 DEF ResolveAgrees

(* A row is written where there was none, and nobody had read another.     *)
LEMMA CreateKeeps ==
  ASSUME IndexInv, NEW q \in Requests, resolved[q] = "none", Create(q)
  PROVE  IndexInv'
<1>1. CASE session[KeyOf[q]] = "none" /\ session' = [session EXCEPT ![KeyOf[q]] = q]
           /\ resolved' = [resolved EXCEPT ![q] = q]
  <2> USE SessionsAssumption, NoRequestIsAWord DEF IndexInv, SessionsTypeOK, Failures
  <2>1. looked' = looked
    BY DEF Create
  <2>2. ASSUME NEW r \in Requests PROVE looked'[r] \subseteq {session'[KeyOf[r]]}
    <3>1. CASE KeyOf[r] = KeyOf[q]
      BY <1>1, <2>1, <3>1
    <3>2. CASE KeyOf[r] # KeyOf[q]
      BY <1>1, <2>1, <3>2
    <3> QED BY <3>1, <3>2
  <2>3. ASSUME NEW r \in Requests
        PROVE  /\ session'[KeyOf[r]] = r => resolved'[r] = r
               /\ resolved'[r] \in Requests => resolved'[r] = session'[KeyOf[r]]
               /\ resolved'[r] = "conflict" => session'[KeyOf[r]] \in Requests \ {r}
               /\ resolved'[r] = "error" => session'[KeyOf[r]] # r
    BY <1>1, <2>1 DEF ResolveAgrees
  <2> QED BY <1>1, <2>1, <2>2, <2>3 DEF ResolveAgrees
<1>2. CASE session[KeyOf[q]] # "none" /\ session' = session
           /\ resolved' = [resolved EXCEPT ![q] = "conflict"]
  BY <1>2, FailureKeeps DEF Create, Failures
<1>3. CASE session' = session /\ resolved' = [resolved EXCEPT ![q] = "error"]
  BY <1>3, FailureKeeps DEF Create, Failures
<1> QED BY <1>1, <1>2, <1>3 DEF Create

LEMMA ResolveLookedKeeps ==
  ASSUME IndexInv, NEW q \in Requests, resolved[q] = "none", ResolveLooked(q)
  PROVE  IndexInv'
<1>1. CASE looked[q] = {}
  BY <1>1, CreateKeeps DEF ResolveLooked
<1>2. CASE looked[q] # {}
  <2>1. PICK id \in looked[q] : resolved' = [resolved EXCEPT ![q] = id]
    BY <1>2 DEF ResolveLooked
  <2>2. id = session[KeyOf[q]] /\ id \in Requests /\ session' = session /\ looked' = looked
    BY <1>2, <2>1 DEF ResolveLooked, IndexInv, SessionsTypeOK
  <2> QED BY <2>1, <2>2, NoRequestIsAWord
          DEF IndexInv, SessionsTypeOK, ResolveAgrees, Failures
<1> QED BY <1>1, <1>2

LEMMA InitSessions == Init => SessionsInv
  BY SessionsAssumption, NoRequestIsAWord
     DEF Init, SessionsInit, SessionsInv, IndexInv, SessionsTypeOK, ResolveAgrees, Failures, Points

LEMMA NextSessions == SessionsInv /\ [Next]_vars => SessionsInv'
<1> SUFFICES ASSUME SessionsInv, [Next]_vars PROVE SessionsInv'
  OBVIOUS
<1>1. UNCHANGED sessionVars => IndexInv'
  BY DEF sessionVars, SessionsInv, IndexInv, SessionsTypeOK, ResolveAgrees
<1>2. CASE UNCHANGED <<sessionVars, request>>
  BY <1>1, <1>2 DEF SessionsInv, sessionVars
<1>3. ASSUME NEW q \in Requests, Receive(q) PROVE SessionsInv'
  <2>1. resolved[q] = "none"
    BY <1>3 DEF Receive, AtPoint, SessionsInv
  <2>2. IndexInv'
    BY <1>1, <1>3, <2>1, LookUpKeeps, CreateKeeps, FailureKeeps
       DEF Receive, LookUpFails, Failures, SessionsInv
  <2>3. PICK to \in Points \ {"idle"} :
          /\ request' = [request EXCEPT ![q] = to]
          /\ to = "lookup" => resolved' = resolved
          /\ \A r \in Requests \ {q} : resolved'[r] = resolved[r]
    <3>1. \A r \in Requests \ {q} : resolved'[r] = resolved[r]
      BY <1>3 DEF Receive, LookUp, LookUpFails, Create, sessionVars, SessionsInv, IndexInv,
                  SessionsTypeOK
    <3> QED BY <1>3, <3>1 DEF Receive, AtPoint, Points, LookUp
  <2> QED BY <2>1, <2>2, <2>3 DEF SessionsInv
<1>4. ASSUME NEW q \in Requests, LookupReturns(q) PROVE SessionsInv'
  <2>1. resolved[q] = "none"
    BY <1>4 DEF LookupReturns, AtPoint, SessionsInv
  <2>2. IndexInv'
    BY <1>4, <2>1, ResolveLookedKeeps DEF LookupReturns, SessionsInv
  <2>3. \A r \in Requests \ {q} : resolved'[r] = resolved[r]
    BY <1>4 DEF LookupReturns, ResolveLooked, Create, SessionsInv, IndexInv, SessionsTypeOK
  <2>4. PICK to \in Points \ {"idle", "lookup"} : request' = [request EXCEPT ![q] = to]
    <3>1. \E to \in {"failed", "resolved", "done"} : request' = [request EXCEPT ![q] = to]
      <4> DEFINE to == IF resolved'[q] \in Failures THEN "failed"
                       ELSE IF MethodOf[q] = "agent.run" THEN "resolved" ELSE "done"
      <4>1. to \in {"failed", "resolved", "done"}
        OBVIOUS
      <4>2. request' = [request EXCEPT ![q] = to]
        BY <1>4 DEF LookupReturns, AtPoint
      <4> QED BY <4>1, <4>2
    <3> QED BY <3>1 DEF Points
  <2> QED BY <2>2, <2>3, <2>4 DEF SessionsInv
<1>5. CASE \E s \in Sockets : Accept(s) \/ Connect(s) \/ BeginClose(s) \/ Close(s)
  BY <1>2, <1>5 DEF Accept, Connect, BeginClose, Close
<1>6. CASE Stop
  BY <1>2, <1>6 DEF Stop
<1>7. ASSUME NEW q \in Requests, CreateRun(q) \/ AdmitReturns(q) \/ Answer(q) PROVE SessionsInv'
  <2>1. UNCHANGED sessionVars
    BY <1>7 DEF CreateRun, AdmitReturns, Answer
  <2>2. PICK to \in Points \ {"idle", "lookup"} : request' = [request EXCEPT ![q] = to]
    <3>1. CASE CreateRun(q)
      <4>1. CASE AtPoint(q, "resolved", "created")
        BY <4>1 DEF AtPoint, Points
      <4>2. CASE AtPoint(q, "resolved", "failed")
        BY <4>2 DEF AtPoint, Points
      <4> QED BY <3>1, <4>1, <4>2 DEF CreateRun
    <3>2. CASE AdmitReturns(q)
      BY <3>2 DEF AdmitReturns, AtPoint, Points
    <3>3. CASE Answer(q)
      <4>1. request' = [request EXCEPT ![q] = "answered"]
        BY <3>3 DEF Answer, AtPoint
      <4> QED BY <4>1 DEF Points
    <3> QED BY <1>7, <3>1, <3>2, <3>3
  <2> QED BY <1>1, <2>1, <2>2 DEF SessionsInv, sessionVars
<1>8. CASE \E q \in Requests : RunEmits(q)
  BY <1>2, <1>8 DEF RunEmits
<1> QED BY <1>2, <1>3, <1>4, <1>5, <1>6, <1>7, <1>8 DEF Next, Dispatch, vars

(* Concurrent requests agree on the session of a key, for any requests,    *)
(* keys and sockets and whatever storage does: each resolve() or create()  *)
(* that gave a session gave the one the key is mapped to; one that met a   *)
(* conflict left the key to the session of another request, and one that   *)
(* failed otherwise left no session of its own (session-resolver.ts,       *)
(* sqlite-session-store.ts).  Which of these happens to the losers is not  *)
(* promised.                                                               *)
THEOREM SessionsAgree == Spec => []ResolveAgrees
<1>1. SessionsInv => ResolveAgrees
  BY DEF SessionsInv, IndexInv
<1> QED BY <1>1, InitSessions, NextSessions, PTL DEF Spec

-----------------------------------------------------------------------------
(* Delivery.                                                               *)

(* What the frames of a socket tell of a run: number n, no more than n,    *)
(* nothing.                                                                *)
Told(frames, q, n) == \E i \in DOMAIN frames : frames[i].of = q /\ frames[i].number = n

ToldAtMost(frames, q, n) == \A i \in DOMAIN frames : frames[i].of = q => frames[i].number <= n

NotTold(frames, q) == \A i \in DOMAIN frames : frames[i].of # q

(* The frames of the socket s follow each other, and its counter is the    *)
(* number of its last event.                                               *)
Ordered(frames, s, counter) ==
  /\ \A i \in DOMAIN frames : frames[i].type = "event" => frames[i].seq <= counter
  /\ counter = 0 \/ \E i \in DOMAIN frames : frames[i].type = "event" /\ frames[i].seq = counter
  /\ \A j \in DOMAIN frames : FollowsOn(frames, s, j)

Early == {"idle", "lookup", "resolved", "created"}

(* What is known of a request: before its answer its events are held, all  *)
(* of them in order, and after it an open socket has them all.             *)
RequestInv(q) ==
  /\ request[q] \in Early => emitted[q] = 0
  /\ request[q] # "idle" => socket[SocketOf[q]] # "new"
  /\ request[q] # "answered" =>
       /\ owner[q] = {} /\ \A s \in Sockets : NotTold(sent[s], q)
       /\ held[q] = [i \in 1 .. emitted[q] |-> i]
  /\ owner[q] \subseteq {SocketOf[q]}
  /\ owner[q] # {} /\ socket[SocketOf[q]] = "open" => Told(sent[SocketOf[q]], q, emitted[q])
  /\ \A s \in Sockets : ToldAtMost(sent[s], q, emitted[q])

Inv ==
  /\ GatewayTypeOK
  /\ \A q \in Requests : RequestInv(q)
  /\ \A s \in Sockets : Ordered(sent[s], s, sequence[s])

LEMMA FrameFields ==
  \A f \in Frame : f.number \in Nat /\ f.seq \in Nat /\ f.of \in Requests /\ f.type \in {"res", "event"}
  BY DEF Frame

LEMMA FollowsOnLonger ==
  ASSUME NEW f \in Seq(Frame), NEW g \in Seq(Frame), NEW s, NEW j \in DOMAIN f,
         Len(f) <= Len(g), \A i \in 1 .. Len(f) : g[i] = f[i], FollowsOn(f, s, j)
  PROVE  FollowsOn(g, s, j)
<1>1. g[j] = f[j] /\ \A i \in 1 .. j - 1 : g[i] = f[i]
  OBVIOUS
<1> QED BY <1>1 DEF FollowsOn

(* What was told stays told, and what is sent of a run is not of another.  *)
LEMMA OthersAreUntouched ==
  ASSUME NEW f \in Seq(Frame), NEW g \in Seq(Frame), NEW q, NEW r, r # q,
         Len(f) <= Len(g), \A i \in 1 .. Len(f) : g[i] = f[i],
         \A i \in Len(f) + 1 .. Len(g) : g[i].of = q
  PROVE  /\ \A n : Told(f, r, n) => Told(g, r, n)
         /\ \A n : ToldAtMost(f, r, n) => ToldAtMost(g, r, n)
         /\ NotTold(f, r) => NotTold(g, r)
<1>1. /\ DOMAIN f = 1 .. Len(f) /\ DOMAIN g = 1 .. Len(g) /\ Len(f) \in Nat /\ Len(g) \in Nat
  OBVIOUS
<1>2. \A i \in DOMAIN g : g[i].of = r => i \in DOMAIN f /\ g[i] = f[i]
  BY <1>1
<1>3. \A i \in DOMAIN f : i \in DOMAIN g /\ g[i] = f[i]
  BY <1>1
<1> QED BY <1>2, <1>3 DEF Told, ToldAtMost, NotTold

LEMMA Concatenation ==
  ASSUME NEW f \in Seq(Frame), NEW b \in Seq(Frame)
  PROVE  /\ f \o b \in Seq(Frame) /\ Len(f \o b) = Len(f) + Len(b)
         /\ \A i \in 1 .. Len(f) : (f \o b)[i] = f[i]
         /\ \A i \in 1 .. Len(b) : (f \o b)[Len(f) + i] = b[i]
  OBVIOUS

LEMMA AnswerFrames ==
  ASSUME NEW f \in Seq(Frame), NEW a \in Frame, NEW es \in Seq(Frame),
         NEW l \in Nat, l = Len(f), NEW n \in Nat, n = Len(es)
  PROVE  LET g == f \o (<<a>> \o es)
         IN  /\ g \in Seq(Frame) /\ Len(g) = l + 1 + n
             /\ \A i \in 1 .. l : g[i] = f[i]
             /\ g[l + 1] = a
             /\ \A i \in 1 .. n : g[l + 1 + i] = es[i]
<1> DEFINE b == <<a>> \o es
           g == f \o b
<1>1. b \in Seq(Frame) /\ Len(b) = 1 + n /\ b[1] = a /\ \A i \in 1 .. n : b[1 + i] = es[i]
  OBVIOUS
<1> HIDE DEF b
<1>2. /\ g \in Seq(Frame) /\ Len(g) = Len(f) + Len(b)
      /\ \A i \in 1 .. Len(f) : g[i] = f[i]
      /\ \A i \in 1 .. Len(b) : g[Len(f) + i] = b[i]
  BY <1>1, Concatenation
<1> HIDE DEF g
<1>3. Len(g) = l + 1 + n
  BY <1>1, <1>2
<1>4. g[l + 1] = a
  <2>1. 1 \in 1 .. Len(b)
    BY <1>1
  <2> QED BY <1>1, <1>2, <2>1
<1>5. ASSUME NEW i \in 1 .. n PROVE g[l + 1 + i] = es[i]
  <2>1. 1 + i \in 1 .. Len(b) /\ l + (1 + i) = l + 1 + i
    BY <1>1
  <2>2. g[l + (1 + i)] = b[1 + i]
    BY <1>2, <2>1
  <2> QED BY <1>1, <2>1, <2>2
<1> QED BY <1>2, <1>3, <1>4, <1>5 DEF g, b

(* The next event of a run of which all events were sent.                  *)
LEMMA EventIsOrdered ==
  ASSUME NEW s \in Sockets, NEW f \in Seq(Frame), NEW k \in Nat, Ordered(f, s, k),
         NEW q \in Requests, SocketOf[q] = s, NEW m \in Nat, Told(f, q, m), ToldAtMost(f, q, m),
         NEW g \in Seq(Frame), NEW l \in Nat, l = Len(f), Len(g) = l + 1,
         \A i \in 1 .. l : g[i] = f[i],
         NEW e, g[l + 1] = e, e.of = q, e.type = "event", e.number = m + 1, e.seq = k + 1
  PROVE  Ordered(g, s, k + 1) /\ Told(g, q, m + 1) /\ ToldAtMost(g, q, m + 1)
<1>1. /\ DOMAIN f = 1 .. l /\ DOMAIN g = 1 .. l + 1
      /\ \A i \in 1 .. l : f[i] \in Frame
  OBVIOUS
<1>2. \A i \in 1 .. l : f[i].seq \in Nat /\ f[i].number \in Nat
  BY <1>1, FrameFields
<1>3. Told(g, q, m + 1)
  BY <1>1 DEF Told
<1>4. ToldAtMost(g, q, m + 1)
  BY <1>1, <1>2 DEF ToldAtMost
<1>5. FollowsOn(g, s, l + 1)
  <2>1. \A i \in 1 .. l : g[i].type = "event" => g[i].seq < e.seq
    BY <1>1, <1>2 DEF Ordered
  <2>2. e.seq = 1 \/ \E i \in 1 .. l : g[i].type = "event" /\ g[i].seq = e.seq - 1
    BY <1>1 DEF Ordered
  <2>3. ASSUME NEW i \in 1 .. l, g[i].of = q PROVE g[i].number < e.number
    <3>1. g[i] = f[i] /\ f[i].number \in Nat /\ f[i].number <= m
      BY <1>1, <1>2, <2>3 DEF ToldAtMost
    <3> QED BY <3>1
  <2>4. \E i \in 1 .. l : g[i].of = q /\ g[i].number = e.number - 1
    BY <1>1 DEF Told
  <2>5. (l + 1) - 1 = l
    OBVIOUS
  <2> QED BY <2>1, <2>2, <2>3, <2>4, <2>5 DEF FollowsOn
<1>6. ASSUME NEW j \in DOMAIN f PROVE FollowsOn(g, s, j)
  BY <1>1, FollowsOnLonger DEF Ordered
<1>7. \A j \in DOMAIN g : FollowsOn(g, s, j)
  BY <1>1, <1>5, <1>6
<1>8. \A i \in DOMAIN g : g[i].type = "event" => g[i].seq <= k + 1
  BY <1>1, <1>2 DEF Ordered
<1>9. \E i \in DOMAIN g : g[i].type = "event" /\ g[i].seq = k + 1
  BY <1>1
<1> QED BY <1>3, <1>4, <1>7, <1>8, <1>9 DEF Ordered

(* g is f with the answer of a run and m events.                           *)
AnsweredIn(f, g, q, k, m) ==
  /\ f \in Seq(Frame) /\ g \in Seq(Frame) /\ Len(g) = Len(f) + 1 + m
  /\ \A i \in 1 .. Len(f) : g[i] = f[i]
  /\ g[Len(f) + 1].type = "res" /\ g[Len(f) + 1].of = q /\ g[Len(f) + 1].number = 0
  /\ \A i \in 1 .. m : /\ g[Len(f) + 1 + i].type = "event" /\ g[Len(f) + 1 + i].of = q
                        /\ g[Len(f) + 1 + i].number = i /\ g[Len(f) + 1 + i].seq = k + i

(* The answer of a run of which nothing was sent, with the m events that   *)
(* were held.                                                              *)
LEMMA AnswerIsOrdered ==
  ASSUME NEW s \in Sockets, NEW f \in Seq(Frame), NEW k \in Nat, Ordered(f, s, k),
         NEW q \in Requests, SocketOf[q] = s, NEW m \in Nat, NotTold(f, q),
         NEW g, NEW l \in Nat, l = Len(f), AnsweredIn(f, g, q, k, m)
  PROVE  Ordered(g, s, k + m) /\ Told(g, q, m) /\ ToldAtMost(g, q, m)
<1>a. g \in Seq(Frame) /\ Len(g) = l + 1 + m
  BY DEF AnsweredIn
<1>b. \A i \in 1 .. l : g[i] = f[i]
  BY DEF AnsweredIn
<1>c. g[l + 1].type = "res" /\ g[l + 1].of = q /\ g[l + 1].number = 0
  BY DEF AnsweredIn
<1>d. \A i \in 1 .. m : /\ g[l + 1 + i].type = "event" /\ g[l + 1 + i].of = q
                        /\ g[l + 1 + i].number = i /\ g[l + 1 + i].seq = k + i
  BY DEF AnsweredIn
<1>1. DOMAIN f = 1 .. l /\ DOMAIN g = 1 .. l + 1 + m /\ \A i \in 1 .. l : f[i] \in Frame
  BY <1>a
<1>2. \A i \in 1 .. l : /\ g[i].seq \in Nat /\ g[i].of # q
                        /\ g[i].type = "event" => g[i].seq <= k
  <2>1. \A i \in 1 .. l : f[i].seq \in Nat
    BY <1>1, FrameFields
  <2>2. \A i \in 1 .. l : f[i].of # q /\ (f[i].type = "event" => f[i].seq <= k)
    BY <1>1 DEF NotTold, Ordered
  <2> QED BY <1>b, <2>1, <2>2
<1>3. ASSUME NEW j \in 1 .. l + 1 + m, j \notin 1 .. l, j # l + 1
      PROVE  \E i \in 1 .. m : /\ j = l + 1 + i
                               /\ g[j].type = "event" /\ g[j].of = q
                               /\ g[j].number = i /\ g[j].seq = k + i
  <2>1. PICK i \in 1 .. m : j = l + 1 + i
    <3>1. j - (l + 1) \in 1 .. m /\ j = l + 1 + (j - (l + 1))
      BY <1>3
    <3> QED BY <3>1
  <2> QED BY <1>d, <2>1
<1>4. Told(g, q, m)
  <2>1. CASE m = 0
    BY <1>1, <1>c, <2>1 DEF Told
  <2>2. CASE m # 0
    <3>1. m \in 1 .. m /\ l + 1 + m \in DOMAIN g
      BY <1>1, <2>2
    <3> QED BY <1>d, <3>1 DEF Told
  <2> QED BY <2>1, <2>2
<1>5. ToldAtMost(g, q, m)
  <2> SUFFICES ASSUME NEW j \in 1 .. l + 1 + m, g[j].of = q PROVE g[j].number <= m
    BY <1>1 DEF ToldAtMost
  <2>1. CASE j = l + 1
    BY <1>c, <2>1
  <2>2. CASE j # l + 1
    <3>1. PICK i \in 1 .. m : g[j].number = i
      BY <1>2, <1>3, <2>2
    <3> QED BY <3>1
  <2> QED BY <2>1, <2>2
<1>6. \A j \in DOMAIN g : g[j].type = "event" => g[j].seq <= k + m
  <2> SUFFICES ASSUME NEW j \in 1 .. l + 1 + m, g[j].type = "event" PROVE g[j].seq <= k + m
    BY <1>1
  <2>1. CASE j \in 1 .. l
    <3>1. g[j].seq \in Nat /\ g[j].seq <= k
      BY <1>2, <2>1
    <3> QED BY <3>1
  <2>2. CASE j \notin 1 .. l
    <3>1. PICK i \in 1 .. m : g[j].seq = k + i
      BY <1>3, <1>c, <2>2
    <3> QED BY <3>1
  <2> QED BY <2>1, <2>2
<1>7. k = 0 \/ \E i \in 1 .. l : g[i].type = "event" /\ g[i].seq = k
  BY <1>1, <1>b DEF Ordered
<1>8. k + m = 0 \/ \E i \in DOMAIN g : g[i].type = "event" /\ g[i].seq = k + m
  <2>1. CASE m = 0
    BY <1>1, <1>7, <2>1
  <2>2. CASE m # 0
    <3>1. m \in 1 .. m /\ l + 1 + m \in DOMAIN g
      BY <1>1, <2>2
    <3> QED BY <1>d, <3>1
  <2> QED BY <2>1, <2>2
<1>9. FollowsOn(g, s, l + 1)
  <2>1. (l + 1) - 1 = l
    OBVIOUS
  <2> QED BY <1>2, <1>c, <2>1 DEF FollowsOn
<1>10. ASSUME NEW n \in 1 .. m PROVE FollowsOn(g, s, l + 1 + n)
  <2>1. (l + 1 + n) - 1 = l + n /\ n \in Nat /\ 1 .. l \subseteq 1 .. l + n
    OBVIOUS
  <2>2. n = 1 \/ (n - 1 \in 1 .. m /\ l + 1 + (n - 1) = l + n /\ l + n \in 1 .. l + n)
    OBVIOUS
  <2>3. ASSUME NEW i \in 1 .. l + n
        PROVE  /\ g[i].type = "event" => g[i].seq < k + n
               /\ g[i].of = q => g[i].number < n
    <3>1. CASE i \in 1 .. l
      <4>1. g[i].of # q /\ g[i].seq \in Nat /\ (g[i].type = "event" => g[i].seq <= k)
        BY <1>2, <3>1
      <4> QED BY <2>1, <4>1
    <3>2. CASE i = l + 1
      BY <1>c, <3>2
    <3>3. CASE i \notin 1 .. l /\ i # l + 1
      <4>1. i \in 1 .. l + 1 + m
        OBVIOUS
      <4>2. PICK o \in 1 .. m : i = l + 1 + o /\ g[i].number = o /\ g[i].seq = k + o
        BY <1>3, <3>3, <4>1
      <4> QED BY <4>2
    <3> QED BY <3>1, <3>2, <3>3
  <2>4. k + n = 1 \/ \E i \in 1 .. l + n : g[i].type = "event" /\ g[i].seq = (k + n) - 1
    <3>1. CASE n = 1
      <4>1. (k + n) - 1 = k
        BY <3>1
      <4> QED BY <1>7, <2>1, <3>1, <4>1
    <3>2. CASE n # 1
      <4>1. g[l + n].type = "event" /\ g[l + n].seq = k + (n - 1)
        BY <1>d, <2>2, <3>2
      <4>2. k + (n - 1) = (k + n) - 1
        OBVIOUS
      <4> QED BY <2>2, <3>2, <4>1, <4>2
    <3> QED BY <3>1, <3>2
  <2>5. \E i \in 1 .. l + n : g[i].of = q /\ g[i].number = n - 1
    <3>1. CASE n = 1
      BY <1>c, <3>1
    <3>2. CASE n # 1
      BY <1>d, <2>2, <3>2
    <3> QED BY <3>1, <3>2
  <2>6. /\ g[l + 1 + n].type = "event" /\ g[l + 1 + n].of = q
        /\ g[l + 1 + n].number = n /\ g[l + 1 + n].seq = k + n
    BY <1>d
  <2> QED BY <2>1, <2>3, <2>4, <2>5, <2>6 DEF FollowsOn
<1>f. ASSUME NEW j \in DOMAIN f PROVE FollowsOn(g, s, j)
  <2>1. Len(f) <= Len(g)
    BY <1>a
  <2> QED BY <1>a, <1>b, <2>1, FollowsOnLonger DEF Ordered
<1>11. ASSUME NEW j \in DOMAIN g PROVE FollowsOn(g, s, j)
  <2>1. CASE j \in 1 .. l
    BY <1>1, <1>f, <2>1
  <2>2. CASE j = l + 1
    BY <1>9, <2>2
  <2>3. CASE j \notin 1 .. l /\ j # l + 1
    <3>1. j \in 1 .. l + 1 + m
      BY <1>1
    <3>2. PICK n \in 1 .. m : j = l + 1 + n
      BY <1>3, <2>3, <3>1
    <3> QED BY <1>10, <3>2
  <2> QED BY <2>1, <2>2, <2>3
<1> QED BY <1>4, <1>5, <1>6, <1>8, <1>11 DEF Ordered

LEMMA InitInv == Init => Inv
<1> SUFFICES ASSUME Init PROVE Inv
  OBVIOUS
<1> USE DEF Init, SessionsInit
<1>1. GatewayTypeOK
  <2>1. /\ held \in [Requests -> Seq(1 .. MaxEvents)]
        /\ sent \in [Sockets -> Seq(Frame)]
    OBVIOUS
  <2>2. SessionsTypeOK
    BY SessionsAssumption DEF SessionsTypeOK
  <2>3. 0 \in 0 .. MaxEvents
    BY GatewayAssumption
  <2> QED BY <2>1, <2>2, <2>3 DEF GatewayTypeOK, SocketStates, Points
<1>2. DOMAIN <<>> = {} /\ <<>> = [i \in 1 .. 0 |-> i]
  OBVIOUS
<1>3. \A q \in Requests : RequestInv(q)
  BY <1>2, GatewayAssumption DEF RequestInv, NotTold, ToldAtMost, Early
<1>4. \A s \in Sockets : Ordered(sent[s], s, sequence[s])
  BY <1>2 DEF Ordered
<1> QED BY <1>1, <1>3, <1>4 DEF Inv

(* Steps that send, emit and answer nothing.                               *)
LEMMA QuietKeepsInv ==
  ASSUME Inv, GatewayTypeOK',
         sent' = sent, emitted' = emitted, held' = held, sequence' = sequence,
         \A q \in Requests : /\ owner'[q] \subseteq owner[q]
                             /\ request'[q] = "answered" <=> request[q] = "answered"
                             /\ request'[q] \in Early => request[q] \in Early
                             /\ request'[q] # "idle" => socket'[SocketOf[q]] # "new",
         \A s \in Sockets : socket'[s] = "open" => socket[s] \in {"open", "new"}
  PROVE  Inv'
<1> USE GatewayAssumption DEF Inv
<1>1. ASSUME NEW q \in Requests PROVE RequestInv(q)'
  <2>1. RequestInv(q) /\ SocketOf[q] \in Sockets
    OBVIOUS
  <2>2. owner'[q] # {} /\ socket'[SocketOf[q]] = "open" => Told(sent[SocketOf[q]], q, emitted[q])
    BY <2>1 DEF RequestInv
  <2> QED BY <2>1, <2>2 DEF RequestInv
<1> QED BY <1>1

(* The frames of other runs, when one socket gets more frames.             *)
LEMMA OtherRequests ==
  ASSUME Inv, NEW q \in Requests, NEW r \in Requests, r # q, NEW s \in Sockets, NEW g \in Seq(Frame),
         sent' = [sent EXCEPT ![s] = g], Len(sent[s]) <= Len(g),
         \A i \in 1 .. Len(sent[s]) : g[i] = sent[s][i],
         \A i \in Len(sent[s]) + 1 .. Len(g) : g[i].of = q,
         emitted'[r] = emitted[r], held'[r] = held[r], owner'[r] = owner[r], socket' = socket,
         request'[r] = request[r]
  PROVE  RequestInv(r)'
<1>1. RequestInv(r) /\ sent \in [Sockets -> Seq(Frame)] /\ SocketOf[r] \in Sockets
  BY GatewayAssumption DEF Inv, GatewayTypeOK
<1>2. sent[s] \in Seq(Frame)
  BY <1>1
<1>3. /\ \A n : Told(sent[s], r, n) => Told(g, r, n)
      /\ \A n : ToldAtMost(sent[s], r, n) => ToldAtMost(g, r, n)
      /\ NotTold(sent[s], r) => NotTold(g, r)
  BY <1>2, OthersAreUntouched
<1>4. /\ sent'[s] = g /\ \A t \in Sockets : t # s => sent'[t] = sent[t]
  BY <1>1
<1> QED BY <1>1, <1>3, <1>4 DEF RequestInv

(* A step in which the run of q emits an event.                            *)
EmitStep(q) ==
  /\ Emit(q) /\ emitted[q] < MaxEvents
  /\ UNCHANGED <<sessionVars, socketVars>>
  /\ request' \in [Requests -> Points]
  /\ \A r \in Requests : /\ r # q => request'[r] = request[r]
                         /\ request'[r] = "answered" <=> request[r] = "answered"
                         /\ request'[r] = "idle" <=> request[r] = "idle"
  /\ request'[q] \notin Early

LEMMA HeldEventKeepsInv ==
  ASSUME Inv, NEW q \in Requests, EmitStep(q), owner[q] = {}
  PROVE  Inv'
<1> DEFINE n == emitted[q] + 1
<1>1. GatewayTypeOK /\ RequestInv(q) /\ SocketOf[q] \in Sockets
  BY GatewayAssumption DEF Inv
<1>2. /\ n \in 1 .. MaxEvents /\ emitted[q] \in Nat /\ n = emitted[q] + 1
      /\ emitted' = [emitted EXCEPT ![q] = n]
      /\ held' = [held EXCEPT ![q] = Append(@, n)]
      /\ UNCHANGED <<sequence, sent, owner, sessionVars, socketVars>>
  BY <1>1, GatewayAssumption DEF EmitStep, Emit, GatewayTypeOK
<1> HIDE DEF n
<1>3. GatewayTypeOK'
  <2>1. Append(held[q], n) \in Seq(1 .. MaxEvents)
    BY <1>1, <1>2 DEF GatewayTypeOK
  <2>2. n \in 0 .. MaxEvents
    BY <1>2
  <2> QED BY <1>1, <1>2, <2>1, <2>2 DEF GatewayTypeOK, SessionsTypeOK, sessionVars, socketVars, EmitStep
<1>4. RequestInv(q)'
  <2>1. ASSUME request[q] # "answered" PROVE Append(held[q], n) = [i \in 1 .. n |-> i]
    <3>1. held[q] = [i \in 1 .. emitted[q] |-> i] /\ held[q] \in Seq(1 .. MaxEvents)
      BY <1>1, <2>1 DEF RequestInv, GatewayTypeOK
    <3> QED BY <1>2, <3>1
  <2>2. \A t \in Sockets : ToldAtMost(sent[t], q, n)
    <3> SUFFICES ASSUME NEW t \in Sockets, NEW i \in DOMAIN sent[t], sent[t][i].of = q
                 PROVE  sent[t][i].number <= n
      BY DEF ToldAtMost
    <3>1. sent[t][i] \in Frame
      BY <1>1 DEF GatewayTypeOK
    <3>2. sent[t][i].number \in Nat /\ sent[t][i].number <= emitted[q]
      BY <1>1, <3>1, FrameFields DEF RequestInv, ToldAtMost
    <3> QED BY <1>2, <3>2
  <2>3. emitted'[q] = n /\ held'[q] = Append(held[q], n)
    BY <1>1, <1>2 DEF GatewayTypeOK
  <2> QED BY <1>1, <1>2, <2>1, <2>2, <2>3 DEF RequestInv, EmitStep, socketVars
<1>5. ASSUME NEW r \in Requests, r # q PROVE RequestInv(r)'
  BY <1>1, <1>2, <1>5 DEF Inv, RequestInv, EmitStep, socketVars, GatewayTypeOK
<1>6. ASSUME NEW s \in Sockets PROVE Ordered(sent[s], s, sequence[s])'
  BY <1>2 DEF Inv
<1> QED BY <1>3, <1>4, <1>5, <1>6 DEF Inv

LEMMA SentEventKeepsInv ==
  ASSUME Inv, NEW q \in Requests, EmitStep(q), owner[q] # {}
  PROVE  Inv'
<1> DEFINE m == emitted[q]
           s == SocketOf[q]
           e == Event(q, m + 1, sequence[s] + 1)
<1>1. GatewayTypeOK /\ RequestInv(q) /\ SocketOf[q] \in Sockets
  BY GatewayAssumption DEF Inv
<1>2. /\ s \in Sockets /\ s = SocketOf[q] /\ m = emitted[q] /\ m \in Nat /\ m + 1 \in 0 .. MaxEvents
      /\ sequence[s] \in Nat
  BY <1>1, GatewayAssumption DEF EmitStep, GatewayTypeOK
<1>3. e \in Frame /\ e.of = q /\ e.type = "event" /\ e.number = m + 1 /\ e.seq = sequence[s] + 1
  BY <1>2 DEF Frame, Event
<1>4. owner[q] = {s} /\ request[q] = "answered"
  BY <1>1, <1>2 DEF RequestInv
<1>5. /\ emitted' = [emitted EXCEPT ![q] = m + 1]
      /\ UNCHANGED <<held, owner, sessionVars, socketVars>>
      /\ \/ socket[s] # "open" /\ UNCHANGED <<sequence, sent>>
         \/ /\ socket[s] = "open"
            /\ sequence' = [sequence EXCEPT ![s] = @ + 1]
            /\ sent' = [sent EXCEPT ![s] = Append(@, e)]
  BY <1>4 DEF EmitStep, Emit
<1> HIDE DEF m, s, e
<1>6. CASE socket[s] # "open"
  <2>1. UNCHANGED <<sequence, sent>>
    BY <1>5, <1>6
  <2>2. GatewayTypeOK'
    BY <1>1, <1>2, <1>5, <2>1 DEF GatewayTypeOK, SessionsTypeOK, sessionVars, socketVars, EmitStep
  <2>3. RequestInv(q)'
    <3>1. \A t \in Sockets : ToldAtMost(sent[t], q, m + 1)
      <4> SUFFICES ASSUME NEW t \in Sockets, NEW i \in DOMAIN sent[t], sent[t][i].of = q
                   PROVE  sent[t][i].number <= m + 1
        BY DEF ToldAtMost
      <4>1. sent[t][i] \in Frame
        BY <1>1 DEF GatewayTypeOK
      <4>2. sent[t][i].number \in Nat /\ sent[t][i].number <= m
        BY <1>1, <1>2, <4>1, FrameFields DEF RequestInv, ToldAtMost
      <4> QED BY <1>2, <4>2
    <3>2. emitted'[q] = m + 1
      BY <1>1, <1>5 DEF GatewayTypeOK
    <3> QED BY <1>1, <1>2, <1>4, <1>5, <1>6, <2>1, <3>1, <3>2 DEF RequestInv, EmitStep, socketVars
  <2>4. ASSUME NEW r \in Requests, r # q PROVE RequestInv(r)'
    BY <1>1, <1>5, <2>1, <2>4 DEF Inv, RequestInv, EmitStep, socketVars, GatewayTypeOK
  <2>5. ASSUME NEW t \in Sockets PROVE Ordered(sent[t], t, sequence[t])'
    BY <2>1 DEF Inv
  <2> QED BY <2>2, <2>3, <2>4, <2>5 DEF Inv
<1>7. CASE socket[s] = "open"
  <2> DEFINE f == sent[s]
             g == Append(f, e)
             l == Len(f)
  <2>1. f \in Seq(Frame)
    BY <1>1, <1>2 DEF GatewayTypeOK
  <2>2. /\ g \in Seq(Frame) /\ l \in Nat /\ l = Len(f) /\ Len(g) = l + 1 /\ g[l + 1] = e
        /\ \A i \in 1 .. l : g[i] = f[i]
    BY <1>3, <2>1
  <2>3. sequence' = [sequence EXCEPT ![s] = @ + 1] /\ sent' = [sent EXCEPT ![s] = g]
    BY <1>5, <1>7
  <2> HIDE DEF g, l
  <2>4. Ordered(f, s, sequence[s]) /\ Told(f, q, m) /\ ToldAtMost(f, q, m)
    BY <1>1, <1>2, <1>4, <1>7 DEF Inv, RequestInv
  <2>5. Ordered(g, s, sequence[s] + 1) /\ Told(g, q, m + 1) /\ ToldAtMost(g, q, m + 1)
    <3> HIDE DEF f
    <3> DEFINE k == sequence[s]
    <3>1. k \in Nat /\ Ordered(f, s, k) /\ Told(f, q, m) /\ ToldAtMost(f, q, m)
      BY <1>2, <2>4
    <3>2. s \in Sockets /\ SocketOf[q] = s /\ m \in Nat
      BY <1>2
    <3>3. e.of = q /\ e.type = "event" /\ e.number = m + 1 /\ e.seq = k + 1
      BY <1>3
    <3>4. f \in Seq(Frame) /\ g \in Seq(Frame) /\ l \in Nat /\ l = Len(f) /\ Len(g) = l + 1 /\ g[l + 1] = e
          /\ \A i \in 1 .. l : g[i] = f[i]
      BY <2>1, <2>2
    <3> HIDE DEF k
    <3>5. Ordered(g, s, k + 1) /\ Told(g, q, m + 1) /\ ToldAtMost(g, q, m + 1)
      BY <3>1, <3>2, <3>3, <3>4, EventIsOrdered
    <3> QED BY <3>5 DEF k
  <2>6. /\ sent'[s] = g /\ sequence'[s] = sequence[s] + 1
        /\ \A t \in Sockets : t # s => sent'[t] = sent[t] /\ sequence'[t] = sequence[t]
    BY <1>1, <1>2, <2>3 DEF GatewayTypeOK
  <2>7. GatewayTypeOK'
    BY <1>1, <1>2, <1>5, <2>2, <2>3 DEF GatewayTypeOK, SessionsTypeOK, sessionVars, socketVars, EmitStep
  <2>8. RequestInv(q)'
    <3>1. emitted'[q] = m + 1 /\ owner'[q] = {s} /\ request'[q] = "answered"
      BY <1>1, <1>4, <1>5 DEF GatewayTypeOK, EmitStep
    <3>2. \A t \in Sockets : ToldAtMost(sent'[t], q, m + 1)
      <4> SUFFICES ASSUME NEW t \in Sockets, t # s PROVE ToldAtMost(sent[t], q, m + 1)
        BY <2>5, <2>6
      <4> SUFFICES ASSUME NEW i \in DOMAIN sent[t], sent[t][i].of = q PROVE sent[t][i].number <= m + 1
        BY DEF ToldAtMost
      <4>1. sent[t][i] \in Frame
        BY <1>1 DEF GatewayTypeOK
      <4>2. sent[t][i].number \in Nat /\ sent[t][i].number <= m
        BY <1>1, <1>2, <4>1, FrameFields DEF RequestInv, ToldAtMost
      <4> QED BY <1>2, <4>2
    <3> QED BY <1>1, <1>2, <1>5, <1>7, <2>5, <2>6, <3>1, <3>2 DEF RequestInv, socketVars, Early
  <2>9. ASSUME NEW r \in Requests, r # q PROVE RequestInv(r)'
    <3>1. /\ emitted'[r] = emitted[r] /\ held'[r] = held[r] /\ owner'[r] = owner[r] /\ socket' = socket
          /\ request'[r] = request[r]
      BY <1>1, <1>5, <2>9 DEF EmitStep, socketVars, GatewayTypeOK
    <3>2. /\ Len(sent[s]) <= Len(g) /\ \A i \in 1 .. Len(sent[s]) : g[i] = sent[s][i]
          /\ \A i \in Len(sent[s]) + 1 .. Len(g) : g[i].of = q
      BY <1>3, <2>2
    <3> QED BY <1>2, <2>2, <2>3, <2>9, <3>1, <3>2, OtherRequests
  <2>10. ASSUME NEW t \in Sockets PROVE Ordered(sent[t], t, sequence[t])'
    BY <2>5, <2>6 DEF Inv
  <2> QED BY <2>7, <2>8, <2>9, <2>10 DEF Inv
<1> QED BY <1>6, <1>7

(* A request is answered, with n events, held or none.                     *)
AnswerStep(q, es, n) ==
  /\ request[q] # "answered" /\ request[q] # "idle"
  /\ request' = [request EXCEPT ![q] = "answered"]
  /\ UNCHANGED <<sessionVars, socketVars, emitted>>
  /\ n <= emitted[q]
  /\ sequence' = [sequence EXCEPT ![SocketOf[q]] = IF socket[SocketOf[q]] = "open" THEN @ + n ELSE @]
  /\ sent' = Written(SocketOf[q], <<Response(q)>> \o es)
  /\ \A r \in Requests : r # q => owner'[r] = owner[r] /\ held'[r] = held[r]
  /\ owner'[q] = {} \/ (owner'[q] = {SocketOf[q]} /\ n = emitted[q])
  /\ GatewayTypeOK'

LEMMA AnswerStepKeepsInv ==
  ASSUME Inv, NEW q \in Requests, NEW es \in Seq(Frame), NEW n \in Nat, AnswerStep(q, es, n),
         Len(es) = n,
         \A i \in 1 .. n : es[i] = Event(q, i, sequence[SocketOf[q]] + i)
  PROVE  Inv'
<1> DEFINE s == SocketOf[q]
           a == Response(q)
           k == sequence[s]
           f == sent[s]
           g == f \o (<<a>> \o es)
           l == Len(f)
<1>1. GatewayTypeOK /\ RequestInv(q) /\ SocketOf[q] \in Sockets /\ s \in Sockets /\ SocketOf[q] = s
  BY GatewayAssumption DEF Inv
<1>2. k \in Nat /\ f \in Seq(Frame) /\ l \in Nat /\ l = Len(f) /\ emitted[q] \in Nat
  BY <1>1, GatewayAssumption DEF GatewayTypeOK
<1>3. /\ socket' = socket /\ emitted' = emitted /\ request'[q] = "answered" /\ n <= emitted[q]
      /\ request[q] # "answered" /\ request[q] # "idle"
      /\ sequence' = [sequence EXCEPT ![s] = IF socket[s] = "open" THEN k + n ELSE k]
      /\ sent' = [sent EXCEPT ![s] = IF socket[s] = "open" THEN g ELSE f]
      /\ \A r \in Requests : r # q => request'[r] = request[r] /\ owner'[r] = owner[r] /\ held'[r] = held[r]
      /\ owner'[q] = {} \/ (owner'[q] = {s} /\ n = emitted[q])
      /\ GatewayTypeOK'
  BY <1>1 DEF AnswerStep, socketVars, Written, GatewayTypeOK
<1>4. a \in Frame /\ a.type = "res" /\ a.of = q /\ a.number = 0
  BY DEF Response, Frame
<1>5. \A i \in 1 .. n : /\ es[i].type = "event" /\ es[i].of = q
                        /\ es[i].number = i /\ es[i].seq = k + i
  BY DEF Event
<1> HIDE DEF s, a, k, f, l
<1>6. /\ g \in Seq(Frame) /\ Len(g) = l + 1 + n
      /\ \A i \in 1 .. l : g[i] = f[i]
      /\ g[l + 1] = a
      /\ \A i \in 1 .. n : g[l + 1 + i] = es[i]
  BY <1>2, <1>4, AnswerFrames
<1> HIDE DEF g
<1>7. Ordered(f, s, k) /\ NotTold(f, q) /\ owner[q] = {} /\ socket[s] # "new"
  BY <1>1, <1>3 DEF Inv, RequestInv, k, f
<1>8. Ordered(g, s, k + n) /\ Told(g, q, n) /\ ToldAtMost(g, q, n)
  <2>1. AnsweredIn(f, g, q, k, n)
    BY <1>2, <1>4, <1>5, <1>6 DEF AnsweredIn
  <2>2. /\ k \in Nat /\ Ordered(f, s, k) /\ NotTold(f, q) /\ s \in Sockets /\ SocketOf[q] = s
        /\ f \in Seq(Frame) /\ l \in Nat /\ l = Len(f)
    BY <1>1, <1>2, <1>7
  <2> QED BY <2>1, <2>2, AnswerIsOrdered
<1>9. \A i \in l + 1 .. Len(g) : g[i].of = q
  <2> SUFFICES ASSUME NEW i \in l + 1 .. l + 1 + n PROVE g[i].of = q
    BY <1>6
  <2>1. CASE i = l + 1
    BY <1>4, <1>6, <2>1
  <2>2. CASE i # l + 1
    <3>1. i - (l + 1) \in 1 .. n /\ l + 1 + (i - (l + 1)) = i
      BY <1>2, <2>2
    <3> QED BY <1>5, <1>6, <3>1
  <2> QED BY <2>1, <2>2
<1>10. ToldAtMost(g, q, emitted[q])
  <2>1. \A d \in Frame : d.number \in Nat
    BY FrameFields
  <2>2. \A i \in DOMAIN g : g[i].number \in Nat
    BY <1>6, <2>1
  <2> QED BY <1>2, <1>3, <1>8, <2>2 DEF ToldAtMost
<1>11. CASE socket[s] = "open"
  <2>1. sent' = [sent EXCEPT ![s] = g] /\ sequence' = [sequence EXCEPT ![s] = k + n]
    BY <1>3, <1>11
  <2>2. /\ sent'[s] = g /\ sequence'[s] = k + n
        /\ \A t \in Sockets : t # s => sent'[t] = sent[t] /\ sequence'[t] = sequence[t]
    BY <1>1, <2>1 DEF GatewayTypeOK
  <2>3. RequestInv(q)'
    BY <1>1, <1>3, <1>7, <1>8, <1>10, <2>2 DEF RequestInv, Early
  <2>4. ASSUME NEW r \in Requests, r # q PROVE RequestInv(r)'
    <3>1. Len(sent[s]) <= Len(g) /\ (\A i \in 1 .. Len(sent[s]) : g[i] = sent[s][i])
          /\ \A i \in Len(sent[s]) + 1 .. Len(g) : g[i].of = q
      BY <1>2, <1>6, <1>9 DEF f
    <3>2. /\ emitted'[r] = emitted[r] /\ held'[r] = held[r] /\ owner'[r] = owner[r] /\ socket' = socket
          /\ request'[r] = request[r]
      BY <1>3, <2>4
    <3> QED BY <1>1, <1>6, <2>1, <2>4, <3>1, <3>2, OtherRequests
  <2>5. ASSUME NEW t \in Sockets PROVE Ordered(sent[t], t, sequence[t])'
    BY <1>8, <2>2 DEF Inv
  <2> QED BY <1>3, <2>3, <2>4, <2>5 DEF Inv
<1>12. CASE socket[s] # "open"
  <2>1. sent' = sent /\ sequence' = sequence
    BY <1>1, <1>3, <1>12 DEF GatewayTypeOK, k, f
  <2>2. RequestInv(q)'
    BY <1>1, <1>3, <1>7, <1>12, <2>1 DEF RequestInv, Early
  <2>3. ASSUME NEW r \in Requests, r # q PROVE RequestInv(r)'
    BY <1>3, <2>1, <2>3 DEF Inv, RequestInv
  <2>4. ASSUME NEW t \in Sockets PROVE Ordered(sent[t], t, sequence[t])'
    BY <2>1 DEF Inv
  <2> QED BY <1>3, <2>2, <2>3, <2>4 DEF Inv
<1> QED BY <1>11, <1>12

LEMMA WrittenIsTyped ==
  ASSUME GatewayTypeOK, NEW s \in Sockets, NEW frames \in Seq(Frame)
  PROVE  Written(s, frames) \in [Sockets -> Seq(Frame)]
<1>1. sent[s] \in Seq(Frame)
  BY DEF GatewayTypeOK
<1>2. sent[s] \o frames \in Seq(Frame)
  BY <1>1
<1> QED BY <1>2 DEF Written, GatewayTypeOK

LEMMA AnswerKeepsInv ==
  ASSUME Inv, NEW q \in Requests, Answer(q)
  PROVE  Inv'
<1> DEFINE s == SocketOf[q]
<1>1. GatewayTypeOK /\ RequestInv(q) /\ s \in Sockets
  BY GatewayAssumption DEF Inv
<1>2. /\ request[q] # "answered" /\ request[q] # "idle"
      /\ request' = [request EXCEPT ![q] = "answered"]
      /\ UNCHANGED <<sessionVars, socketVars, emitted>>
      /\ owner[q] = {} /\ emitted[q] \in Nat /\ sequence[s] \in Nat
  BY <1>1, GatewayAssumption DEF Answer, AtPoint, RequestInv, GatewayTypeOK
<1>3. Response(q) \in Frame
  BY DEF Response, Frame
<1>4. CASE AnswerRun(q)
  <2> DEFINE n  == emitted[q]
             es == Numbered(q, s, held[q])
  <2>1. held[q] = [i \in 1 .. n |-> i] /\ Len(held[q]) = n /\ DOMAIN held[q] = 1 .. n
    BY <1>1, <1>2 DEF RequestInv
  <2>2. es = [i \in 1 .. n |-> Event(q, i, sequence[s] + i)]
    BY <2>1 DEF Numbered
  <2>3. \A i \in 1 .. n : Event(q, i, sequence[s] + i) \in Frame
    BY <1>2 DEF Event, Frame
  <2> HIDE DEF es
  <2>4. es \in Seq(Frame) /\ Len(es) = n /\ \A i \in 1 .. n : es[i] = Event(q, i, sequence[s] + i)
    BY <1>2, <2>2, <2>3
  <2>5. /\ owner' = [owner EXCEPT ![q] = {s}] /\ held' = [held EXCEPT ![q] = <<>>]
        /\ sequence' = [sequence EXCEPT ![s] = IF socket[s] = "open" THEN @ + n ELSE @]
        /\ sent' = Written(s, <<Response(q)>> \o es)
    BY <1>4, <2>1 DEF AnswerRun, es
  <2>6. GatewayTypeOK'
    <3>1. <<Response(q)>> \o es \in Seq(Frame)
      BY <1>3, <2>4
    <3>2. sent' \in [Sockets -> Seq(Frame)]
      BY <1>1, <2>5, <3>1, WrittenIsTyped
    <3>3. held' \in [Requests -> Seq(1 .. MaxEvents)] /\ owner' \in [Requests -> SUBSET Sockets]
      BY <1>1, <2>5 DEF GatewayTypeOK
    <3>4. sequence' \in [Sockets -> Nat]
      BY <1>1, <1>2, <2>5 DEF GatewayTypeOK
    <3> QED BY <1>1, <1>2, <3>2, <3>3, <3>4
        DEF GatewayTypeOK, SessionsTypeOK, sessionVars, socketVars, Points
  <2>7. AnswerStep(q, es, n)
    BY <1>1, <1>2, <2>5, <2>6 DEF AnswerStep, GatewayTypeOK
  <2> QED BY <1>2, <2>4, <2>7, AnswerStepKeepsInv
<1>5. CASE sent' = Written(s, <<Response(q)>>) /\ UNCHANGED <<owner, held, sequence>>
  <2> DEFINE es == <<>>
             n  == 0
  <2>1. /\ es \in Seq(Frame) /\ Len(es) = n /\ n \in Nat /\ <<Response(q)>> \in Seq(Frame)
        /\ <<Response(q)>> \o es = <<Response(q)>>
        /\ \A i \in 1 .. n : es[i] = Event(q, i, sequence[SocketOf[q]] + i)
    BY <1>3
  <2>2. n <= emitted[q] /\ sequence' = [sequence EXCEPT ![s] = IF socket[s] = "open" THEN @ + n ELSE @]
    BY <1>1, <1>2, <1>5 DEF GatewayTypeOK
  <2> HIDE DEF es, n
  <2>3. GatewayTypeOK'
    <3>1. sent' \in [Sockets -> Seq(Frame)]
      BY <1>1, <1>5, <2>1, WrittenIsTyped
    <3> QED BY <1>1, <1>2, <1>5, <3>1 DEF GatewayTypeOK, SessionsTypeOK, sessionVars, socketVars, Points
  <2>4. sent' = Written(s, <<Response(q)>> \o es) /\ owner' = owner /\ held' = held
    BY <1>5, <2>1
  <2>5. AnswerStep(q, es, n)
    BY <1>2, <2>2, <2>3, <2>4 DEF AnswerStep
  <2> QED BY <2>1, <2>5, AnswerStepKeepsInv
<1> QED BY <1>4, <1>5 DEF Answer

LEMMA NextKeepsInv == Inv /\ SessionsInv' /\ [Next]_vars => Inv'
<1> SUFFICES ASSUME Inv, SessionsInv', [Next]_vars PROVE Inv'
  OBVIOUS
<1> USE GatewayAssumption
<1>1. GatewayTypeOK /\ SessionsTypeOK' /\ \A q \in Requests : RequestInv(q)
  BY DEF Inv, SessionsInv, IndexInv
<1>2. CASE UNCHANGED vars
  BY <1>1, <1>2, QuietKeepsInv DEF vars, GatewayTypeOK, RequestInv
<1>3. ASSUME NEW s \in Sockets, Accept(s) \/ Connect(s) \/ BeginClose(s) \/ Close(s) PROVE Inv'
  <2>1. GatewayTypeOK'
    <3>1. CASE Accept(s) \/ Connect(s) \/ BeginClose(s)
      <4>1. /\ socket' \in [Sockets -> SocketStates]
            /\ connection' \in [Sockets -> {"connecting", "ready"}]
            /\ UNCHANGED <<request, stopping, eventVars>>
        <5>1. CASE Accept(s)
          BY <1>1, <5>1 DEF Accept, GatewayTypeOK, SocketStates
        <5>2. CASE Connect(s)
          BY <1>1, <5>2 DEF Connect, GatewayTypeOK
        <5>3. CASE BeginClose(s)
          BY <1>1, <5>3 DEF BeginClose, GatewayTypeOK, SocketStates
        <5> QED BY <3>1, <5>1, <5>2, <5>3
      <4> QED BY <1>1, <4>1 DEF GatewayTypeOK, eventVars
    <3>2. CASE Close(s)
      <4>1. owner' \in [Requests -> SUBSET Sockets] /\ socket' \in [Sockets -> SocketStates]
        BY <1>1, <3>2 DEF Close, GatewayTypeOK, SocketStates
      <4> QED BY <1>1, <3>2, <4>1 DEF GatewayTypeOK, Close
    <3> QED BY <1>3, <3>1, <3>2
  <2>2. /\ sent' = sent /\ emitted' = emitted /\ held' = held /\ sequence' = sequence /\ request' = request
        /\ \A q \in Requests : owner'[q] \subseteq owner[q]
        /\ \A t \in Sockets : /\ socket'[t] = "open" => socket[t] \in {"open", "new"}
                              /\ socket'[t] = "new" => socket[t] = "new"
    BY <1>1, <1>3 DEF Accept, Connect, BeginClose, Close, Receiving, eventVars, GatewayTypeOK
  <2> QED BY <1>1, <2>1, <2>2, QuietKeepsInv DEF RequestInv
<1>4. CASE Stop
  <2>1. GatewayTypeOK'
    BY <1>1, <1>4 DEF GatewayTypeOK, Stop, eventVars, SocketStates
  <2> QED BY <1>1, <1>4, <2>1, QuietKeepsInv DEF Stop, eventVars, RequestInv, GatewayTypeOK
<1>5. ASSUME NEW q \in Requests, Receive(q) \/ LookupReturns(q) \/ CreateRun(q) PROVE Inv'
  <2>1. /\ UNCHANGED <<socketVars, eventVars>>
        /\ request[q] \in Early /\ request[q] # "answered"
        /\ \E to \in Points \ {"idle", "answered"} :
             /\ request' = [request EXCEPT ![q] = to]
             /\ to \in Early => request[q] \in Early
        /\ request[q] = "idle" => socket[SocketOf[q]] # "new"
    BY <1>5 DEF Receive, LookupReturns, CreateRun, AtPoint, Points, Early, Receiving
  <2>2. GatewayTypeOK'
    BY <1>1, <2>1 DEF GatewayTypeOK, socketVars, eventVars
  <2> QED BY <1>1, <2>1, <2>2, QuietKeepsInv DEF RequestInv, socketVars, eventVars, GatewayTypeOK
<1>6. ASSUME NEW q \in Requests, AdmitReturns(q) \/ RunEmits(q) PROVE Inv'
  <2>1. EmitStep(q)
    <3>1. CASE AdmitReturns(q)
      BY <1>1, <3>1 DEF EmitStep, AdmitReturns, AtPoint, RequestInv, Early, GatewayTypeOK, Points
    <3>2. CASE RunEmits(q)
      BY <1>1, <3>2 DEF EmitStep, RunEmits, RequestInv, GatewayTypeOK
    <3> QED BY <1>6, <3>1, <3>2
  <2> QED BY <2>1, HeldEventKeepsInv, SentEventKeepsInv
<1>7. ASSUME NEW q \in Requests, Answer(q) PROVE Inv'
  BY <1>7, AnswerKeepsInv
<1> QED BY <1>2, <1>3, <1>4, <1>5, <1>6, <1>7 DEF Next, Dispatch

(* Every variable of the gateway and of the session index keeps its type,  *)
(* for any sockets, requests and number of events.                         *)
THEOREM GatewayTypesAreKept == Spec => []GatewayTypeOK
<1>1. Inv => GatewayTypeOK
  BY DEF Inv
<1> QED BY <1>1, InitInv, NextKeepsInv, InitSessions, NextSessions, PTL DEF Spec

(* What a client receives is in order on every connection: the answer of a *)
(* run before its events, these without a gap, and the events numbered one *)
(* by one (create-gateway.ts, the listener of the event bus and send()).   *)
THEOREM DeliveryInOrder == Spec => []DeliveryIsOrdered
<1>1. Inv => DeliveryIsOrdered
  BY DEF Inv, Ordered, DeliveryIsOrdered
<1> QED BY <1>1, InitInv, NextKeepsInv, InitSessions, NextSessions, PTL DEF Spec
=============================================================================
