------------------------------ MODULE Sessions ------------------------------
(* The session index (sessions/session-resolver.ts) over its table         *)
(* (sessions/sqlite-session-store.ts): concurrent requests look a key up,  *)
(* and create the session in a later segment when it was not there.        *)
CONSTANTS
  Requests,  \* the requests that name a session
  Keys,
  KeyOf      \* the session key of each request

ASSUME SessionsAssumption == KeyOf \in [Requests -> Keys]

VARIABLES
  session,   \* the row of each key: the request that created it, or "none"
  looked,    \* what getByKey returned to a request: a set of at most one row
  resolved   \* what resolve() or create() returned or threw: STORAGE_CONFLICT
             \* ("conflict") or another storage error; "none" before that

sessionVars == <<session, looked, resolved>>

Failures == {"conflict", "error"}

ASSUME NoRequestIsAWord == (Failures \cup {"none"}) \cap Requests = {}

SessionsTypeOK ==
  /\ session \in [Keys -> Requests \cup {"none"}]
  /\ looked \in [Requests -> SUBSET Requests]
  /\ resolved \in [Requests -> Requests \cup Failures \cup {"none"}]

SessionsInit ==
  /\ session = [k \in Keys |-> "none"]
  /\ looked = [q \in Requests |-> {}]
  /\ resolved = [q \in Requests |-> "none"]

(* getByKey is called: the row is read in this segment, or storage fails.  *)
LookUp(q) ==
  /\ looked' = [looked EXCEPT ![q] = {session[KeyOf[q]]} \ {"none"}]
  /\ UNCHANGED <<session, resolved>>

LookUpFails(q) ==
  /\ resolved' = [resolved EXCEPT ![q] = "error"]
  /\ UNCHANGED <<session, looked>>

(* Defect: the row is replaced, as in-memory stores do.                    *)
CreateOver(q) ==
  /\ session' = [session EXCEPT ![KeyOf[q]] = q]
  /\ resolved' = [resolved EXCEPT ![q] = q]
  /\ UNCHANGED looked

(* The key is the primary key of the table; the insert may fail otherwise. *)
Create(q) ==
  /\ \/ /\ session[KeyOf[q]] = "none"
        /\ session' = [session EXCEPT ![KeyOf[q]] = q]
        /\ resolved' = [resolved EXCEPT ![q] = q]
     \/ /\ session[KeyOf[q]] # "none"
        /\ resolved' = [resolved EXCEPT ![q] = "conflict"]
        /\ UNCHANGED session
     \/ /\ resolved' = [resolved EXCEPT ![q] = "error"]
        /\ UNCHANGED session
  /\ UNCHANGED looked

(* resolve() goes on with what was read.                                   *)
ResolveLooked(q) ==
  IF looked[q] = {}
    THEN Create(q)
    ELSE /\ \E id \in looked[q] : resolved' = [resolved EXCEPT ![q] = id]
         /\ UNCHANGED <<session, looked>>

-----------------------------------------------------------------------------
(* Whoever got a session for a key got the one session the key is mapped   *)
(* to.  A request that met a conflict lost to another one, whose session   *)
(* the key has; a request that failed has not left a session of its own.   *)
(* That such a request fails at all is against ADR 0003 (see               *)
(* ResolveIsAtomic of Gateway).                                            *)
ResolveAgrees ==
  \A q \in Requests :
    /\ resolved[q] \in Requests => resolved[q] = session[KeyOf[q]]
    /\ resolved[q] = "conflict" => session[KeyOf[q]] \in Requests \ {q}
    /\ resolved[q] = "error" => session[KeyOf[q]] # q
=============================================================================
