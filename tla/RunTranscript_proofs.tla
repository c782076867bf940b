------------------------- MODULE RunTranscript_proofs -------------------------
(***************************************************************************)
(* The transcripts, for every number of runs and sessions, every page size *)
(* and limit, and every number of storage failures and crashes: the runs   *)
(* of a session do not interleave in it, the input of a run is appended    *)
(* once, a completed run has its output there, and an append is refused    *)
(* only when the session has outgrown its page.                            *)
(*                                                                         *)
(* Speaks says what the transcript holds of a run, by where its executor   *)
(* stands.  That nobody else appends while a run is in a turn follows from *)
(* Linked (its work is running) and the invariant of the lanes.            *)
(***************************************************************************)
EXTENDS RunOutcome_proofs

Ahead   == {"idle", "refused", "created", "admitted", "marked", "announced", "recorded"}
Turning == {"loop", "calling", "text", "tools", "cycleContinue"}
Reading == {"calling", "text", "tools"}
Ending  == {"awaiting", "finally", "over"}

Page(n) == IF n > PageLimit THEN PageLimit ELSE n

Unheard(r) == \A i \in 1..Len(transcript[KeyOf[r]]) : transcript[KeyOf[r]][i].run # r
SpokeLast(r) == LET t == transcript[KeyOf[r]] IN t # <<>> /\ t[Len(t)].run = r

Speaks(r) ==
  /\ pc[r] \in Ahead => ~inputDone[r] /\ Unheard(r)
  /\ pc[r] \in Turning => IF inputDone[r] THEN SpokeLast(r) ELSE Unheard(r)
  /\ pc[r] \in Reading => pageTail[r] = Page(Len(transcript[KeyOf[r]]))
  /\ pc[r] \in {"appended", "succeed"} => EndsWithOutput(r)
  /\ plan[r].status = "completed" => pc[r] \in Ending /\ EndsWithOutput(r)
  /\ row[r].status = "completed" => pc[r] \in Ending \cup {"gone"} /\ EndsWithOutput(r)

SpeaksOK == \A r \in Runs : Speaks(r)

TranscriptInv == OutcomeInv /\ SpeaksOK /\ TranscriptIsSerial

-----------------------------------------------------------------------------
(* A step that leaves the transcripts alone, and what Speaks reads of a    *)
(* run.                                                                    *)
LEMMA SpeaksStutter ==
  ASSUME NEW s \in Runs, Speaks(s), transcript' = transcript,
         pc'[s] = pc[s], inputDone'[s] = inputDone[s], pageTail'[s] = pageTail[s],
         plan'[s] = plan[s], row'[s] = row[s]
  PROVE  Speaks(s)'
BY DEF Speaks, Unheard, SpokeLast, EndsWithOutput, Page

LEMMA Init_Speaks == Init => SpeaksOK /\ TranscriptIsSerial
<1> SUFFICES ASSUME Init PROVE SpeaksOK /\ TranscriptIsSerial
  OBVIOUS
<1>1. \A k \in Keys : transcript[k] = <<>>
  BY DEF Init
<1>2. SpeaksOK
  BY <1>1, RunAssumption DEF Init, SpeaksOK, Speaks, Unheard, Ahead, Turning, Reading, NoPlan,
     NoRow, Row
<1>3. TranscriptIsSerial
  BY <1>1 DEF TranscriptIsSerial
<1> QED
  BY <1>2, <1>3

(* What an append adds to the session of its run: t becomes u. *)
Appended(r, kind, t, u) ==
  /\ Len(t) \in Nat
  /\ Len(u) = Len(t) + (IF inputDone[r] THEN 1 ELSE 2)
  /\ \A i \in 1..Len(t) : u[i] = t[i]
  /\ u[Len(u)] = Entry(r, kind)
  /\ ~inputDone[r] => u[Len(t) + 1] = Entry(r, "input")

LEMMA AppendedEntries ==
  ASSUME OwnTypeOK, NEW r \in Runs, NEW kind \in EntryKinds, AppendExchange(r, kind)
  PROVE  /\ Appended(r, kind, transcript[KeyOf[r]], transcript'[KeyOf[r]])
         /\ \A q \in Keys : q # KeyOf[r] => transcript'[q] = transcript[q]
<1> DEFINE E == [run : Runs, kind : EntryKinds]
           t == transcript[KeyOf[r]]
           u == transcript'[KeyOf[r]]
<1>1. KeyOf[r] \in Keys /\ t \in Seq(E)
  BY RunAssumption DEF OwnTypeOK, DurableTypeOK
<1>2. Entry(r, kind) \in E /\ Entry(r, "input") \in E
  BY DEF Entry, EntryKinds
<1>3. /\ u = t \o (IF inputDone[r] THEN <<Entry(r, kind)>>
                                   ELSE <<Entry(r, "input"), Entry(r, kind)>>)
      /\ \A q \in Keys : q # KeyOf[r] => transcript'[q] = transcript[q]
  BY <1>1 DEF AppendExchange, OwnTypeOK, DurableTypeOK
<1> HIDE DEF E, t, u
<1>4. Appended(r, kind, t, u)
  <2>1. CASE inputDone[r]
    <3>1. u = Append(t, Entry(r, kind))
      BY <1>1, <1>2, <1>3, <2>1
    <3> QED
      BY <1>1, <1>2, <2>1, <3>1 DEF Appended
  <2>2. CASE ~inputDone[r]
    <3>1. u = Append(Append(t, Entry(r, "input")), Entry(r, kind))
      BY <1>1, <1>2, <1>3, <2>2
    <3> QED
      BY <1>1, <1>2, <2>2, <3>1 DEF Appended
  <2> QED
    BY <2>1, <2>2
<1> QED
  BY <1>3, <1>4 DEF t, u

LEMMA AppendedLast ==
  ASSUME NEW r, NEW kind, NEW t, NEW u, Appended(r, kind, t, u)
  PROVE  Len(u) \in Nat /\ Len(u) > 0 /\ u[Len(u)] = Entry(r, kind)
BY DEF Appended

(* An executor in a turn and another that appends are of different         *)
(* sessions.                                                               *)
LEMMA TurnsAreSerial ==
  ASSUME OutcomeInv, NEW r \in Runs, NEW s \in Runs, pc[r] \in Turning, pc[s] \in Turning,
         KeyOf[r] = KeyOf[s]
  PROVE  r = s
<1>1. work[r] = "running" /\ work[s] = "running"
  BY DEF OutcomeInv, LinkedOK, Linked, InFlight, PCs, Outside, Turning
<1>2. KeyOf[r] \in Keys
  BY RunAssumption
<1>3. r \in LaneP!InDrain(KeyOf[r]) /\ s \in LaneP!InDrain(KeyOf[r])
  BY <1>1 DEF LaneP!InDrain
<1> QED
  BY <1>2, <1>3 DEF OutcomeInv, RunInv, LaneP!LaneInv, LaneP!OneDrainPerLane

(* What another run appends takes nothing from what is said of a run.      *)
LEMMA AppendOfAnother ==
  ASSUME OutcomeInv, SpeaksOK, NEW r \in Runs, NEW kind \in EntryKinds, pc[r] \in Turning,
         AppendExchange(r, kind), NEW s \in Runs, s # r,
         pc'[s] = pc[s], inputDone'[s] = inputDone[s], pageTail'[s] = pageTail[s],
         plan'[s] = plan[s], row'[s] = row[s]
  PROVE  Speaks(s)'
<1>1. Speaks(s) /\ OwnTypeOK
  BY DEF SpeaksOK, OutcomeInv, RunInv
<1>2. CASE KeyOf[s] # KeyOf[r]
  <2>1. transcript'[KeyOf[s]] = transcript[KeyOf[s]]
    BY <1>1, <1>2, AppendedEntries, RunAssumption
  <2> QED
    BY <1>1, <2>1 DEF Speaks, Unheard, SpokeLast, EndsWithOutput, Page
<1>3. CASE KeyOf[s] = KeyOf[r]
  <2> DEFINE t == transcript[KeyOf[s]]
             u == transcript'[KeyOf[s]]
  <2>1. Appended(r, kind, t, u)
    BY <1>1, <1>3, AppendedEntries
  <2>2. /\ Len(t) \in Nat /\ Len(u) \in Nat /\ Len(u) > Len(t)
        /\ \A i \in 1..Len(t) : u[i] = t[i]
        /\ \A i \in 1..Len(u) : i \notin 1..Len(t) => u[i].run = r
    <3> HIDE DEF t, u
    <3> QED
      BY <2>1 DEF Appended, Entry
  <2>3. pc[s] \notin Turning /\ pc[s] \notin Reading
    BY <1>3, TurnsAreSerial DEF Turning, Reading
  <2>4. Unheard(s) => Unheard(s)'
    BY <2>2 DEF Unheard
  <2>5. EndsWithOutput(s) => EndsWithOutput(s)'
    <3> SUFFICES ASSUME EndsWithOutput(s) PROVE EndsWithOutput(s)'
      OBVIOUS
    <3>1. PICK i \in 1..Len(t) : t[i] = Entry(s, "output") /\ \A j \in (i+1)..Len(t) : t[j].run # s
      BY DEF EndsWithOutput
    <3>2. i \in 1..Len(u) /\ u[i] = Entry(s, "output") /\ \A j \in (i+1)..Len(u) : u[j].run # s
      <4> HIDE DEF t, u
      <4> QED
        BY <2>2, <3>1
    <3> QED
      BY <3>2 DEF EndsWithOutput, Entry
  <2> QED
    BY <1>1, <2>3, <2>4, <2>5 DEF Speaks
<1> QED
  BY <1>2, <1>3

(* TranscriptIsSerial of one session. *)
Serial(t) ==
  /\ \A i, j \in 1..Len(t) : i < j /\ t[i].run = t[j].run =>
       /\ \A m \in i..j : t[m].run = t[i].run
       /\ t[j].kind # "input"
  /\ \A i \in 1..Len(t) : t[i].kind # "input" => i > 1 /\ t[i-1].run = t[i].run

(* A session stays serial when its last run goes on. *)
LEMMA SerialGoesOn ==
  ASSUME NEW t, NEW u, NEW r, Serial(t), Len(t) \in Nat, Len(u) = Len(t) + 1,
         \A i \in 1..Len(t) : u[i] = t[i],
         u[Len(u)].run = r, u[Len(u)].kind # "input", Len(t) > 0, t[Len(t)].run = r
  PROVE  Serial(u)
<1> DEFINE n == Len(t)
<1>1. ASSUME NEW i \in 1..Len(u), NEW j \in 1..Len(u), i < j, u[i].run = u[j].run
      PROVE  (\A m \in i..j : u[m].run = u[i].run) /\ u[j].kind # "input"
  <2>1. CASE j \in 1..n
    <3>1. t[i].run = t[j].run /\ i \in 1..n
      BY <1>1, <2>1
    <3>2. (\A m \in i..j : t[m].run = t[i].run) /\ t[j].kind # "input"
      BY <1>1, <2>1, <3>1 DEF Serial
    <3> QED
      BY <1>1, <2>1, <3>1, <3>2
  <2>2. CASE j = n + 1
    <3>1. i \in 1..n /\ t[i].run = r /\ n \in 1..n
      BY <1>1, <2>2
    <3>2. \A m \in i..n : t[m].run = r
      BY <3>1 DEF Serial
    <3> QED
      BY <1>1, <2>2, <3>1, <3>2
  <2> QED
    BY <1>1, <2>1, <2>2
<1>2. ASSUME NEW i \in 1..Len(u), u[i].kind # "input"
      PROVE  i > 1 /\ u[i-1].run = u[i].run
  <2>1. CASE i \in 1..n
    <3>1. i > 1 /\ t[i-1].run = t[i].run
      BY <1>2, <2>1 DEF Serial
    <3> QED
      BY <2>1, <3>1
  <2>2. CASE i = n + 1
    BY <2>2
  <2> QED
    BY <1>2, <2>1, <2>2
<1> QED
  BY <1>1, <1>2 DEF Serial

(* And when a run that is new to it begins with its input. *)
LEMMA SerialBegins ==
  ASSUME NEW t, NEW u, NEW r, Serial(t), Len(t) \in Nat, Len(u) = Len(t) + 1,
         \A i \in 1..Len(t) : u[i] = t[i],
         u[Len(u)].run = r, u[Len(u)].kind = "input", \A i \in 1..Len(t) : t[i].run # r
  PROVE  Serial(u)
<1> DEFINE n == Len(t)
<1>1. ASSUME NEW i \in 1..Len(u), NEW j \in 1..Len(u), i < j, u[i].run = u[j].run
      PROVE  (\A m \in i..j : u[m].run = u[i].run) /\ u[j].kind # "input"
  <2>1. i \in 1..n /\ j \in 1..n /\ t[i].run = t[j].run
    BY <1>1
  <2>2. (\A m \in i..j : t[m].run = t[i].run) /\ t[j].kind # "input"
    BY <1>1, <2>1 DEF Serial
  <2> QED
    BY <1>1, <2>1, <2>2
<1>2. ASSUME NEW i \in 1..Len(u), u[i].kind # "input"
      PROVE  i > 1 /\ u[i-1].run = u[i].run
  <2>1. i \in 1..n
    BY <1>2
  <2>2. i > 1 /\ t[i-1].run = t[i].run
    BY <1>2, <2>1 DEF Serial
  <2> QED
    BY <2>1, <2>2
<1> QED
  BY <1>1, <1>2 DEF Serial

(* An append keeps the runs apart: what the run said before ends the       *)
(* session, or it has said nothing.                                        *)
LEMMA AppendIsSerial ==
  ASSUME OutcomeInv, SpeaksOK, TranscriptIsSerial, NEW r \in Runs, NEW kind \in {"tools", "output"},
         pc[r] \in Turning, AppendExchange(r, kind)
  PROVE  TranscriptIsSerial'
<1>1. OwnTypeOK /\ kind \in EntryKinds
  BY DEF OutcomeInv, RunInv, EntryKinds
<1>2. IF inputDone[r] THEN SpokeLast(r) ELSE Unheard(r)
  BY DEF SpeaksOK, Speaks
<1>3. \A q \in Keys : Serial(transcript[q])
  BY DEF TranscriptIsSerial, Serial
<1>4. ASSUME NEW q \in Keys, q # KeyOf[r] PROVE Serial(transcript'[q])
  BY <1>1, <1>3, <1>4, AppendedEntries
<1>5. Serial(transcript'[KeyOf[r]])
  <2> DEFINE t == transcript[KeyOf[r]]
             x == Entry(r, kind)
             i == Entry(r, "input")
  <2>1. KeyOf[r] \in Keys /\ t \in Seq([run : Runs, kind : EntryKinds])
    BY <1>1, RunAssumption DEF OwnTypeOK, DurableTypeOK
  <2>2. /\ x \in [run : Runs, kind : EntryKinds] /\ x.run = r /\ x.kind # "input"
        /\ i \in [run : Runs, kind : EntryKinds] /\ i.run = r /\ i.kind = "input"
    BY <1>1 DEF Entry, EntryKinds
  <2>3. transcript'[KeyOf[r]] = t \o (IF inputDone[r] THEN <<x>> ELSE <<i, x>>)
    BY <1>1, <2>1 DEF AppendExchange, OwnTypeOK, DurableTypeOK
  <2>4. Serial(t)
    BY <1>3, <2>1
  <2>5. CASE inputDone[r]
    <3>1. t # <<>> /\ t[Len(t)].run = r
      BY <1>2, <2>5 DEF SpokeLast
    <3> HIDE DEF t, x, i
    <3>2. transcript'[KeyOf[r]] = Append(t, x)
      BY <2>1, <2>2, <2>3, <2>5
    <3>3. Len(t) \in Nat /\ Len(t) > 0
      BY <2>1, <3>1
    <3>4. /\ Len(Append(t, x)) = Len(t) + 1 /\ Append(t, x)[Len(t) + 1] = x
          /\ \A m \in 1..Len(t) : Append(t, x)[m] = t[m]
      BY <2>1, <2>2
    <3>5. Serial(Append(t, x))
      BY <2>2, <2>4, <3>1, <3>3, <3>4, SerialGoesOn
    <3> QED
      BY <3>2, <3>5
  <2>6. CASE ~inputDone[r]
    <3>1. \A m \in 1..Len(t) : t[m].run # r
      BY <1>2, <2>6 DEF Unheard
    <3> HIDE DEF t, x, i
    <3> DEFINE s == Append(t, i)
    <3>2. transcript'[KeyOf[r]] = Append(s, x)
      BY <2>1, <2>2, <2>3, <2>6
    <3>3. /\ s \in Seq([run : Runs, kind : EntryKinds])
          /\ Len(t) \in Nat /\ Len(s) = Len(t) + 1 /\ s[Len(s)] = i
          /\ \A m \in 1..Len(t) : s[m] = t[m]
      BY <2>1, <2>2
    <3> HIDE DEF s
    <3>4. Serial(s)
      BY <2>2, <2>4, <3>1, <3>3, SerialBegins
    <3>5. /\ Len(Append(s, x)) = Len(s) + 1 /\ Append(s, x)[Len(s) + 1] = x
          /\ \A m \in 1..Len(s) : Append(s, x)[m] = s[m]
      BY <2>2, <3>3
    <3>6. Len(s) \in Nat /\ Len(s) > 0
      BY <3>3
    <3>7. Serial(Append(s, x))
      BY <2>2, <3>3, <3>4, <3>5, <3>6, SerialGoesOn
    <3> QED
      BY <3>2, <3>7
  <2> QED
    BY <2>5, <2>6
<1> QED
  BY <1>4, <1>5 DEF TranscriptIsSerial, Serial

-----------------------------------------------------------------------------
(* A successful append: the final exchange or a tool cycle. *)
LEMMA Append_Speaks ==
  ASSUME TranscriptInv, NEW r \in Runs, NEW kind \in {"tools", "output"},
         AppendExchange(r, kind),
         \/ /\ kind = "output" /\ pc[r] = "text" /\ pc'[r] = "appended"
         \/ /\ kind = "tools" /\ pc[r] = "tools"
            /\ pc'[r] \in {"cycleContinue", "cycleCancel", "cycleFail"},
         inputDone' = [inputDone EXCEPT ![r] = TRUE], pc' = [pc EXCEPT ![r] = pc'[r]],
         UNCHANGED <<plan, row, pageTail>>
  PROVE  SpeaksOK' /\ TranscriptIsSerial'
<1> USE DEF TranscriptInv
<1>1. OwnTypeOK /\ kind \in EntryKinds /\ pc[r] \in Turning
  BY DEF OutcomeInv, RunInv, EntryKinds, Turning
<1>2. \A s \in Runs : s # r => Speaks(s)'
  <2>1. \A s \in Runs : s # r => pc'[s] = pc[s] /\ inputDone'[s] = inputDone[s]
    BY <1>1 DEF OwnTypeOK, ExecutorTypeOK
  <2> QED
    BY <1>1, <2>1, AppendOfAnother
<1>3. Speaks(r)'
  <2> DEFINE u == transcript'[KeyOf[r]]
  <2>1. Appended(r, kind, transcript[KeyOf[r]], u)
    BY <1>1, AppendedEntries
  <2>2. Len(u) \in Nat /\ Len(u) > 0 /\ u[Len(u)] = Entry(r, kind)
    BY <2>1, AppendedLast
  <2>3. SpokeLast(r)'
    BY <2>2 DEF SpokeLast, Entry
  <2>4. kind = "output" => EndsWithOutput(r)'
    <3> SUFFICES ASSUME kind = "output" PROVE EndsWithOutput(r)'
      OBVIOUS
    <3>1. Len(u) \in 1..Len(u) /\ u[Len(u)] = Entry(r, "output")
      BY <2>2
    <3>2. \A j \in (Len(u) + 1)..Len(u) : u[j].run # r
      BY <2>2
    <3> QED
      BY <3>1, <3>2 DEF EndsWithOutput, Entry
  <2>5. inputDone'[r] /\ plan'[r].status # "completed" /\ row'[r].status # "completed"
    BY <1>1 DEF SpeaksOK, Speaks, Ending, OwnTypeOK, ExecutorTypeOK
  <2> QED
    BY <2>3, <2>4, <2>5 DEF Speaks, Ahead, Turning, Reading
<1>4. TranscriptIsSerial'
  BY <1>1, AppendIsSerial
<1> QED
  BY <1>2, <1>3, <1>4 DEF SpeaksOK

(* A transcript that is not written stays serial. *)
LEMMA SerialStutter ==
  ASSUME TranscriptIsSerial, transcript' = transcript
  PROVE  TranscriptIsSerial'
BY DEF TranscriptIsSerial

(* A step of one run that writes no transcript and keeps what Speaks says  *)
(* of that run.                                                            *)
LEMMA SpeaksFrame ==
  ASSUME SpeaksOK, NEW r \in Runs, transcript' = transcript, Speaks(r)',
         \A s \in Runs : s # r => /\ pc'[s] = pc[s] /\ inputDone'[s] = inputDone[s]
                                  /\ pageTail'[s] = pageTail[s] /\ plan'[s] = plan[s]
                                  /\ row'[s] = row[s]
  PROVE  SpeaksOK'
BY SpeaksStutter DEF SpeaksOK

(* A run that has not completed, and has no plan to, says no more than     *)
(* what it has appended.                                                   *)
LEMMA SpeaksByPlace ==
  ASSUME NEW r \in Runs, transcript' = transcript, Speaks(r), inputDone'[r] = inputDone[r],
         pageTail'[r] = pageTail[r] \/ pc'[r] \notin Reading,
         plan'[r].status = "completed" => plan[r].status = "completed" /\ pc'[r] \in Ending,
         row'[r].status = "completed" => row[r].status = "completed" /\ pc'[r] \in Ending,
         pc'[r] \in Ahead => pc[r] \in Ahead,
         pc'[r] \in Turning => pc[r] \in Turning \cup Ahead,
         pc'[r] \in Reading => pc[r] \in Reading,
         pc'[r] \in {"appended", "succeed"} => pc[r] \in {"appended", "succeed"}
  PROVE  Speaks(r)'
<1>1. /\ Unheard(r)' <=> Unheard(r)
      /\ SpokeLast(r)' <=> SpokeLast(r)
      /\ EndsWithOutput(r)' <=> EndsWithOutput(r)
  BY DEF Unheard, SpokeLast, EndsWithOutput
<1> QED
  BY <1>1 DEF Speaks

(* The steps before the first turn. *)
LEMMA Start_Speaks ==
  ASSUME TranscriptInv, NEW r \in Runs,
         \/ Admit(r) \/ EnqueueRun(r) \/ MarkRunning(r) \/ AnnounceAttempt(r)
         \/ CreateAttempt(r) \/ JournalAccepted(r)
  PROVE  SpeaksOK' /\ TranscriptIsSerial'
<1> USE DEF TranscriptInv, OutcomeInv, RunInv, OwnTypeOK, ExecutorTypeOK, DurableTypeOK
<1>1. /\ pc[r] \in Ahead
      /\ pc'[r] \in {"refused", "created", "admitted", "marked", "announced", "recorded",
                     "loop", "catch"}
      /\ pc' = [pc EXCEPT ![r] = pc'[r]]
      /\ UNCHANGED <<transcript, inputDone, pageTail, plan>>
  BY DEF Admit, EnqueueRun, MarkRunning, AnnounceAttempt, CreateAttempt, JournalAccepted, Goto,
     rows, turnVars, endVars, Ahead
<1>2. /\ row'[r].status = "completed" => row'[r] = row[r]
      /\ \A s \in Runs : s # r => row'[s] = row[s]
  BY DEF Admit, EnqueueRun, MarkRunning, AnnounceAttempt, CreateAttempt, JournalAccepted, rows,
     Row
<1>3. plan[r].status # "completed" /\ row[r].status # "completed"
  BY <1>1 DEF SpeaksOK, Speaks, Ahead, Ending
<1>4. Speaks(r)'
  BY <1>1, <1>2, <1>3, SpeaksByPlace DEF SpeaksOK, Ahead, Turning, Reading
<1>5. SpeaksOK'
  BY <1>1, <1>2, <1>4, SpeaksFrame
<1> QED
  BY <1>1, <1>5, SerialStutter

(* A turn begins with the page that ends the session, or at PageLimit. *)
LEMMA BeginTurn_Speaks ==
  ASSUME TranscriptInv, NEW r \in Runs, BeginTurn(r)
  PROVE  SpeaksOK' /\ TranscriptIsSerial'
<1> USE DEF TranscriptInv, OutcomeInv, RunInv, OwnTypeOK, ExecutorTypeOK
<1>1. /\ pc[r] = "loop" /\ pc'[r] \in {"calling", "catch", "finally"}
      /\ pc'[r] = "calling" => pageTail'[r] = Page(Len(transcript[KeyOf[r]]))
      /\ UNCHANGED <<transcript, inputDone, plan, row>>
      /\ \A s \in Runs : s # r => pc'[s] = pc[s] /\ pageTail'[s] = pageTail[s]
  BY DEF BeginTurn, Goto, rows, endVars, Page
<1>2. /\ Unheard(r)' <=> Unheard(r)
      /\ SpokeLast(r)' <=> SpokeLast(r)
  BY <1>1 DEF Unheard, SpokeLast
<1>3. Speaks(r)'
  BY <1>1, <1>2 DEF SpeaksOK, Speaks, Ahead, Turning, Reading, Ending, Page
<1>4. SpeaksOK'
  BY <1>1, <1>3, SpeaksFrame
<1> QED
  BY <1>1, <1>4, SerialStutter

(* The steps of a turn that read and write nothing of the transcript, and  *)
(* those of an executor that is leaving.                                   *)
LEMMA Quiet_Speaks ==
  ASSUME TranscriptInv, NEW r \in Runs,
         \/ DrainLane(r) \/ PermitGranted(r) \/ CancelReturns(r)
         \/ CallReturns(r) \/ CallTimesOut(r) \/ CompleteAttempt(r) \/ EndCycle(r)
         \/ AwaitFinalization(r) \/ Finish(r)
  PROVE  SpeaksOK' /\ TranscriptIsSerial'
<1> USE DEF TranscriptInv, OutcomeInv, RunInv, OwnTypeOK, ExecutorTypeOK
<1>1. /\ UNCHANGED <<transcript, inputDone, pageTail, plan, row>>
      /\ pc' = pc \/ pc' = [pc EXCEPT ![r] = pc'[r]]
  BY DEF DrainLane, PermitGranted, CancelReturns, CallReturns, CallTimesOut, CompleteAttempt,
     EndCycle, AwaitFinalization, Finish, Goto, rows, turnVars, endVars
<1>2. CASE pc' = pc
  <2>1. SpeaksOK'
    BY <1>1, <1>2, SpeaksStutter DEF SpeaksOK
  <2> QED
    BY <1>1, <2>1, SerialStutter
<1>3. CASE pc' # pc
  <2>1. \/ pc[r] = "calling" /\ pc'[r] \in {"text", "tools", "catch", "catchTimeout"}
        \/ pc[r] = "appended" /\ pc'[r] = "succeed"
        \/ pc[r] = "cycleContinue" /\ pc'[r] = "loop"
        \/ pc[r] = "cycleCancel" /\ pc'[r] = "cancelled"
        \/ pc[r] = "cycleFail" /\ pc'[r] = "exhausted"
        \/ pc[r] = "awaiting" /\ pc'[r] = "finally"
        \/ pc[r] = "finally" /\ pc'[r] = "over"
    BY <1>3 DEF DrainLane, PermitGranted, CancelReturns, CallReturns, CallTimesOut,
       CompleteAttempt, EndCycle, AwaitFinalization, Finish, Goto
  <2>2. /\ plan[r].status = "completed" => pc'[r] \in Ending
        /\ row[r].status = "completed" => pc'[r] \in Ending
    BY <2>1 DEF SpeaksOK, Speaks, Ending
  <2>3. Speaks(r)'
    BY <1>1, <2>1, <2>2, SpeaksByPlace DEF SpeaksOK, Ahead, Turning, Reading
  <2>4. SpeaksOK'
    BY <1>1, <2>3, SpeaksFrame
  <2> QED
    BY <1>1, <2>4, SerialStutter
<1> QED
  BY <1>2, <1>3

(* The final exchange and the tool cycle: appended, or the executor goes   *)
(* to its catch block.                                                     *)
LEMMA Exchange_Speaks ==
  ASSUME TranscriptInv, NEW r \in Runs, AppendText(r) \/ ToolsReturn(r)
  PROVE  SpeaksOK' /\ TranscriptIsSerial'
<1> USE DEF TranscriptInv, OutcomeInv, RunInv, OwnTypeOK, ExecutorTypeOK
<1>1. /\ pc[r] \in {"text", "tools"} /\ UNCHANGED <<plan, row, pageTail>>
      /\ pc' = [pc EXCEPT ![r] = pc'[r]]
      /\ \A s \in Runs : s # r => inputDone'[s] = inputDone[s]
  BY DEF AppendText, ToolsReturn, AppendFails, Goto, CycleDecision, endVars
<1>2. CASE pc'[r] = "catch"
  <2>1. transcript' = transcript
    BY <1>1, <1>2 DEF AppendText, ToolsReturn, AppendFails, Goto, CycleDecision
  <2>2. Speaks(r)'
    BY <1>1, <1>2 DEF SpeaksOK, Speaks, Ahead, Turning, Reading, Ending
  <2>3. SpeaksOK'
    BY <1>1, <2>1, <2>2, SpeaksFrame
  <2> QED
    BY <2>1, <2>3, SerialStutter
<1>3. CASE pc'[r] # "catch"
  <2>1. CASE AppendText(r)
    <3>1. /\ AppendExchange(r, "output") /\ pc[r] = "text" /\ pc'[r] = "appended"
          /\ inputDone' = [inputDone EXCEPT ![r] = TRUE]
      BY <1>3, <2>1 DEF AppendText, AppendFails, Goto
    <3> QED
      BY <1>1, <3>1, Append_Speaks
  <2>2. CASE ToolsReturn(r)
    <3>1. /\ AppendExchange(r, "tools") /\ pc[r] = "tools"
          /\ pc'[r] \in {"cycleContinue", "cycleCancel", "cycleFail"}
          /\ inputDone' = [inputDone EXCEPT ![r] = TRUE]
      BY <1>3, <2>2 DEF ToolsReturn, AppendFails, Goto, CycleDecision
    <3> QED
      BY <1>1, <3>1, Append_Speaks
  <2> QED
    BY <2>1, <2>2
<1> QED
  BY <1>2, <1>3

(* The plan to complete a run comes from the final exchange only. *)
LEMMA Decide_Speaks ==
  ASSUME TranscriptInv, NEW r \in Runs, SignalCheckpoint(r) \/ Cancel(r)
  PROVE  SpeaksOK' /\ TranscriptIsSerial'
<1> USE DEF TranscriptInv, OutcomeInv, RunInv, OwnTypeOK, ExecutorTypeOK, OutcomeTypeOK
<1>1. UNCHANGED <<transcript, inputDone, pageTail, row>>
  BY DEF SignalCheckpoint, Cancel, rows, turnVars
<1>2. \A s \in Runs : s # r => pc'[s] = pc[s] /\ plan'[s] = plan[s]
  BY DEF SignalCheckpoint, Cancel, Decide, Goto, endVars
<1>3. EndsWithOutput(r)' <=> EndsWithOutput(r)
  BY <1>1 DEF EndsWithOutput
<1>4. CASE Cancel(r)
  <2>1. pc' = pc
    BY <1>4 DEF Cancel
  <2>2. plan'[r] = plan[r] \/ plan'[r].status # "completed"
    BY <1>4 DEF Cancel, Decide, Decided, endVars
  <2>3. Speaks(r)'
    BY <1>1, <2>1, <2>2 DEF SpeaksOK, Speaks, Unheard, SpokeLast, EndsWithOutput, Page
  <2> QED
    BY <1>1, <1>2, <2>3, SpeaksFrame, SerialStutter
<1>5. CASE SignalCheckpoint(r)
  <2>1. /\ pc[r] \in {"succeed", "cancelled", "exhausted", "catch", "catchTimeout"}
        /\ pc'[r] \in {"finally", "awaiting"}
    BY <1>5 DEF SignalCheckpoint, Goto
  <2>2. Signal(r).kind \in {"success", "cancel", "failure"}
    BY <2>1, SignalType
  <2>3. Signal(r).kind = "success" => pc[r] = "succeed"
    BY <2>1 DEF Signal
  <2>4. plan'[r].status = "completed" => plan'[r] = plan[r] \/ pc[r] = "succeed"
    BY <1>5, <2>2, <2>3 DEF SignalCheckpoint, Decide, Decided, endVars
  <2>5. plan[r].status # "completed" /\ row[r].status # "completed"
    BY <2>1 DEF SpeaksOK, Speaks, Ending
  <2>6. plan'[r].status = "completed" => EndsWithOutput(r)
    BY <2>4, <2>5 DEF SpeaksOK, Speaks
  <2>7. Speaks(r)'
    BY <1>1, <1>3, <2>1, <2>5, <2>6 DEF Speaks, Ahead, Turning, Reading, Ending
  <2> QED
    BY <1>1, <1>2, <2>7, SpeaksFrame, SerialStutter
<1> QED
  BY <1>4, <1>5

(* A row becomes completed by a plan to complete it. *)
LEMMA Conclude_Speaks ==
  ASSUME TranscriptInv, NEW r \in Runs, Conclude(r)
  PROVE  SpeaksOK' /\ TranscriptIsSerial'
<1> USE DEF TranscriptInv, OutcomeInv, RunInv, OwnTypeOK, OutcomeTypeOK, DurableTypeOK
<1>1. UNCHANGED <<pc, transcript, inputDone, pageTail>>
  BY ConcludeFrame
<1>2. \A s \in Runs : s # r => plan'[s] = plan[s] /\ row'[s] = row[s]
  BY DEF Conclude, StartFinalize, Commit, CommitOutcome, JournalOutcome, PublishOutcome, rows
<1>3. /\ plan'[r].status \in {plan[r].status, "failed"}
      /\ row'[r].status \in {row[r].status, plan[r].status}
  <2>1. /\ \/ plan' = plan
           \/ plan' = [plan EXCEPT ![r].withAttempt = attemptSet[r]]
           \/ plan' = [plan EXCEPT ![r] = FailSafe(plan[r])]
        /\ \/ row' = row
           \/ row' = [row EXCEPT ![r] = Row(plan[r].status, plan[r].code)]
    BY DEF Conclude, StartFinalize, Commit, CommitOutcome, JournalOutcome, PublishOutcome, rows
  <2>2. plan \in [Runs -> Plans] /\ row \in [Runs -> [status : RunStatus \cup {"absent"}, code : Codes]]
    BY DEF OutcomeTypeOK, DurableTypeOK
  <2>3. plan'[r].status \in {plan[r].status, "failed"}
    <3>1. CASE plan' = plan
      BY <3>1
    <3>2. CASE plan' = [plan EXCEPT ![r].withAttempt = attemptSet[r]]
      BY <2>2, <3>2 DEF Plans
    <3>3. CASE plan' = [plan EXCEPT ![r] = FailSafe(plan[r])]
      BY <2>2, <3>3 DEF FailSafe
    <3> QED
      BY <2>1, <3>1, <3>2, <3>3
  <2>4. row'[r].status \in {row[r].status, plan[r].status}
    BY <2>1, <2>2 DEF Row
  <2> QED
    BY <2>3, <2>4
<1>4. Speaks(r)'
  <2>1. Speaks(r)
    BY DEF SpeaksOK
  <2>2. (Unheard(r)' <=> Unheard(r)) /\ (SpokeLast(r)' <=> SpokeLast(r))
    BY <1>1 DEF Unheard, SpokeLast
  <2>3. EndsWithOutput(r)' <=> EndsWithOutput(r)
    BY <1>1 DEF EndsWithOutput
  <2>4. Page(Len(transcript'[KeyOf[r]])) = Page(Len(transcript[KeyOf[r]]))
    BY <1>1
  <2> QED
    BY <1>1, <1>3, <2>1, <2>2, <2>3, <2>4 DEF Speaks, Page, Ending
<1> QED
  BY <1>1, <1>2, <1>4, SpeaksFrame, SerialStutter

(* The transcripts outlive the process. *)
LEMMA Process_Speaks ==
  ASSUME TranscriptInv, Crash \/ Restart \/ StartAccepting \/ \E r \in Runs : ReconcileRun(r)
  PROVE  SpeaksOK' /\ TranscriptIsSerial'
<1> USE DEF TranscriptInv, OutcomeInv, RunInv, OwnTypeOK, DurableTypeOK
<1>1. transcript' = transcript
  BY DEF Crash, Restart, StartAccepting, ReconcileRun, rows
<1>2. CASE Crash
  <2>1. ASSUME NEW s \in Runs PROVE Speaks(s)'
    <3>1. /\ pc'[s] \in {"idle", "refused"} => pc[s] = pc'[s]
          /\ pc'[s] \notin {"idle", "refused"} => pc'[s] = "gone"
          /\ ~inputDone'[s] /\ plan'[s].status = "none" /\ row'[s] = row[s]
      BY <1>2 DEF Crash, NoPlan, rows
    <3>2. Unheard(s)' <=> Unheard(s)
      BY <1>1 DEF Unheard
    <3>3. EndsWithOutput(s)' <=> EndsWithOutput(s)
      BY <1>1 DEF EndsWithOutput
    <3>4. Speaks(s)
      BY DEF SpeaksOK
    <3> QED
      BY <3>1, <3>2, <3>3, <3>4 DEF Speaks, Ahead, Turning, Reading, Ending
  <2> QED
    BY <1>1, <2>1, SerialStutter DEF SpeaksOK
<1>3. CASE Restart \/ StartAccepting
  <2>1. /\ UNCHANGED <<row, inputDone, pageTail, plan>> /\ up # "up"
        /\ \A s \in Runs : pc'[s] = pc[s] \/ (Open(s) /\ pc'[s] = "listed")
    BY <1>3 DEF Restart, StartAccepting, rows, turnVars, endVars, ExecutorTypeOK
  <2>2. ASSUME NEW s \in Runs, Open(s), pc'[s] = "listed" PROVE Speaks(s)'
    <3>1. pc[s] \in Outside
      BY <2>1 DEF LinkedOK, Linked
    <3>2. row[s].status # "completed" /\ plan[s].status # "completed"
      BY <2>2, <3>1 DEF SpeaksOK, Speaks, Open, Outside, Ending
    <3> QED
      BY <2>1, <2>2, <3>2 DEF Speaks, Ahead, Turning, Reading
  <2>3. SpeaksOK'
    BY <1>1, <2>1, <2>2, SpeaksStutter DEF SpeaksOK
  <2> QED
    BY <1>1, <2>3, SerialStutter
<1>4. ASSUME NEW r \in Runs, ReconcileRun(r) PROVE SpeaksOK' /\ TranscriptIsSerial'
  <2>1. /\ UNCHANGED <<inputDone, pageTail, plan>>
        /\ pc[r] = "listed" /\ pc'[r] \in {"listed", "gone"}
        /\ row'[r] = row[r] \/ row'[r].status = "failed"
        /\ \A s \in Runs : s # r => row'[s] = row[s] /\ pc'[s] = pc[s]
    BY <1>4 DEF ReconcileRun, Goto, ExecutorTypeOK, turnVars, endVars, Row
  <2>2. Speaks(r)'
    <3>1. row[r].status # "completed" /\ plan[r].status # "completed"
      BY <2>1 DEF SpeaksOK, Speaks, Ending
    <3> QED
      BY <2>1, <3>1 DEF Speaks, Ahead, Turning, Reading
  <2> QED
    BY <1>1, <2>1, <2>2, SpeaksFrame, SerialStutter
<1> QED
  BY <1>2, <1>3, <1>4

-----------------------------------------------------------------------------
(* The invariant is inductive. *)
LEMMA TranscriptInv_Next == TranscriptInv /\ [Next]_vars => TranscriptInv'
<1> SUFFICES ASSUME TranscriptInv, [Next]_vars PROVE TranscriptInv'
  OBVIOUS
<1>1. OutcomeInv'
  BY OutcomeInv_Next DEF TranscriptInv
<1>2. CASE Next
  <2>1. ASSUME NEW r \in Runs, Execute(r) \/ CallReturns(r)
        PROVE  SpeaksOK' /\ TranscriptIsSerial'
    BY <2>1, Start_Speaks, BeginTurn_Speaks, Quiet_Speaks, Exchange_Speaks, Decide_Speaks
       DEF Execute
  <2>2. ASSUME NEW r \in Runs, \/ Admit(r) \/ DrainLane(r) \/ PermitGranted(r) \/ Cancel(r)
                               \/ CancelReturns(r) \/ Conclude(r)
        PROVE  SpeaksOK' /\ TranscriptIsSerial'
    BY <2>2, Start_Speaks, Quiet_Speaks, Decide_Speaks, Conclude_Speaks
  <2> QED
    BY <1>1, <1>2, <2>1, <2>2, Process_Speaks DEF Next, Progress, Recover, TranscriptInv
<1>3. CASE UNCHANGED vars
  <2> USE <1>3 DEF vars, rows, turnVars, endVars, TranscriptInv
  <2>1. SpeaksOK'
    BY SpeaksStutter DEF SpeaksOK
  <2> QED
    BY <1>1, <2>1, SerialStutter
<1> QED
  BY <1>2, <1>3

(* And hence holds throughout. *)
LEMMA TranscriptInvariant == Spec => []TranscriptInv
<1>1. Init => TranscriptInv
  BY OutcomeInv_Init, Init_Speaks DEF TranscriptInv
<1> QED
  BY <1>1, TranscriptInv_Next, PTL DEF Spec

(* The runs of a session do not interleave in its transcript, and the      *)
(* input of each is there once, before the rest of it.                     *)
THEOREM TranscriptsAreSerial == Spec => []TranscriptIsSerial
<1>1. TranscriptInv => TranscriptIsSerial
  BY DEF TranscriptInv
<1> QED
  BY <1>1, TranscriptInvariant, PTL

(* The last thing a completed run has appended is its output. *)
THEOREM CompletedRunsHaveOutput == Spec => []CompletedHasOutput
<1>1. TranscriptInv => CompletedHasOutput
  BY DEF TranscriptInv, SpeaksOK, Speaks, CompletedHasOutput
<1> QED
  BY <1>1, TranscriptInvariant, PTL

(* As long as no session outgrows its page, the tail an executor appends   *)
(* at is the end of the transcript: no append is refused as stale.  (When  *)
(* one does, every append of it is: the run RunLifecyclePage.)             *)
THEOREM TailsAreFresh ==
  Spec => []((\A k \in Keys : Len(transcript[k]) <= PageLimit) => TailIsStaleOnlyIfMoved)
<1>1. ASSUME TranscriptInv, \A k \in Keys : Len(transcript[k]) <= PageLimit
      PROVE  TailIsStaleOnlyIfMoved
  <2>1. ASSUME NEW r \in Runs, pc[r] \in Reading
        PROVE  pageTail[r] = Len(transcript[KeyOf[r]])
    <3>1. pageTail[r] = Page(Len(transcript[KeyOf[r]]))
      BY <1>1, <2>1 DEF TranscriptInv, SpeaksOK, Speaks
    <3>2. Len(transcript[KeyOf[r]]) <= PageLimit /\ Len(transcript[KeyOf[r]]) \in Nat
      BY <1>1, RunAssumption DEF TranscriptInv, OutcomeInv, RunInv, OwnTypeOK, DurableTypeOK
    <3> QED
      BY <3>1, <3>2, RunAssumption DEF Page
  <2> QED
    BY <2>1 DEF TailIsStaleOnlyIfMoved, Reading
<1>2. TranscriptInv =>
        ((\A k \in Keys : Len(transcript[k]) <= PageLimit) => TailIsStaleOnlyIfMoved)
  BY <1>1
<1> QED
  BY <1>2, TranscriptInvariant, PTL
=============================================================================
