------------------------- MODULE SpineFaultsProofs -------------------------
(***************************************************************************)
(* Power cuts and edited rows, for any number of processes, requests,      *)
(* notes and faults.  While no edited row is in the database, every        *)
(* database a power cut may bring back is Clean; while one is, it stays    *)
(* wrong under its stored hash, whatever is appended behind it.            *)
(***************************************************************************)
EXTENDS SpineFaults, SpineAdmissionProofs

\* A row at or before n whose hash is not that of what it says ...
Broken(d, n) ==
  \E i \in DOMAIN d.log :
    /\ i <= n
    /\ d.log[i].hash # Digest(d.log[i].prev, d.log[i].id, d.log[i].about)

\* ... and every run after n has found out.
Noticed(d, n) ==
  \A j \in DOMAIN d.log : j > n /\ d.log[j].kind = "RESULT_VERIFIED" =>
    /\ \E m \in d.messages : m.key = d.log[j].about
    /\ \A m \in d.messages : m.key = d.log[j].about => m.integration = "FAILED"

Marked(d, n) == Broken(d, n) /\ Noticed(d, n)

\* A run works on a task whose message is there already.
RunHasMessage(p) ==
  pc[p] \in {"run", "verify"} => \E m \in tx.messages : m.key = job[p].request.key

\* The inductive invariant.
FaultInv ==
  /\ FaultTypeOK
  /\ SpineInv
  /\ \A p \in Processes : RunHasMessage(p)
  /\ alteredAt = 0 => ChainInv /\ AdmissionInv /\ \A d \in past : Clean(d)
  /\ alteredAt # 0 =>
       /\ Marked(db, alteredAt) /\ Marked(tx, alteredAt)
       /\ \A d \in past : Clean(d) \/ Marked(d, alteredAt)

----------------------------------------------------------------------------
LEMMA BrokenIsRefused ==
  ASSUME NEW d \in Databases, NEW n \in Nat, Broken(d, n)
  PROVE  ~VerifyChain(d.log)
  BY DEF Broken, VerifyChain

\* A row appended, of a kind that is no result, changes nothing to it.
LEMMA MarkedGrows ==
  ASSUME NEW d \in Databases, NEW e \in Databases, NEW n \in Nat, Marked(d, n), Grown(d, e, 1),
         e.messages = d.messages, e.log[Len(d.log) + 1].kind # "RESULT_VERIFIED"
  PROVE  Marked(e, n)
  <1>1. /\ Len(d.log) \in Nat /\ DOMAIN d.log = 1..Len(d.log)
        /\ DOMAIN e.log = 1..(Len(d.log) + 1)
        /\ \A i \in 1..Len(d.log) : e.log[i] = d.log[i]
    BY Positions
  <1>2. \A i \in DOMAIN d.log : i \in DOMAIN e.log /\ e.log[i] = d.log[i]
    BY <1>1
  <1>3. \A i \in DOMAIN e.log : i \in DOMAIN d.log \/ i = Len(d.log) + 1
    BY <1>1
  <1>4. Broken(e, n)
    BY <1>2 DEF Marked, Broken
  <1>5. Noticed(e, n)
    BY <1>2, <1>3 DEF Marked, Noticed
  <1>6. QED
    BY <1>4, <1>5 DEF Marked

LEMMA RunHasMessageStep ==
  ASSUME SpineInv, \A p \in Processes : RunHasMessage(p), [Next]_vars
  PROVE  \A p \in Processes : RunHasMessage(p)'
  <1>1. SpineInv'
    BY SpineStep
  <1>2. CASE UNCHANGED vars
    BY <1>2 DEF vars, RunHasMessage
  <1>3. CASE Next
    <2>1. PICK p \in Processes : Start(p) \/ Work(p) \/ Crash(p)
      BY <1>3 DEF Next
    <2>2. ASSUME NEW q \in Processes, q # p, pc'[q] \in {"run", "verify"} PROVE RunHasMessage(q)'
      <3>1. q \in writer' /\ pc'[q] = pc[q] /\ job'[q] = job[q] /\ q \in writer
        <4>1. pc'[q] = pc[q] /\ job'[q] = job[q]
          BY <2>1, <2>2 DEF SpineInv, TypeOK, Start, Work, StartSubmit, StartAppend, Begin, Busy,
             Replay, Conflict, Ingest, Receipt, StartRun, FinishRun, RecordIdempotency, AppendEvent,
             Commit, Rollback, Deliver, Crash, Over, Goto
        <4>2. QED
          BY <1>1, <2>2, <4>1 DEF SpineInv, StepInv, Writing
      <3>2. p \notin writer /\ writer # {p} /\ pc[p] \notin Writing
        BY <2>2, <3>1 DEF SpineInv, LockInv, StepInv
      <3>3. tx' = tx
        <4>1. Start(p) \/ Busy(p) \/ Deliver(p) \/ Crash(p)
          BY <2>1, <3>1, <3>2 DEF Work, Begin, Replay, Conflict, Ingest, Receipt, StartRun, FinishRun,
             RecordIdempotency, AppendEvent, Commit, Rollback, InTransaction, Writing
        <4>2. QED
          BY <3>2, <4>1 DEF Start, StartSubmit, StartAppend, Busy, Deliver, Crash, InTransaction
      <3>4. QED
        BY <2>2, <3>1, <3>3 DEF RunHasMessage
    <2>3. ASSUME pc'[p] \in {"run", "verify"} PROVE RunHasMessage(p)'
      <3>1. Receipt(p) \/ \E ts \in Times : StartRun(p, ts)
        BY <2>1, <2>3 DEF SpineInv, TypeOK, Start, Work, StartSubmit, StartAppend, Begin, Busy, Replay,
           Conflict, Ingest, FinishRun, RecordIdempotency, AppendEvent, Commit, Rollback, Deliver,
           Crash, Over, Goto
      <3>2. CASE Receipt(p)
        <4>1. tx'.messages = tx.messages \cup {[key |-> job[p].request.key, integration |-> "INGESTED"]}
          BY <3>2 DEF SpineInv, TypeOK, Databases, Receipt
        <4>2. job' = job
          BY <3>2 DEF Receipt
        <4>3. \E m \in tx'.messages : m.key = job'[p].request.key
          BY <4>1, <4>2
        <4>4. QED
          BY <4>3 DEF RunHasMessage
      <3>3. ASSUME NEW ts \in Times, StartRun(p, ts) PROVE RunHasMessage(p)'
        <4>1. tx'.messages = tx.messages
          BY <3>3 DEF SpineInv, TypeOK, Databases, StartRun, WithEvent
        <4>2. QED
          BY <3>3, <4>1 DEF StartRun, RunHasMessage
      <3>4. QED
        BY <3>1, <3>2, <3>3
    <2>4. QED
      BY <2>2, <2>3 DEF RunHasMessage
  <1>4. QED
    BY <1>2, <1>3

----------------------------------------------------------------------------
(* Behind an edited row *)

LEMMA FinishRunMarks ==
  ASSUME SpineInv, SpineInv', NEW n \in Nat, Marked(tx, n), NEW p \in Processes, RunHasMessage(p),
         NEW ts \in Times, FinishRun(p, ts)
  PROVE  Marked(tx', n)
  <1> DEFINE k == job[p].request.key
             row == EventRow(tx, ts, "RESULT_VERIFIED", k)
             e == WithEvent(tx, row)
             F(m) == IF m.key = k THEN [m EXCEPT !.integration = "FAILED"] ELSE m
  <1>1. tx \in Databases /\ tx' \in Databases /\ pc[p] = "verify"
    BY DEF SpineInv, TypeOK, FinishRun
  <1>2. k \in Topics /\ "RESULT_VERIFIED" \in Kinds
    BY <1>1, SubmitJob DEF Kinds, KernelKinds
  <1>3. /\ e \in Databases /\ Grown(tx, e, 1)
        /\ e.log[Len(tx.log) + 1] = row /\ row.about = k /\ e.messages = tx.messages
    BY <1>1, <1>2, RowAdded, RowTyped
  <1>4. ~VerifyChain(tx.log)
    BY <1>1, BrokenIsRefused DEF Marked
  <1>5. tx' = [e EXCEPT !.messages = {F(m) : m \in @}]
    BY <1>4 DEF FinishRun, Outcomes
  <1> HIDE DEF e, row
  <1>6. tx'.log = e.log /\ tx'.messages = {F(m) : m \in tx.messages}
    BY <1>3, <1>5 DEF Databases
  <1>7. \A m \in tx.messages : m \in [key : Keys, integration : States]
    BY <1>1 DEF Databases
  <1>8. /\ Len(tx.log) \in Nat /\ DOMAIN tx.log = 1..Len(tx.log)
        /\ DOMAIN tx'.log = 1..(Len(tx.log) + 1)
        /\ \A i \in 1..Len(tx.log) : tx'.log[i] = tx.log[i]
    BY <1>1, <1>3, <1>6, Positions
  <1>9. \A i \in DOMAIN tx.log : i \in DOMAIN tx'.log /\ tx'.log[i] = tx.log[i]
    BY <1>8
  <1>10. \A i \in DOMAIN tx'.log : i \in DOMAIN tx.log \/ tx'.log[i].about = k
    BY <1>3, <1>6, <1>8
  <1>11. Broken(tx', n)
    BY <1>9 DEF Marked, Broken
  <1>12. \A m \in tx.messages : F(m).key = m.key /\ (m.key = k => F(m).integration = "FAILED")
                                /\ (m.key # k => F(m) = m)
    BY <1>7
  <1> HIDE DEF F
  <1>13. Noticed(tx', n)
    <2> SUFFICES ASSUME NEW j \in DOMAIN tx'.log, j > n, tx'.log[j].kind = "RESULT_VERIFIED"
                 PROVE  /\ \E m \in tx'.messages : m.key = tx'.log[j].about
                        /\ \A m \in tx'.messages : m.key = tx'.log[j].about => m.integration = "FAILED"
      BY DEF Noticed
    <2>1. CASE tx'.log[j].about = k
      <3>1. \E m \in tx.messages : m.key = k
        BY <1>1 DEF RunHasMessage
      <3>2. QED
        BY <1>6, <1>12, <2>1, <3>1
    <2>2. CASE tx'.log[j].about # k
      <3>1. j \in DOMAIN tx.log /\ tx'.log[j] = tx.log[j]
        BY <1>9, <1>10, <2>2
      <3>2. /\ \E m \in tx.messages : m.key = tx'.log[j].about
            /\ \A m \in tx.messages : m.key = tx'.log[j].about => m.integration = "FAILED"
        BY <3>1 DEF Marked, Noticed
      <3>3. QED
        BY <1>6, <1>12, <2>2, <3>2
    <2>3. QED
      BY <2>1, <2>2
  <1>14. QED
    BY <1>11, <1>13 DEF Marked

\* Whatever a process does, the edited row stays noticed.
LEMMA MarkedStep ==
  ASSUME SpineInv, \A p \in Processes : RunHasMessage(p), NEW n \in Nat,
         Marked(db, n), Marked(tx, n), [Next]_vars
  PROVE  Marked(db', n) /\ Marked(tx', n)
  <1>1. SpineInv'
    BY SpineStep
  <1>2. tx \in Databases /\ tx' \in Databases
    BY <1>1 DEF SpineInv, TypeOK
  <1>3. Marked(db', n)
    BY StepWrites
  <1>4. CASE UNCHANGED vars
    BY <1>4 DEF vars
  <1>5. CASE Next
    <2> SUFFICES Marked(tx', n)
      BY <1>3
    <2>1. PICK p \in Processes : Start(p) \/ Work(p) \/ Crash(p)
      BY <1>5 DEF Next
    <2>2. CASE Start(p) \/ Begin(p) \/ Busy(p) \/ Replay(p) \/ Conflict(p)
      BY <2>2 DEF Start, StartSubmit, StartAppend, Begin, Busy, Replay, Conflict
    <2>3. CASE Commit(p) \/ Rollback(p) \/ Deliver(p) \/ Crash(p)
      BY <2>3 DEF Commit, Rollback, Deliver, Crash
    <2>4. CASE RecordIdempotency(p)
      <3>1. tx'.log = tx.log /\ tx'.messages = tx.messages
        BY <2>4 DEF SpineInv, TypeOK, Databases, RecordIdempotency
      <3>2. QED
        BY <3>1 DEF Marked, Broken, Noticed
    <2>5. CASE Receipt(p)
      <3>1. /\ tx'.log = tx.log
            /\ tx'.messages = tx.messages \cup {[key |-> job[p].request.key, integration |-> "INGESTED"]}
            /\ \A m \in tx.messages : m.key # job[p].request.key
        BY <2>5 DEF SpineInv, TypeOK, Databases, Receipt
      <3>2. Noticed(tx', n)
        BY <3>1 DEF Marked, Noticed
      <3>3. QED
        BY <3>1, <3>2 DEF Marked, Broken
    <2>6. ASSUME NEW ts \in Times, Ingest(p, ts) PROVE Marked(tx', n)
      <3>1. job[p].request.key \in Topics /\ "TASK_INGESTED" \in Kinds
        BY <2>6, SubmitJob DEF Ingest, Kinds, KernelKinds
      <3>2. QED
        BY <1>2, <2>6, <3>1, RowAdded, MarkedGrows DEF Ingest
    <2>7. ASSUME NEW ts \in Times, StartRun(p, ts) PROVE Marked(tx', n)
      <3>1. job[p].request.key \in Topics /\ "RECIPE_RUN_STARTED" \in Kinds
        BY <2>7, SubmitJob DEF StartRun, Kinds, KernelKinds
      <3>2. QED
        BY <1>2, <2>7, <3>1, RowAdded, MarkedGrows DEF StartRun
    <2>8. ASSUME NEW ts \in Times, FinishRun(p, ts) PROVE Marked(tx', n)
      BY <1>1, <2>8, FinishRunMarks
    <2>9. ASSUME NEW ts \in Times, AppendEvent(p, ts) PROVE Marked(tx', n)
      <3>1. job[p] \in [op : {"append"}, note : Notes]
        BY <2>9 DEF SpineInv, TypeOK, StepInv, AppendEvent, Jobs, NoJob
      <3>2. /\ job[p].note.kind \in Kinds /\ job[p].note.about \in Topics
            /\ job[p].note.kind # "RESULT_VERIFIED"
        BY <3>1, NotesAreNotTasks DEF Kinds, Topics, KernelKinds
      <3>3. QED
        BY <1>2, <2>9, <3>2, RowAdded, MarkedGrows DEF AppendEvent
    <2>10. QED
      BY <2>1, <2>2, <2>3, <2>4, <2>5, <2>6, <2>7, <2>8, <2>9 DEF Work
  <1>6. QED
    BY <1>3, <1>4, <1>5

----------------------------------------------------------------------------
(* Processes, checkpoints, power cuts and edits *)

LEMMA ProcessKeepsFaults == ASSUME FaultInv, ProcessStep PROVE FaultInv'
  <1>1. [Next]_vars /\ SpineInv /\ \A p \in Processes : RunHasMessage(p)
    BY DEF FaultInv, ProcessStep
  <1>2. SpineInv' /\ \A p \in Processes : RunHasMessage(p)'
    BY <1>1, SpineStep, RunHasMessageStep
  <1>3. past' \subseteq past \cup {db} /\ faults' = faults /\ alteredAt' = alteredAt
    BY DEF ProcessStep
  <1>4. FaultTypeOK'
    BY <1>2, <1>3 DEF FaultInv, FaultTypeOK, SpineInv, TypeOK
  <1>5. CASE alteredAt = 0
    <2>1. ChainInv' /\ AdmissionInv'
      BY <1>1, <1>5, ChainStep, AdmissionStep DEF FaultInv
    <2>2. \A d \in past' : Clean(d)
      BY <1>3, <1>5 DEF FaultInv, AdmissionInv
    <2>3. QED
      BY <1>2, <1>3, <1>4, <1>5, <2>1, <2>2 DEF FaultInv
  <1>6. CASE alteredAt # 0
    <2>1. alteredAt \in Nat /\ Marked(db, alteredAt) /\ Marked(tx, alteredAt)
      BY <1>6 DEF FaultInv, FaultTypeOK
    <2>2. Marked(db', alteredAt) /\ Marked(tx', alteredAt)
      BY <1>1, <2>1, MarkedStep
    <2>3. \A d \in past' : Clean(d) \/ Marked(d, alteredAt)
      BY <1>3, <1>6, <2>1 DEF FaultInv
    <2>4. QED
      BY <1>2, <1>3, <1>4, <1>6, <2>2, <2>3 DEF FaultInv
  <1>7. QED
    BY <1>5, <1>6

LEMMA CheckpointKeepsFaults == ASSUME FaultInv, Checkpoint PROVE FaultInv'
  <1>1. UNCHANGED vars /\ past' = {} /\ faults' = faults /\ alteredAt' = alteredAt
    BY DEF Checkpoint
  <1>2. SpineInv' /\ ChainInv' = ChainInv /\ \A p \in Processes : RunHasMessage(p)'
    BY <1>1, SpineStep DEF FaultInv, vars, ChainInv, RunHasMessage
  <1>3. AdmissionInv => AdmissionInv'
    BY <1>1 DEF vars, AdmissionInv, WriterInv, AtReceipt, AtRun, AtVerify, AtRecord, AtCommit,
       AtReply, InTask, Answers, CommitsNote, CommitsTask, CommitsNothing
  <1>4. FaultTypeOK'
    BY <1>1, <1>2 DEF FaultInv, FaultTypeOK, SpineInv
  <1>5. QED
    BY <1>1, <1>2, <1>3, <1>4 DEF FaultInv, vars

\* After a power cut nobody is at work, so nobody relies on what is gone.
LEMMA PowerCutKeepsFaults == ASSUME FaultInv, PowerCut PROVE FaultInv'
  <1>1. PICK survivor \in past \cup {db} :
          /\ db' = survivor /\ tx' = survivor
          /\ alteredAt' = IF VerifyChain(survivor.log) THEN 0 ELSE alteredAt
    BY DEF PowerCut
  <1>2. /\ past' = {} /\ writer' = {} /\ told' = told
        /\ faults < MaxFaults /\ faults' = faults + 1
        /\ pc' = [p \in Processes |-> "idle"]
        /\ job' = [p \in Processes |-> NoJob]
        /\ reply' = [p \in Processes |-> NoReply]
    BY DEF PowerCut
  <1>3. survivor \in Databases
    BY <1>1 DEF FaultInv, FaultTypeOK, TypeOK
  <1>4. SpineInv'
    <2>1. TypeOK'
      BY <1>1, <1>2, <1>3 DEF FaultInv, FaultTypeOK, TypeOK, Steps, Jobs
    <2>2. \A p \in Processes : StepInv(p)'
      BY <1>2 DEF StepInv, Writing
    <2>3. LockInv'
      BY <1>1, <1>2 DEF LockInv
    <2>4. QED
      BY <2>1, <2>2, <2>3 DEF SpineInv
  <1>5. FaultTypeOK'
    BY <1>1, <1>2, <1>4, BoundIsNat DEF FaultInv, FaultTypeOK, SpineInv
  <1>6. \A p \in Processes : RunHasMessage(p)' /\ WriterInv(p)'
    BY <1>2 DEF RunHasMessage, WriterInv
  <1>7. CASE Clean(survivor)
    <2>1. alteredAt' = 0 /\ ChainInv' /\ AdmissionInv'
      BY <1>1, <1>6, <1>7 DEF Clean, Chained, ChainInv, AdmissionInv
    <2>2. QED
      BY <1>2, <1>4, <1>5, <1>6, <2>1 DEF FaultInv
  <1>8. CASE ~Clean(survivor)
    <2>1. alteredAt # 0 /\ Marked(survivor, alteredAt)
      BY <1>1, <1>8 DEF FaultInv, AdmissionInv
    <2>2. alteredAt \in Nat /\ alteredAt' = alteredAt
      BY <1>1, <1>3, <2>1, BrokenIsRefused DEF FaultInv, FaultTypeOK, Marked
    <2>3. QED
      BY <1>1, <1>2, <1>4, <1>5, <1>6, <2>1, <2>2 DEF FaultInv
  <1>9. QED
    BY <1>7, <1>8

\* The stored hash of an edited row is that of what it said before.
LEMMA AlterMarks ==
  ASSUME NEW d \in Databases, Clean(d), NEW i \in DOMAIN d.log, NEW topic \in Topics,
         d.log[i].about # topic
  PROVE  LET e == [d EXCEPT !.log[i].about = topic]
         IN  e \in Databases /\ Marked(e, Len(d.log))
  <1> DEFINE e == [d EXCEPT !.log[i].about = topic]
             row == [d.log[i] EXCEPT !.about = topic]
  <1>1. d.log \in Seq(Rows) /\ d.log[i] \in Rows /\ i \in 1..Len(d.log) /\ Len(d.log) \in Nat
    BY DEF Databases
  <1>2. row \in Rows
    BY <1>1 DEF Rows
  <1>3. e.log = [d.log EXCEPT ![i] = row]
    BY DEF Databases
  <1>4. e.log \in Seq(Rows) /\ Len(e.log) = Len(d.log) /\ e.log[i] = row
    BY <1>1, <1>2, <1>3
  <1>5. e \in Databases
    BY <1>4 DEF Databases
  <1>6. row.hash = d.log[i].hash /\ row.prev = d.log[i].prev /\ row.id = d.log[i].id /\ row.about = topic
    BY <1>1 DEF Rows
  <1>7. d.log[i].hash = Digest(d.log[i].prev, d.log[i].id, d.log[i].about)
    BY DEF Clean, Chained, VerifyChain
  <1>8. row.hash # Digest(row.prev, row.id, row.about)
    <2> DEFINE prev == d.log[i].prev
               old == <<d.log[i].id, d.log[i].about>>
               new == <<d.log[i].id, topic>>
    <2>1. prev \in Seq(EventIds \X Topics) /\ old \in EventIds \X Topics /\ new \in EventIds \X Topics
      BY <1>1 DEF Rows, Digests
    <2>2. old # new
      OBVIOUS
    <2> HIDE DEF prev, old, new
    <2>3. Append(prev, old)[Len(prev) + 1] = old /\ Append(prev, new)[Len(prev) + 1] = new
      BY <2>1
    <2>4. Append(prev, old) # Append(prev, new)
      BY <2>2, <2>3
    <2>5. QED
      BY <1>6, <1>7, <2>4 DEF Digest, prev, old, new
  <1> HIDE DEF e, row
  <1>9. Broken(e, Len(d.log))
    BY <1>1, <1>4, <1>8 DEF Broken
  <1>10. Noticed(e, Len(d.log))
    BY <1>1, <1>4 DEF Noticed
  <1>11. QED
    BY <1>5, <1>9, <1>10 DEF Marked, e

LEMMA AlterKeepsFaults ==
  ASSUME FaultInv, NEW i \in DOMAIN db.log, NEW topic \in Topics, AlterRow(i, topic)
  PROVE  FaultInv'
  <1>1. /\ alteredAt = 0 /\ writer = {} /\ db.log[i].about # topic
        /\ db' = [db EXCEPT !.log[i].about = topic] /\ tx' = db'
        /\ past' = past \cup {db} /\ alteredAt' = Len(db.log)
        /\ UNCHANGED <<writer, pc, job, reply, told>>
        /\ faults < MaxFaults /\ faults' = faults + 1
    BY DEF AlterRow
  <1>2. db \in Databases /\ Clean(db) /\ \A d \in past : Clean(d)
    BY <1>1 DEF FaultInv, FaultTypeOK, TypeOK, AdmissionInv
  <1>3. db' \in Databases /\ Marked(db', Len(db.log))
    BY <1>1, <1>2, AlterMarks
  <1>4. Len(db.log) \in Nat /\ Len(db.log) # 0
    <2>1. db.log \in Seq(Rows)
      BY <1>2 DEF Databases
    <2>2. QED
      BY <2>1
  <1>5. SpineInv'
    <2>1. TypeOK'
      BY <1>1, <1>3 DEF FaultInv, FaultTypeOK, TypeOK
    <2>2. \A p \in Processes : StepInv(p)'
      BY <1>1 DEF FaultInv, SpineInv, StepInv
    <2>3. LockInv'
      BY <1>1 DEF LockInv
    <2>4. QED
      BY <2>1, <2>2, <2>3 DEF SpineInv
  <1>6. \A p \in Processes : RunHasMessage(p)'
    BY <1>1 DEF FaultInv, SpineInv, StepInv, RunHasMessage, Writing
  <1>7. FaultTypeOK'
    BY <1>1, <1>2, <1>4, <1>5, BoundIsNat DEF FaultInv, FaultTypeOK, SpineInv
  <1>8. QED
    BY <1>1, <1>2, <1>3, <1>4, <1>5, <1>6, <1>7 DEF FaultInv

LEMMA InitFaults == ASSUME FaultInit PROVE FaultInv
  <1>1. SpineInv /\ ChainInv /\ AdmissionInv
    BY InitSpineInv, InitChainInv, InitAdmission DEF FaultInit
  <1>2. \A p \in Processes : RunHasMessage(p)
    BY DEF FaultInit, Init, RunHasMessage
  <1>3. QED
    BY <1>1, <1>2, BoundIsNat DEF FaultInit, FaultInv, FaultTypeOK, SpineInv

THEOREM FaultInvariant == FaultSpec => []FaultInv
  <1>1. FaultInv /\ [FaultNext]_faultVars => FaultInv'
    <2> SUFFICES ASSUME FaultInv, [FaultNext]_faultVars PROVE FaultInv'
      OBVIOUS
    <2>1. CASE FaultNext
      BY <2>1, ProcessKeepsFaults, CheckpointKeepsFaults, PowerCutKeepsFaults, AlterKeepsFaults
         DEF FaultNext
    <2>2. CASE UNCHANGED faultVars
      <3>1. UNCHANGED vars /\ past' = past /\ faults' = faults /\ alteredAt' = alteredAt
        BY <2>2 DEF faultVars
      <3>2. SpineInv' /\ ChainInv' = ChainInv /\ \A p \in Processes : RunHasMessage(p)'
        BY <3>1, SpineStep DEF FaultInv, vars, ChainInv, RunHasMessage
      <3>3. AdmissionInv => AdmissionInv'
        BY <3>1 DEF vars, AdmissionInv, WriterInv, AtReceipt, AtRun, AtVerify, AtRecord, AtCommit,
           AtReply, InTask, Answers, CommitsNote, CommitsTask, CommitsNothing
      <3>4. FaultTypeOK'
        BY <3>1, <3>2 DEF FaultInv, FaultTypeOK, SpineInv
      <3>5. QED
        BY <3>1, <3>2, <3>3, <3>4 DEF FaultInv, vars
    <2>3. QED
      BY <2>1, <2>2
  <1>2. QED
    BY <1>1, InitFaults, PTL DEF FaultSpec

----------------------------------------------------------------------------
\* Types of what is stored and of what a power cut may bring back.
THEOREM FaultTyping == FaultSpec => []FaultTypeOK
  <1>1. FaultInv => FaultTypeOK
    BY DEF FaultInv
  <1>2. QED
    BY <1>1, FaultInvariant, PTL

\* A power cut takes tasks and runs whole, and what is left verifies.
THEOREM PowerCutTheorem == FaultSpec => []PowerCutIsClean
  <1>1. FaultInv => PowerCutIsClean
    BY CleanIsWhole DEF FaultInv, SpineInv, ChainInv, Chained, AdmissionInv, ChainVerifies, PowerCutIsClean
  <1>2. QED
    BY <1>1, FaultInvariant, PTL

\* No run behind an edited row calls the chain good.
THEOREM AlterationTheorem == FaultSpec => []AlterationIsNoticed
  <1>1. FaultInv => AlterationIsNoticed
    <2> SUFFICES ASSUME FaultInv, alteredAt # 0, NEW j \in (alteredAt + 1)..Len(db.log),
                        db.log[j].kind = "RESULT_VERIFIED", NEW m \in db.messages,
                        m.key = db.log[j].about
                 PROVE  m.integration = "FAILED"
      BY DEF AlterationIsNoticed
    <2>1. alteredAt \in Nat /\ db.log \in Seq(Rows)
      BY DEF FaultInv, FaultTypeOK, TypeOK, Databases
    <2>2. j \in DOMAIN db.log /\ j > alteredAt
      BY <2>1
    <2>3. QED
      BY <2>2 DEF FaultInv, Marked, Noticed
  <1>2. QED
    BY <1>1, FaultInvariant, PTL
============================================================================
