------------------------ MODULE SpineAdmissionProofs ------------------------
(***************************************************************************)
(* Admission for any number of processes, requests and appended notes:     *)
(* a task enters the log once and whole, callers are told what is stored,  *)
(* and the processes together implement EventLog.                          *)
(*                                                                         *)
(* The argument: a committed database is Clean; the writer's view is the   *)
(* committed database plus exactly what its transaction has written so     *)
(* far (WriterInv), so a commit adds a whole admission, a note or nothing; *)
(* each of these keeps a Clean database Clean.                             *)
(***************************************************************************)
EXTENDS SpineProofs, SequenceTheorems

----------------------------------------------------------------------------
(* Committed databases *)

IsTask(row, k) == row.kind = "TASK_INGESTED" /\ row.about = k

TasksOnce(d) ==
  \A i, j \in DOMAIN d.log :
    (/\ d.log[i].kind = "TASK_INGESTED"
     /\ d.log[j].kind = "TASK_INGESTED"
     /\ d.log[i].about = d.log[j].about) => i = j

\* A record per key, the task it stands for in the log, its warrant and message;
\* a record for every task and message; and the states of those that have run.
KeysOnce(d) == \A r, s \in d.idempotency : r.key = s.key => r = s

RecordHasTask(d) ==
  \A r \in d.idempotency :
    \E i \in DOMAIN d.log : /\ IsTask(d.log[i], r.key)
                            /\ d.log[i].id = r.event
                            /\ d.log[i].hash = r.hash

RecordHasRest(d) ==
  \A r \in d.idempotency :
    /\ \E m \in d.messages : m.key = r.key
    /\ \E w \in d.warrants : w.event = r.event

StateIsRun(d) ==
  /\ \A r \in d.idempotency : r.state = "INTEGRATED" <=> r.key \in Ran(d)
  /\ \A m \in d.messages : m.integration # "INGESTED" <=> m.key \in Ran(d)

TaskHasRecord(d) ==
  \A i \in DOMAIN d.log : d.log[i].kind = "TASK_INGESTED" =>
    \E r \in d.idempotency : r.key = d.log[i].about /\ r.event = d.log[i].id

MessageHasRecord(d) == \A m \in d.messages : \E r \in d.idempotency : r.key = m.key

StartHasResult(d) ==
  \A i \in DOMAIN d.log : d.log[i].kind = "RECIPE_RUN_STARTED" =>
    /\ i + 1 \in DOMAIN d.log
    /\ d.log[i + 1].kind = "RESULT_VERIFIED"
    /\ d.log[i + 1].about = d.log[i].about

ResultHasStart(d) ==
  \A i \in DOMAIN d.log : d.log[i].kind = "RESULT_VERIFIED" =>
    /\ i > 2
    /\ d.log[i - 1].kind = "RECIPE_RUN_STARTED"
    /\ d.log[i - 2].kind = "TASK_INGESTED"
    /\ d.log[i - 2].about = d.log[i].about

Clean(d) ==
  /\ Chained(d)
  /\ TasksOnce(d) /\ KeysOnce(d)
  /\ RecordHasTask(d) /\ RecordHasRest(d) /\ StateIsRun(d)
  /\ TaskHasRecord(d) /\ MessageHasRecord(d)
  /\ StartHasResult(d) /\ ResultHasStart(d)

----------------------------------------------------------------------------
(* What a transaction adds *)

\* e has the rows of d and n more.
Grown(d, e, n) ==
  /\ Len(e.log) = Len(d.log) + n
  /\ \A i \in DOMAIN d.log : e.log[i] = d.log[i]

Unknown(d, k) == \A r \in d.idempotency : r.key # k

Record(a) ==
  [key |-> a.key, request |-> a.request, event |-> a.event, hash |-> a.hash, state |-> a.state]

HasTask(d, e, a) ==
  /\ IsTask(e.log[Len(d.log) + 1], a.key)
  /\ e.log[Len(d.log) + 1].id = a.event
  /\ e.log[Len(d.log) + 1].hash = a.hash

HasStart(d, e, k) ==
  e.log[Len(d.log) + 2].kind = "RECIPE_RUN_STARTED" /\ e.log[Len(d.log) + 2].about = k

HasResult(d, e, k) ==
  e.log[Len(d.log) + 3].kind = "RESULT_VERIFIED" /\ e.log[Len(d.log) + 3].about = k

HasMessage(d, e, a, i) ==
  /\ i # "INGESTED" <=> a.state = "INTEGRATED"
  /\ e.messages = d.messages \cup {[key |-> a.key, integration |-> i]}

HasReceipt(d, e, a) ==
  /\ e.warrants = d.warrants \cup {[event |-> a.event, request |-> a.request]}
  /\ \E i \in States : HasMessage(d, e, a, i)

\* The rows of a task, and of its run when it asked for one, with its receipt.
HasAdmission(d, e, a, run) ==
  /\ Unknown(d, a.key)
  /\ Grown(d, e, IF run THEN 3 ELSE 1)
  /\ HasTask(d, e, a)
  /\ run => HasStart(d, e, a.key) /\ HasResult(d, e, a.key)
  /\ run <=> a.state = "INTEGRATED"
  /\ HasReceipt(d, e, a)

HasNote(d, e, n) ==
  /\ Grown(d, e, 1)
  /\ e.log[Len(d.log) + 1].kind = n.kind
  /\ e.log[Len(d.log) + 1].about = n.about
  /\ e.warrants = d.warrants /\ e.messages = d.messages /\ e.idempotency = d.idempotency

\* One more row, and where it is.
LEMMA RowAdded ==
  ASSUME NEW d \in Databases, NEW ts \in Times, NEW kind \in Kinds, NEW about \in Topics
  PROVE  LET row == EventRow(d, ts, kind, about)
             e == WithEvent(d, row)
         IN  /\ Grown(d, e, 1)
             /\ e.log[Len(d.log) + 1] = row
             /\ e.warrants = d.warrants /\ e.messages = d.messages
             /\ e.idempotency = d.idempotency
             /\ row.kind = kind /\ row.about = about
  <1> DEFINE row == EventRow(d, ts, kind, about)
             e == WithEvent(d, row)
  <1>1. row.kind = kind /\ row.about = about
    BY DEF EventRow
  <1> HIDE DEF row
  <1>2. /\ e.log = Append(d.log, row) /\ e.warrants = d.warrants
        /\ e.messages = d.messages /\ e.idempotency = d.idempotency
    BY DEF WithEvent, Databases
  <1>3. d.log \in Seq(Rows)
    BY DEF Databases
  <1>4. /\ Len(e.log) = Len(d.log) + 1
        /\ \A i \in 1..Len(d.log) : e.log[i] = d.log[i]
        /\ e.log[Len(d.log) + 1] = row
    BY <1>2, <1>3
  <1>5. QED
    BY <1>1, <1>2, <1>3, <1>4 DEF Grown, row

LEMMA GrownTwice ==
  ASSUME NEW d \in Databases, NEW e \in Databases, NEW f \in Databases,
         NEW m \in Nat, NEW n \in Nat, Grown(d, e, m), Grown(e, f, n)
  PROVE  Grown(d, f, m + n) /\ \A i \in 1..(Len(d.log) + m) : f.log[i] = e.log[i]
  <1>1. d.log \in Seq(Rows) /\ e.log \in Seq(Rows) /\ f.log \in Seq(Rows)
    BY DEF Databases
  <1>2. DOMAIN d.log = 1..Len(d.log) /\ DOMAIN e.log = 1..Len(e.log)
        /\ Len(d.log) \in Nat /\ Len(e.log) \in Nat /\ Len(f.log) \in Nat
    BY <1>1
  <1>3. Len(e.log) = Len(d.log) + m /\ Len(f.log) = Len(e.log) + n
    BY DEF Grown
  <1>4. DOMAIN e.log = 1..(Len(d.log) + m)
    BY <1>2, <1>3
  <1>5. \A i \in 1..(Len(d.log) + m) : f.log[i] = e.log[i]
    BY <1>4 DEF Grown
  <1>6. \A i \in DOMAIN d.log : f.log[i] = d.log[i]
    <2>1. ASSUME NEW i \in DOMAIN d.log PROVE i \in 1..(Len(d.log) + m)
      BY <1>2
    <2>2. QED
      BY <1>5, <2>1 DEF Grown
  <1>7. Len(f.log) = Len(d.log) + (m + n)
    <2>1. PICK x \in Nat, y \in Nat, z \in Nat : x = Len(d.log) /\ y = Len(e.log) /\ z = Len(f.log)
      BY <1>2
    <2>2. y = x + m /\ z = y + n
      BY <1>3, <2>1
    <2>3. z = x + (m + n)
      BY <2>2
    <2>4. QED
      BY <2>1, <2>3
  <1>8. QED
    BY <1>5, <1>6, <1>7 DEF Grown

\* The positions of the rows old and new.
LEMMA Positions ==
  ASSUME NEW d \in Databases, NEW e \in Databases, NEW n \in {1, 2, 3}, Grown(d, e, n)
  PROVE  /\ Len(d.log) \in Nat
         /\ DOMAIN d.log = 1..Len(d.log)
         /\ DOMAIN e.log = 1..(Len(d.log) + n)
         /\ \A i \in 1..Len(d.log) : e.log[i] = d.log[i]
  <1>1. d.log \in Seq(Rows) /\ e.log \in Seq(Rows)
    BY DEF Databases
  <1>2. DOMAIN d.log = 1..Len(d.log) /\ DOMAIN e.log = 1..Len(e.log) /\ Len(d.log) \in Nat
    BY <1>1
  <1>3. QED
    BY <1>2 DEF Grown

\* A note leaves a clean database clean: its kind is none of the kernel's.
LEMMA CleanNote ==
  ASSUME NEW d \in Databases, NEW e \in Databases, NEW n \in Notes,
         Clean(d), HasNote(d, e, n), Chained(e)
  PROVE  Clean(e)
  <1> DEFINE len == Len(d.log)
  <1>1. /\ len \in Nat
        /\ DOMAIN d.log = 1..len
        /\ DOMAIN e.log = 1..(len + 1)
        /\ \A i \in 1..len : e.log[i] = d.log[i]
    BY Positions DEF HasNote
  <1>2. /\ e.log[len + 1].kind # "TASK_INGESTED"
        /\ e.log[len + 1].kind # "RECIPE_RUN_STARTED"
        /\ e.log[len + 1].kind # "RESULT_VERIFIED"
    BY NotesAreNotTasks DEF HasNote, KernelKinds
  <1> HIDE DEF len
  <1>3. \A i \in DOMAIN e.log : i \in DOMAIN d.log \/ i = len + 1
    BY <1>1
  <1>4. \A i \in DOMAIN d.log : i \in DOMAIN e.log /\ e.log[i] = d.log[i]
    BY <1>1
  <1>5. e.warrants = d.warrants /\ e.messages = d.messages /\ e.idempotency = d.idempotency
    BY DEF HasNote
  <1>6. TasksOnce(e) /\ KeysOnce(e)
    BY <1>2, <1>3, <1>4, <1>5 DEF Clean, TasksOnce, KeysOnce
  <1>7. RecordHasTask(e) /\ RecordHasRest(e)
    BY <1>4, <1>5 DEF Clean, RecordHasTask, RecordHasRest
  <1>8. TaskHasRecord(e) /\ MessageHasRecord(e)
    BY <1>2, <1>3, <1>4, <1>5 DEF Clean, TaskHasRecord, MessageHasRecord
  <1>9. StartHasResult(e)
    BY <1>2, <1>3, <1>4 DEF Clean, StartHasResult
  <1>10. ResultHasStart(e)
    <2> SUFFICES ASSUME NEW i \in DOMAIN e.log, e.log[i].kind = "RESULT_VERIFIED"
                 PROVE  /\ i > 2
                        /\ e.log[i - 1].kind = "RECIPE_RUN_STARTED"
                        /\ e.log[i - 2].kind = "TASK_INGESTED"
                        /\ e.log[i - 2].about = e.log[i].about
      BY DEF ResultHasStart
    <2>1. i \in DOMAIN d.log /\ d.log[i] = e.log[i] /\ i > 2
      BY <1>2, <1>3, <1>4 DEF Clean, ResultHasStart
    <2>2. i - 1 \in DOMAIN d.log /\ i - 2 \in DOMAIN d.log
      BY <1>1, <2>1
    <2>3. QED
      BY <1>4, <2>1, <2>2 DEF Clean, ResultHasStart
  <1>11. StateIsRun(e)
    <2>1. Ran(e) = Ran(d)
      BY <1>2, <1>3, <1>4 DEF Ran
    <2>2. QED
      BY <1>5, <2>1 DEF Clean, StateIsRun
  <1>12. QED
    BY <1>6, <1>7, <1>8, <1>9, <1>10, <1>11 DEF Clean

\* A whole admission leaves a clean database clean.
LEMMA CleanAdmission ==
  ASSUME NEW d \in Databases, NEW e \in Databases, NEW a \in Acks, NEW run \in BOOLEAN,
         Clean(d), HasAdmission(d, e, a, run), Chained(e),
         e.idempotency = d.idempotency \cup {Record(a)}
  PROVE  Clean(e)
  <1> DEFINE len == Len(d.log)
  <1>1. /\ len \in Nat
        /\ DOMAIN d.log = 1..len
        /\ DOMAIN e.log = 1..(len + (IF run THEN 3 ELSE 1))
        /\ \A i \in 1..len : e.log[i] = d.log[i]
    BY Positions DEF HasAdmission
  <1>2. /\ e.log[len + 1].kind = "TASK_INGESTED" /\ e.log[len + 1].about = a.key
        /\ e.log[len + 1].id = a.event /\ e.log[len + 1].hash = a.hash
        /\ run => /\ e.log[len + 2].kind = "RECIPE_RUN_STARTED" /\ e.log[len + 2].about = a.key
                  /\ e.log[len + 3].kind = "RESULT_VERIFIED" /\ e.log[len + 3].about = a.key
    BY DEF HasAdmission, HasTask, IsTask, HasStart, HasResult
  <1> HIDE DEF len
  <1>3. /\ len + 1 \in DOMAIN e.log
        /\ run => len + 2 \in DOMAIN e.log /\ len + 3 \in DOMAIN e.log
        /\ \A i \in DOMAIN e.log :
             i \in DOMAIN d.log \/ i = len + 1 \/ (run /\ (i = len + 2 \/ i = len + 3))
    BY <1>1
  <1>4. \A i \in DOMAIN d.log : i \in DOMAIN e.log /\ e.log[i] = d.log[i]
    BY <1>1
  <1>5. /\ Record(a).key = a.key /\ Record(a).event = a.event
        /\ Record(a).hash = a.hash /\ Record(a).state = a.state
    BY DEF Record
  <1>6. \A r \in d.idempotency : r.key # a.key
    BY DEF HasAdmission, Unknown
  <1>7. \A i \in DOMAIN d.log : d.log[i].kind = "TASK_INGESTED" => d.log[i].about # a.key
    BY <1>6 DEF Clean, TaskHasRecord
  <1>8. TasksOnce(e)
    <2> SUFFICES ASSUME NEW i \in DOMAIN e.log, NEW j \in DOMAIN e.log,
                        e.log[i].kind = "TASK_INGESTED", e.log[j].kind = "TASK_INGESTED",
                        e.log[i].about = e.log[j].about
                 PROVE  i = j
      BY DEF TasksOnce
    <2>1. (i \in DOMAIN d.log \/ i = len + 1) /\ (j \in DOMAIN d.log \/ j = len + 1)
      BY <1>2, <1>3
    <2>2. QED
      BY <1>2, <1>4, <1>7, <2>1 DEF Clean, TasksOnce
  <1>9. KeysOnce(e)
    BY <1>5, <1>6 DEF Clean, KeysOnce
  <1>10. RecordHasTask(e)
    BY <1>2, <1>3, <1>4, <1>5 DEF Clean, RecordHasTask, IsTask
  <1>11. RecordHasRest(e)
    <2>0. PICK i \in States : HasMessage(d, e, a, i)
      BY DEF HasAdmission, HasReceipt
    <2>1. /\ e.warrants = d.warrants \cup {[event |-> a.event, request |-> a.request]}
          /\ e.messages = d.messages \cup {[key |-> a.key, integration |-> i]}
      BY <2>0 DEF HasAdmission, HasReceipt, HasMessage
    <2>2. ASSUME NEW r \in e.idempotency
          PROVE  /\ \E m \in e.messages : m.key = r.key
                 /\ \E w \in e.warrants : w.event = r.event
      <3>1. CASE r \in d.idempotency
        BY <2>1, <3>1 DEF Clean, RecordHasRest
      <3>2. CASE r = Record(a)
        <4>1. /\ [key |-> a.key, integration |-> i].key = r.key
              /\ [event |-> a.event, request |-> a.request].event = r.event
          BY <1>5, <3>2
        <4>2. QED
          BY <2>1, <4>1
      <3>3. QED
        BY <3>1, <3>2
    <2>3. QED
      BY <2>2 DEF RecordHasRest
  <1>12. TaskHasRecord(e)
    BY <1>2, <1>3, <1>4, <1>5 DEF Clean, TaskHasRecord
  <1>13. MessageHasRecord(e)
    <2>1. PICK i \in States : HasMessage(d, e, a, i)
      BY DEF HasAdmission, HasReceipt
    <2>2. QED
      BY <1>5, <2>1 DEF Clean, MessageHasRecord, HasMessage
  <1>14. StartHasResult(e)
    <2> SUFFICES ASSUME NEW i \in DOMAIN e.log, e.log[i].kind = "RECIPE_RUN_STARTED"
                 PROVE  /\ i + 1 \in DOMAIN e.log
                        /\ e.log[i + 1].kind = "RESULT_VERIFIED"
                        /\ e.log[i + 1].about = e.log[i].about
      BY DEF StartHasResult
    <2>1. CASE i \in DOMAIN d.log
      BY <1>4, <2>1 DEF Clean, StartHasResult
    <2>2. CASE run /\ i = len + 2
      <3>1. i + 1 = len + 3
        BY <1>1, <2>2
      <3>2. QED
        BY <1>2, <1>3, <2>2, <3>1
    <2>3. QED
      BY <1>2, <1>3, <2>1, <2>2
  <1>15. ResultHasStart(e)
    <2> SUFFICES ASSUME NEW i \in DOMAIN e.log, e.log[i].kind = "RESULT_VERIFIED"
                 PROVE  /\ i > 2
                        /\ e.log[i - 1].kind = "RECIPE_RUN_STARTED"
                        /\ e.log[i - 2].kind = "TASK_INGESTED"
                        /\ e.log[i - 2].about = e.log[i].about
      BY DEF ResultHasStart
    <2>1. CASE i \in DOMAIN d.log
      <3>1. d.log[i] = e.log[i] /\ i > 2
        BY <1>4, <2>1 DEF Clean, ResultHasStart
      <3>2. i - 1 \in DOMAIN d.log /\ i - 2 \in DOMAIN d.log
        BY <1>1, <2>1, <3>1
      <3>3. QED
        BY <1>4, <2>1, <3>1, <3>2 DEF Clean, ResultHasStart
    <2>2. CASE run /\ i = len + 3
      <3>1. i - 1 = len + 2 /\ i - 2 = len + 1 /\ i > 2
        BY <1>1, <2>2
      <3>2. QED
        BY <1>2, <2>2, <3>1
    <2>3. QED
      BY <1>2, <1>3, <2>1, <2>2
  <1>16. StateIsRun(e)
    <2>1. a.key \notin Ran(d)
      <3> SUFFICES ASSUME NEW i \in DOMAIN d.log, d.log[i].kind = "RESULT_VERIFIED"
                   PROVE  d.log[i].about # a.key
        BY DEF Ran
      <3>1. /\ i > 2
            /\ d.log[i - 2].kind = "TASK_INGESTED"
            /\ d.log[i - 2].about = d.log[i].about
        BY DEF Clean, ResultHasStart
      <3>2. i - 2 \in DOMAIN d.log
        BY <1>1, <3>1
      <3>3. QED
        BY <1>7, <3>1, <3>2
    <2>2. \A k : k \in Ran(e) <=> k \in Ran(d) \/ (run /\ k = a.key)
      <3>1. \A k : k \in Ran(e) <=> \E i \in DOMAIN e.log : e.log[i].kind = "RESULT_VERIFIED" /\ e.log[i].about = k
        BY DEF Ran
      <3>2. \A k : k \in Ran(d) <=> \E i \in DOMAIN d.log : d.log[i].kind = "RESULT_VERIFIED" /\ d.log[i].about = k
        BY DEF Ran
      <3>3. QED
        BY <1>2, <1>3, <1>4, <3>1, <3>2
    <2>3. run <=> a.state = "INTEGRATED"
      BY DEF HasAdmission
    <2>4. ASSUME NEW r \in e.idempotency PROVE r.state = "INTEGRATED" <=> r.key \in Ran(e)
      <3>1. CASE r \in d.idempotency
        BY <1>6, <2>2, <3>1 DEF Clean, StateIsRun
      <3>2. CASE r = Record(a)
        BY <1>5, <2>1, <2>2, <2>3, <3>2
      <3>3. QED
        BY <3>1, <3>2
    <2>5. ASSUME NEW m \in e.messages PROVE m.integration # "INGESTED" <=> m.key \in Ran(e)
      <3>0. PICK i \in States : HasMessage(d, e, a, i)
        BY DEF HasAdmission, HasReceipt
      <3>1. /\ i # "INGESTED" <=> a.state = "INTEGRATED"
            /\ e.messages = d.messages \cup {[key |-> a.key, integration |-> i]}
        BY <3>0 DEF HasMessage
      <3>2. CASE m \in d.messages
        <4>1. m.key # a.key
          BY <1>6, <3>2 DEF Clean, MessageHasRecord
        <4>2. QED
          BY <2>2, <3>2, <4>1 DEF Clean, StateIsRun
      <3>3. CASE m = [key |-> a.key, integration |-> i]
        <4>1. m.key = a.key /\ m.integration = i
          BY <3>3
        <4>2. QED
          BY <2>1, <2>2, <2>3, <3>1, <4>1
      <3>4. QED
        BY <2>5, <3>1, <3>2, <3>3
    <2>6. QED
      BY <2>4, <2>5 DEF StateIsRun
  <1>17. QED
    BY <1>8, <1>9, <1>10, <1>11, <1>12, <1>13, <1>14, <1>15, <1>16 DEF Clean

----------------------------------------------------------------------------
(* The writer's view *)

\* What a caller that asked for `asked' may be told: the stored response, or a
\* refusal because its key stands for something else.
Truthful(d, asked, a) ==
  IF a.how = "CONFLICT"
    THEN \E row \in d.idempotency : row.key = a.key /\ row.request # asked
    ELSE a.request = asked /\ Record(a) \in d.idempotency

\* The reply is the one to a task of this process, new to the database.
Answers(p) ==
  /\ reply[p].how = "NEW"
  /\ reply[p].key = job[p].request.key
  /\ reply[p].request = RequestHash(job[p].request)

InTask(p) ==
  /\ Answers(p)
  /\ Unknown(db, reply[p].key)
  /\ HasTask(db, tx, reply[p])
  /\ tx.idempotency = db.idempotency

AtReceipt(p) ==
  /\ InTask(p) /\ Grown(db, tx, 1)
  /\ tx.warrants = db.warrants /\ tx.messages = db.messages
  /\ reply[p].state = "INGESTED"

AtRun(p) ==
  /\ InTask(p) /\ Grown(db, tx, 1)
  /\ HasReceipt(db, tx, reply[p])
  /\ job[p].request.verify /\ reply[p].state = "INGESTED"

AtVerify(p) ==
  /\ InTask(p) /\ Grown(db, tx, 2)
  /\ HasStart(db, tx, reply[p].key)
  /\ HasReceipt(db, tx, reply[p])
  /\ job[p].request.verify /\ reply[p].state = "INGESTED"

AtRecord(p) == InTask(p) /\ HasAdmission(db, tx, reply[p], job[p].request.verify)

CommitsNote(p) == job[p].op = "append" /\ HasNote(db, tx, job[p].note)

CommitsTask(p) ==
  /\ job[p].op = "submit"
  /\ Answers(p)
  /\ HasAdmission(db, tx, reply[p], job[p].request.verify)
  /\ tx.idempotency = db.idempotency \cup {Record(reply[p])}

CommitsNothing(p) ==
  /\ job[p].op = "submit"
  /\ tx = db
  /\ Truthful(db, RequestHash(job[p].request), reply[p])

AtCommit(p) == CommitsNote(p) \/ CommitsTask(p) \/ CommitsNothing(p)

AtReply(p) == job[p].op = "submit" => Truthful(db, RequestHash(job[p].request), reply[p])

WriterInv(p) ==
  /\ pc[p] \in {"lookup", "append"} => tx = db
  /\ pc[p] = "receipt" => AtReceipt(p)
  /\ pc[p] = "run" => AtRun(p)
  /\ pc[p] = "verify" => AtVerify(p)
  /\ pc[p] = "record" => AtRecord(p)
  /\ pc[p] = "commit" => AtCommit(p)
  /\ pc[p] = "reply" => AtReply(p)

\* The inductive invariant, over SpineInv and ChainInv.
AdmissionInv == Clean(db) /\ \A p \in Processes : WriterInv(p)

\* Processes that hold no lock rely only on records, which are never removed.
LEMMA OutsiderKeeps ==
  ASSUME SpineInv, SpineInv', NEW q \in Processes, WriterInv(q), q \notin writer',
         pc'[q] = pc[q], job'[q] = job[q], reply'[q] = reply[q],
         db.idempotency \subseteq db'.idempotency
  PROVE  WriterInv(q)'
  <1>1. pc'[q] \notin Writing
    BY DEF SpineInv, StepInv
  <1>2. pc[q] = "reply" /\ AtReply(q) => AtReply(q)'
    BY DEF AtReply, Truthful
  <1>3. QED
    BY <1>1, <1>2 DEF WriterInv, Writing

\* A step of the writer leaves everyone else as they were.
LEMMA InsiderKeeps ==
  ASSUME SpineInv, SpineInv', AdmissionInv, NEW p \in Processes,
         pc[p] \in Writing, UNCHANGED <<db, writer, job>>,
         \A q \in Processes : q # p => pc'[q] = pc[q] /\ reply'[q] = reply[q],
         WriterInv(p)'
  PROVE  AdmissionInv'
  <1>1. \A q \in Processes : q # p => q \notin writer'
    BY DEF SpineInv, StepInv, LockInv
  <1>2. ASSUME NEW q \in Processes, q # p PROVE WriterInv(q)'
    BY <1>1, <1>2, OutsiderKeeps DEF AdmissionInv
  <1>3. QED
    BY <1>2 DEF AdmissionInv

LEMMA InitAdmission == Init => AdmissionInv
  BY InitChainInv DEF Init, EmptyDb, ChainInv, AdmissionInv, WriterInv, Clean, TasksOnce, KeysOnce,
     RecordHasTask, RecordHasRest, StateIsRun, TaskHasRecord, MessageHasRecord, StartHasResult, ResultHasStart

LEMMA StartAdmits ==
  ASSUME SpineInv, SpineInv', AdmissionInv, NEW p \in Processes, Start(p)
  PROVE  AdmissionInv'
  <1>1. /\ pc'[p] = "begin" /\ db' = db /\ writer' = writer /\ reply' = reply
        /\ p \notin writer
        /\ \A q \in Processes : q # p => pc'[q] = pc[q] /\ job'[q] = job[q]
    BY DEF SpineInv, TypeOK, StepInv, Start, StartSubmit, StartAppend, Goto, Writing
  <1>2. tx' = tx
    BY DEF Start, StartSubmit, StartAppend
  <1>3. ASSUME NEW q \in Processes PROVE WriterInv(q)'
    <2>1. CASE q = p
      BY <1>1, <2>1 DEF WriterInv
    <2>2. CASE q # p
      BY <1>1, <1>2, <2>2 DEF AdmissionInv, WriterInv, AtReceipt, AtRun, AtVerify, AtRecord, AtCommit,
         AtReply, InTask, Answers, CommitsNote, CommitsTask, CommitsNothing
    <2>3. QED
      BY <2>1, <2>2
  <1>4. QED
    BY <1>1, <1>3 DEF AdmissionInv

LEMMA BeginAdmits ==
  ASSUME SpineInv, SpineInv', AdmissionInv, NEW p \in Processes, Begin(p)
  PROVE  AdmissionInv'
  <1>1. WriterInv(p)'
    BY DEF SpineInv, TypeOK, Begin, Goto, WriterInv
  <1>2. ASSUME NEW q \in Processes, q # p PROVE WriterInv(q)'
    <2>1. pc'[q] = pc[q] /\ q \notin writer'
      BY <1>2 DEF SpineInv, TypeOK, Begin, Goto
    <2>2. QED
      BY <1>2, <2>1, OutsiderKeeps DEF AdmissionInv, Begin
  <1>3. QED
    BY <1>1, <1>2 DEF AdmissionInv, Begin

\* Whoever leaves, the writer included, takes nothing along.
LEMMA OverAdmits ==
  ASSUME SpineInv, SpineInv', AdmissionInv, NEW p \in Processes,
         Busy(p) \/ Rollback(p) \/ Crash(p) \/ Deliver(p)
  PROVE  AdmissionInv'
  <1>1. Over(p) /\ db' = db
    BY DEF Busy, Rollback, Crash, Deliver
  <1>2. /\ pc'[p] = "idle"
        /\ \A q \in Processes : q # p =>
             pc'[q] = pc[q] /\ job'[q] = job[q] /\ reply'[q] = reply[q]
    BY <1>1, OverKeeps DEF SpineInv
  <1>3. ASSUME NEW q \in Processes PROVE WriterInv(q)'
    <2>1. CASE q = p
      BY <1>2, <2>1 DEF WriterInv
    <2>2. CASE q # p /\ q \notin writer'
      BY <1>1, <1>2, <2>2, OutsiderKeeps DEF AdmissionInv
    <2>3. CASE q # p /\ q \in writer'
      <3>1. writer' \subseteq writer
        BY DEF Busy, Rollback, Crash, Deliver
      <3>2. p \notin writer /\ writer # {p}
        BY <2>3, <3>1 DEF SpineInv, LockInv
      <3>3. tx' = tx
        BY <3>2 DEF Busy, Rollback, Crash, Deliver, InTransaction
      <3>4. QED
        BY <1>1, <1>2, <2>3, <3>3 DEF AdmissionInv, WriterInv, AtReceipt, AtRun, AtVerify,
           AtRecord, AtCommit, AtReply, InTask, Answers, CommitsNote, CommitsTask, CommitsNothing
    <2>4. QED
      BY <2>1, <2>2, <2>3
  <1>4. QED
    BY <1>1, <1>3 DEF AdmissionInv

LEMMA ReplayAdmits ==
  ASSUME SpineInv, SpineInv', AdmissionInv, NEW p \in Processes, Replay(p)
  PROVE  AdmissionInv'
  <1>1. PICK row \in tx.idempotency : row.request = RequestHash(job[p].request) /\ Respond(p, "REPLAY", row)
    BY DEF Replay
  <1>2. row \in Records
    BY DEF SpineInv, TypeOK, Databases
  <1>3. /\ pc[p] = "lookup" /\ pc'[p] = "commit" /\ tx = db /\ tx' = tx /\ db' = db /\ job' = job
        /\ \A q \in Processes : q # p => pc'[q] = pc[q] /\ reply'[q] = reply[q]
    BY <1>1 DEF SpineInv, TypeOK, Replay, Respond, Goto, AdmissionInv, WriterInv
  <1>4. /\ reply'[p].how = "REPLAY"
        /\ reply'[p].request = row.request
        /\ Record(reply'[p]) = row
    BY <1>1, <1>2 DEF SpineInv, TypeOK, Respond, Record, Records
  <1>5. Truthful(db', RequestHash(job'[p].request), reply'[p])
    BY <1>1, <1>3, <1>4 DEF Truthful
  <1>6. CommitsNothing(p)'
    BY <1>3, <1>5, SubmitJob DEF CommitsNothing
  <1>7. WriterInv(p)'
    BY <1>3, <1>6 DEF WriterInv, AtCommit
  <1>8. QED
    BY <1>3, <1>7, InsiderKeeps DEF Replay, Writing

LEMMA ConflictAdmits ==
  ASSUME SpineInv, SpineInv', AdmissionInv, NEW p \in Processes, Conflict(p)
  PROVE  AdmissionInv'
  <1>1. /\ pc[p] = "lookup" /\ pc'[p] = "commit" /\ tx = db /\ tx' = tx /\ db' = db /\ job' = job
        /\ \A q \in Processes : q # p => pc'[q] = pc[q] /\ reply'[q] = reply[q]
        /\ reply'[p].how = "CONFLICT" /\ reply'[p].key = job[p].request.key
    BY DEF SpineInv, TypeOK, Conflict, Respond, Goto, AdmissionInv, WriterInv
  <1>2. Truthful(db', RequestHash(job'[p].request), reply'[p])
    BY <1>1 DEF Truthful, Conflict
  <1>3. CommitsNothing(p)'
    BY <1>1, <1>2, SubmitJob DEF CommitsNothing
  <1>4. WriterInv(p)'
    BY <1>1, <1>3 DEF WriterInv, AtCommit
  <1>5. QED
    BY <1>1, <1>4, InsiderKeeps DEF Conflict, Writing

LEMMA IngestAdmits ==
  ASSUME SpineInv, SpineInv', AdmissionInv, NEW p \in Processes, NEW ts \in Times, Ingest(p, ts)
  PROVE  AdmissionInv'
  <1> DEFINE r == job[p].request
             row == EventRow(tx, ts, "TASK_INGESTED", r.key)
  <1>1. /\ pc[p] = "lookup" /\ pc'[p] = "receipt" /\ tx = db /\ db' = db /\ job' = job
        /\ tx' = WithEvent(tx, row)
        /\ \A known \in tx.idempotency : known.key # r.key
        /\ \A q \in Processes : q # p => pc'[q] = pc[q] /\ reply'[q] = reply[q]
    BY DEF SpineInv, TypeOK, Ingest, Respond, Goto, AdmissionInv, WriterInv
  <1>2. r.key \in Topics /\ "TASK_INGESTED" \in Kinds
    BY <1>1, SubmitJob DEF Kinds, KernelKinds
  <1>3. /\ Grown(db, tx', 1)
        /\ tx'.log[Len(db.log) + 1] = row
        /\ row.kind = "TASK_INGESTED" /\ row.about = r.key
        /\ tx'.warrants = db.warrants /\ tx'.messages = db.messages
        /\ tx'.idempotency = db.idempotency
    <2>1. tx \in Databases
      BY DEF SpineInv, TypeOK
    <2>2. QED
      BY <1>1, <1>2, <2>1, RowAdded
  <1> HIDE DEF row
  <1>4. /\ reply'[p].how = "NEW" /\ reply'[p].key = r.key /\ reply'[p].request = RequestHash(r)
        /\ reply'[p].event = row.id /\ reply'[p].hash = row.hash /\ reply'[p].state = "INGESTED"
    BY DEF SpineInv, TypeOK, Ingest, Respond, row
  <1>5. InTask(p)'
    BY <1>1, <1>3, <1>4 DEF InTask, Answers, Unknown, HasTask, IsTask
  <1>6. WriterInv(p)'
    BY <1>1, <1>3, <1>4, <1>5 DEF WriterInv, AtReceipt
  <1>7. QED
    BY <1>1, <1>6, InsiderKeeps DEF Ingest, Writing

LEMMA ReceiptAdmits ==
  ASSUME SpineInv, SpineInv', AdmissionInv, NEW p \in Processes, Receipt(p)
  PROVE  AdmissionInv'
  <1>1. /\ pc[p] = "receipt" /\ AtReceipt(p) /\ db' = db /\ job' = job /\ reply' = reply
        /\ pc'[p] = (IF job[p].request.verify THEN "run" ELSE "record")
        /\ \A q \in Processes : q # p => pc'[q] = pc[q]
    BY DEF SpineInv, TypeOK, Receipt, Goto, AdmissionInv, WriterInv
  <1>2. /\ tx'.log = tx.log /\ tx'.idempotency = tx.idempotency
        /\ tx'.warrants = tx.warrants \cup {[event |-> reply[p].event, request |-> RequestHash(job[p].request)]}
        /\ tx'.messages = tx.messages \cup {[key |-> job[p].request.key, integration |-> "INGESTED"]}
    BY DEF SpineInv, TypeOK, Databases, Receipt
  <1>3. HasReceipt(db, tx', reply[p])
    <2>1. HasMessage(db, tx', reply[p], "INGESTED")
      BY <1>1, <1>2 DEF AtReceipt, InTask, Answers, HasMessage
    <2>2. "INGESTED" \in States
      BY DEF States
    <2>3. QED
      BY <1>1, <1>2, <2>1, <2>2 DEF AtReceipt, InTask, Answers, HasReceipt
  <1>4. InTask(p)' /\ Grown(db', tx', 1)
    BY <1>1, <1>2 DEF AtReceipt, InTask, Answers, HasTask, Grown
  <1>5. WriterInv(p)'
    <2>1. CASE job[p].request.verify
      BY <1>1, <1>3, <1>4, <2>1 DEF WriterInv, AtRun, AtReceipt
    <2>2. CASE ~job[p].request.verify
      <3>1. HasAdmission(db', tx', reply'[p], job'[p].request.verify)
        BY <1>1, <1>3, <1>4, <2>2 DEF HasAdmission, InTask, AtReceipt
      <3>2. QED
        BY <1>1, <1>4, <2>2, <3>1 DEF WriterInv, AtRecord
    <2>3. QED
      BY <2>1, <2>2
  <1>6. QED
    BY <1>1, <1>5, InsiderKeeps DEF Receipt, Writing

\* A row appended behind an admission in progress leaves its earlier rows alone.
LEMMA RowBehind ==
  ASSUME NEW d \in Databases, NEW e \in Databases, NEW f \in Databases,
         NEW m \in {1, 2}, Grown(d, e, m), Grown(e, f, 1)
  PROVE  /\ Grown(d, f, m + 1)
         /\ \A i \in 1..(Len(d.log) + m) : f.log[i] = e.log[i]
         /\ Len(d.log) \in Nat
         /\ Len(e.log) = Len(d.log) + m
  <1>1. Len(d.log) \in Nat
    BY DEF Databases
  <1>2. Grown(d, f, m + 1) /\ \A i \in 1..(Len(d.log) + m) : f.log[i] = e.log[i]
    <2>1. m \in Nat /\ 1 \in Nat
      OBVIOUS
    <2> QED
      BY <2>1, GrownTwice
  <1>3. QED
    BY <1>1, <1>2 DEF Grown

LEMMA StartRunAdmits ==
  ASSUME SpineInv, SpineInv', AdmissionInv, NEW p \in Processes, NEW ts \in Times, StartRun(p, ts)
  PROVE  AdmissionInv'
  <1> DEFINE k == job[p].request.key
             row == EventRow(tx, ts, "RECIPE_RUN_STARTED", k)
             len == Len(db.log)
  <1>1. /\ pc[p] = "run" /\ pc'[p] = "verify" /\ AtRun(p)
        /\ db' = db /\ job' = job /\ reply' = reply /\ tx' = WithEvent(tx, row)
        /\ \A q \in Processes : q # p => pc'[q] = pc[q]
    BY DEF SpineInv, TypeOK, StartRun, Goto, AdmissionInv, WriterInv
  <1>2. tx \in Databases /\ tx' \in Databases /\ db \in Databases
    BY DEF SpineInv, TypeOK
  <1>3. k \in Topics /\ "RECIPE_RUN_STARTED" \in Kinds
    BY <1>1, SubmitJob DEF Kinds, KernelKinds
  <1>4. /\ Grown(tx, tx', 1)
        /\ tx'.log[Len(tx.log) + 1] = row
        /\ row.kind = "RECIPE_RUN_STARTED" /\ row.about = k
        /\ tx'.warrants = tx.warrants /\ tx'.messages = tx.messages
        /\ tx'.idempotency = tx.idempotency
    BY <1>1, <1>2, <1>3, RowAdded
  <1> HIDE DEF row
  <1>5. Grown(db, tx, 1) /\ reply[p].key = k
    BY <1>1 DEF AtRun, InTask, Answers
  <1>6. /\ Grown(db, tx', 2)
        /\ tx'.log[len + 1] = tx.log[len + 1]
        /\ tx'.log[len + 2] = row
    <2>1. /\ Grown(db, tx', 1 + 1)
          /\ \A i \in 1..(len + 1) : tx'.log[i] = tx.log[i]
          /\ len \in Nat /\ Len(tx.log) = len + 1
      BY <1>2, <1>4, <1>5, RowBehind
    <2>2. 1 + 1 = 2 /\ len + 1 \in 1..(len + 1) /\ Len(tx.log) + 1 = len + 2
      BY <2>1
    <2>3. QED
      BY <1>4, <2>1, <2>2
  <1>7. InTask(p)' /\ HasStart(db', tx', reply'[p].key) /\ HasReceipt(db', tx', reply'[p])
    <2>1. InTask(p)' /\ HasStart(db', tx', reply'[p].key)
      BY <1>1, <1>4, <1>5, <1>6 DEF AtRun, InTask, Answers, HasTask, HasStart
    <2>2. HasReceipt(db', tx', reply'[p])
      BY <1>1, <1>4 DEF AtRun, HasReceipt, HasMessage
    <2>3. QED
      BY <2>1, <2>2
  <1>8. WriterInv(p)'
    BY <1>1, <1>6, <1>7 DEF WriterInv, AtRun, AtVerify
  <1>9. QED
    BY <1>1, <1>8, InsiderKeeps DEF StartRun, Writing

LEMMA FinishRunAdmits ==
  ASSUME SpineInv, SpineInv', AdmissionInv, NEW p \in Processes, NEW ts \in Times,
         FinishRun(p, ts)
  PROVE  AdmissionInv'
  <1> DEFINE k == job[p].request.key
             row == EventRow(tx, ts, "RESULT_VERIFIED", k)
             e == WithEvent(tx, row)
             len == Len(db.log)
  <1>1. /\ pc[p] = "verify" /\ pc'[p] = "record" /\ AtVerify(p)
        /\ db' = db /\ job' = job
        /\ \A q \in Processes : q # p => pc'[q] = pc[q] /\ reply'[q] = reply[q]
    BY DEF SpineInv, TypeOK, FinishRun, Goto, AdmissionInv, WriterInv
  <1>2. tx \in Databases /\ tx' \in Databases /\ db \in Databases
    BY DEF SpineInv, TypeOK
  <1>3. k \in Topics /\ k \in Keys /\ "RESULT_VERIFIED" \in Kinds
    BY <1>1, SubmitJob DEF Kinds, KernelKinds
  <1>4. /\ e \in Databases
        /\ Grown(tx, e, 1)
        /\ e.log[Len(tx.log) + 1] = row
        /\ row.kind = "RESULT_VERIFIED" /\ row.about = k
        /\ e.warrants = tx.warrants /\ e.messages = tx.messages
        /\ e.idempotency = tx.idempotency
    BY <1>2, <1>3, RowAdded, RowTyped
  <1>5. PICK o \in Outcomes(tx.log) :
          tx' = [e EXCEPT !.messages = {IF m.key = k THEN [m EXCEPT !.integration = o] ELSE m : m \in @}]
    BY DEF FinishRun
  <1>6. o \in States /\ o # "INGESTED"
    BY <1>5 DEF Outcomes, States
  <1> HIDE DEF e, row
  <1>7. /\ tx'.log = e.log /\ tx'.warrants = e.warrants /\ tx'.idempotency = e.idempotency
        /\ tx'.messages = {IF m.key = k THEN [m EXCEPT !.integration = o] ELSE m : m \in tx.messages}
    BY <1>4, <1>5 DEF Databases
  <1>8. /\ \A m \in db.messages : m.key # k /\ m \in [key : Keys, integration : States]
        /\ tx.messages = db.messages \cup {[key |-> k, integration |-> "INGESTED"]}
    <2>1. reply[p].key = k /\ reply[p].state = "INGESTED" /\ HasReceipt(db, tx, reply[p])
      BY <1>1 DEF AtVerify, InTask, Answers
    <2>2. \A r \in db.idempotency : r.key # k
      BY <1>1, <2>1 DEF AtVerify, InTask, Unknown
    <2>3. \A m \in db.messages : m.key # k
      BY <2>2 DEF AdmissionInv, Clean, MessageHasRecord
    <2>4. PICK i \in States : HasMessage(db, tx, reply[p], i)
      BY <2>1 DEF HasReceipt
    <2>5. i = "INGESTED"
      BY <2>1, <2>4 DEF HasMessage
    <2>6. tx.messages = db.messages \cup {[key |-> k, integration |-> "INGESTED"]}
      BY <2>1, <2>4, <2>5 DEF HasMessage
    <2>7. QED
      BY <1>2, <2>3, <2>6 DEF Databases
  <1>9. tx'.messages = db.messages \cup {[key |-> k, integration |-> o]}
    <2> DEFINE F(m) == IF m.key = k THEN [m EXCEPT !.integration = o] ELSE m
               new == [key |-> k, integration |-> "INGESTED"]
    <2>1. \A m \in db.messages : F(m) = m
      BY <1>8
    <2>2. F(new) = [key |-> k, integration |-> o]
      OBVIOUS
    <2>3. tx'.messages = {F(m) : m \in db.messages \cup {new}}
      BY <1>7, <1>8
    <2> HIDE DEF F, new
    <2>4. QED
      BY <2>1, <2>2, <2>3
  <1>10. /\ Grown(db, tx, 2) /\ reply[p].key = k
         /\ Grown(tx, tx', 1)
    BY <1>1, <1>4, <1>7 DEF AtVerify, InTask, Answers, Grown
  <1>11. /\ Grown(db, tx', 3)
         /\ tx'.log[len + 1] = tx.log[len + 1]
         /\ tx'.log[len + 2] = tx.log[len + 2]
         /\ tx'.log[len + 3] = row
    <2>1. /\ Grown(db, tx', 2 + 1)
          /\ \A i \in 1..(len + 2) : tx'.log[i] = tx.log[i]
          /\ len \in Nat /\ Len(tx.log) = len + 2
      BY <1>2, <1>10, RowBehind
    <2>2. /\ 2 + 1 = 3 /\ len + 1 \in 1..(len + 2) /\ len + 2 \in 1..(len + 2)
          /\ Len(tx.log) + 1 = len + 3
      BY <2>1
    <2>3. QED
      BY <1>4, <1>7, <2>1, <2>2
  <1>12. /\ reply'[p].how = reply[p].how /\ reply'[p].key = reply[p].key
         /\ reply'[p].request = reply[p].request /\ reply'[p].event = reply[p].event
         /\ reply'[p].hash = reply[p].hash /\ reply'[p].state = "INTEGRATED"
    <2>1. reply[p] \in Acks
      BY <1>1 DEF SpineInv, StepInv
    <2>2. QED
      BY <2>1 DEF SpineInv, TypeOK, FinishRun, Acks
  <1>13. InTask(p)'
    BY <1>1, <1>4, <1>7, <1>11, <1>12 DEF AtVerify, InTask, Answers, HasTask
  <1>14. HasAdmission(db', tx', reply'[p], job'[p].request.verify)
    <2>1. HasStart(db', tx', reply'[p].key) /\ HasResult(db', tx', reply'[p].key)
      BY <1>1, <1>4, <1>10, <1>11, <1>12 DEF AtVerify, HasStart, HasResult
    <2>2. HasReceipt(db', tx', reply'[p])
      <3>1. HasMessage(db', tx', reply'[p], o)
        BY <1>1, <1>6, <1>9, <1>10, <1>12 DEF HasMessage
      <3>2. tx'.warrants = db'.warrants \cup {[event |-> reply'[p].event, request |-> reply'[p].request]}
        BY <1>1, <1>4, <1>7, <1>12 DEF AtVerify, HasReceipt
      <3>3. QED
        BY <1>6, <3>1, <3>2 DEF HasReceipt
    <2>3. job'[p].request.verify
      BY <1>1 DEF AtVerify
    <2>4. QED
      BY <1>1, <1>11, <1>12, <1>13, <2>1, <2>2, <2>3 DEF HasAdmission, InTask
  <1>15. WriterInv(p)'
    BY <1>1, <1>13, <1>14 DEF WriterInv, AtRecord
  <1>16. QED
    BY <1>1, <1>15, InsiderKeeps DEF FinishRun, Writing

LEMMA RecordAdmits ==
  ASSUME SpineInv, SpineInv', AdmissionInv, NEW p \in Processes, RecordIdempotency(p)
  PROVE  AdmissionInv'
  <1>1. /\ pc[p] = "record" /\ pc'[p] = "commit" /\ AtRecord(p)
        /\ db' = db /\ job' = job /\ reply' = reply
        /\ \A q \in Processes : q # p => pc'[q] = pc[q]
    BY DEF SpineInv, TypeOK, RecordIdempotency, Goto, AdmissionInv, WriterInv
  <1>2. /\ tx'.log = tx.log /\ tx'.warrants = tx.warrants /\ tx'.messages = tx.messages
        /\ tx'.idempotency = tx.idempotency \cup {Record(reply[p])}
    BY DEF SpineInv, TypeOK, Databases, RecordIdempotency, Record
  <1>3. CommitsTask(p)'
    <2>1. job[p].op = "submit"
      BY <1>1, SubmitJob
    <2>2. HasAdmission(db', tx', reply'[p], job'[p].request.verify)
      <3>1. HasAdmission(db, tx, reply[p], job[p].request.verify)
        BY <1>1 DEF AtRecord
      <3>2. HasReceipt(db, tx', reply[p])
        BY <1>2, <3>1 DEF HasAdmission, HasReceipt, HasMessage
      <3>3. /\ \A n : Grown(db, tx, n) => Grown(db, tx', n)
            /\ HasTask(db, tx', reply[p]) <=> HasTask(db, tx, reply[p])
            /\ HasStart(db, tx', reply[p].key) <=> HasStart(db, tx, reply[p].key)
            /\ HasResult(db, tx', reply[p].key) <=> HasResult(db, tx, reply[p].key)
        BY <1>2 DEF Grown, HasTask, HasStart, HasResult
      <3>4. QED
        BY <1>1, <3>1, <3>2, <3>3 DEF HasAdmission
    <2>3. QED
      BY <1>1, <1>2, <2>1, <2>2 DEF AtRecord, InTask, Answers, CommitsTask
  <1>4. WriterInv(p)'
    BY <1>1, <1>3 DEF WriterInv, AtCommit
  <1>5. QED
    BY <1>1, <1>4, InsiderKeeps DEF RecordIdempotency, Writing

LEMMA AppendAdmits ==
  ASSUME SpineInv, SpineInv', AdmissionInv, NEW p \in Processes, NEW ts \in Times, AppendEvent(p, ts)
  PROVE  AdmissionInv'
  <1>1. /\ pc[p] = "append" /\ pc'[p] = "commit" /\ tx = db
        /\ db' = db /\ job' = job /\ reply' = reply
        /\ \A q \in Processes : q # p => pc'[q] = pc[q]
    BY DEF SpineInv, TypeOK, AppendEvent, Goto, AdmissionInv, WriterInv
  <1>2. job[p] \in [op : {"append"}, note : Notes] /\ tx \in Databases
    BY <1>1 DEF SpineInv, TypeOK, StepInv, Jobs, NoJob
  <1>3. job[p].note.kind \in Kinds /\ job[p].note.about \in Topics
    BY <1>2 DEF Kinds, Topics
  <1>4. HasNote(db, tx', job[p].note)
    <2> DEFINE n == job[p].note
    <2>1. tx' = WithEvent(tx, EventRow(tx, ts, n.kind, n.about))
      BY DEF AppendEvent
    <2>2. /\ Grown(tx, tx', 1)
          /\ tx'.log[Len(tx.log) + 1].kind = n.kind
          /\ tx'.log[Len(tx.log) + 1].about = n.about
          /\ tx'.warrants = tx.warrants /\ tx'.messages = tx.messages
          /\ tx'.idempotency = tx.idempotency
      BY SMTT(30), <1>2, <1>3, <2>1, RowAdded
    <2>3. QED
      BY <1>1, <2>2 DEF HasNote
  <1>5. WriterInv(p)'
    BY <1>1, <1>2, <1>4 DEF WriterInv, AtCommit, CommitsNote
  <1>6. QED
    BY <1>1, <1>5, InsiderKeeps DEF AppendEvent, Writing

\* A commit makes a clean database of a clean one, and its records remain.
LEMMA CommitAdmits ==
  ASSUME SpineInv, SpineInv', ChainInv, AdmissionInv, NEW p \in Processes, Commit(p)
  PROVE  AdmissionInv' /\ db.idempotency \subseteq db'.idempotency
  <1>1. /\ pc[p] = "commit" /\ pc'[p] = "reply" /\ AtCommit(p)
        /\ db' = tx /\ writer' = {} /\ job' = job /\ reply' = reply
        /\ \A q \in Processes : q # p => pc'[q] = pc[q]
    BY DEF SpineInv, TypeOK, Commit, Goto, AdmissionInv, WriterInv
  <1>2. db \in Databases /\ tx \in Databases /\ Chained(tx) /\ Clean(db)
    BY DEF SpineInv, TypeOK, ChainInv, AdmissionInv
  <1>3. /\ Clean(db') /\ db.idempotency \subseteq db'.idempotency
        /\ AtReply(p)'
    <2>1. CASE CommitsNote(p)
      <3>1. job[p].note \in Notes
        BY <2>1 DEF SpineInv, TypeOK, CommitsNote, Jobs, NoJob
      <3>2. HasNote(db, tx, job[p].note) /\ job[p].op = "append"
        BY <2>1 DEF CommitsNote
      <3>3. Clean(tx)
        BY <1>2, <3>1, <3>2, CleanNote
      <3>4. QED
        BY <1>1, <3>2, <3>3 DEF HasNote, AtReply
    <2>2. CASE CommitsTask(p)
      <3>1. reply[p] \in Acks /\ job[p].request.verify \in BOOLEAN
        <4>1. job[p].op = "submit" /\ reply[p].how = "NEW"
          BY <2>2 DEF CommitsTask, Answers
        <4>2. job[p].request \in Requests
          BY <4>1 DEF SpineInv, TypeOK, Jobs, NoJob
        <4>3. QED
          BY <1>1, <4>1, <4>2, VerifyIsBoolean DEF SpineInv, StepInv, Replies, Nacks
      <3>2. Clean(tx)
        BY <1>2, <2>2, <3>1, CleanAdmission DEF CommitsTask
      <3>3. AtReply(p)'
        BY <1>1, <2>2 DEF CommitsTask, Answers, AtReply, Truthful
      <3>4. QED
        BY <1>1, <2>2, <3>2, <3>3 DEF CommitsTask
    <2>3. CASE CommitsNothing(p)
      BY <1>1, <1>2, <2>3 DEF CommitsNothing, AtReply
    <2>4. QED
      BY <1>1, <2>1, <2>2, <2>3 DEF AtCommit
  <1>4. WriterInv(p)'
    BY <1>1, <1>3 DEF WriterInv
  <1>5. ASSUME NEW q \in Processes, q # p PROVE WriterInv(q)'
    BY <1>1, <1>3, <1>5, OutsiderKeeps DEF AdmissionInv
  <1>6. QED
    BY <1>3, <1>4, <1>5 DEF AdmissionInv

\* Every step keeps the invariant and every record.
LEMMA AdmissionStep ==
  ASSUME SpineInv, ChainInv, AdmissionInv, [Next]_vars
  PROVE  AdmissionInv' /\ db.idempotency \subseteq db'.idempotency
  <1>1. SpineInv'
    BY SpineStep
  <1>2. CASE UNCHANGED vars
    BY <1>2 DEF vars, AdmissionInv, WriterInv, AtReceipt, AtRun, AtVerify, AtRecord, AtCommit,
       AtReply, InTask, Answers, CommitsNote, CommitsTask, CommitsNothing
  <1>3. CASE Next
    <2>1. PICK p \in Processes : Start(p) \/ Work(p) \/ Crash(p)
      BY <1>3 DEF Next
    <2>2. CASE Start(p)
      BY <1>1, <2>2, StartAdmits DEF Start, StartSubmit, StartAppend
    <2>3. CASE Begin(p)
      BY <1>1, <2>3, BeginAdmits DEF Begin
    <2>4. CASE Busy(p) \/ Rollback(p) \/ Crash(p) \/ Deliver(p)
      BY <1>1, <2>4, OverAdmits DEF Busy, Rollback, Crash, Deliver
    <2>5. CASE Replay(p) \/ Conflict(p)
      BY <1>1, <2>5, ReplayAdmits, ConflictAdmits DEF Replay, Conflict
    <2>6. CASE Receipt(p) \/ RecordIdempotency(p)
      BY <1>1, <2>6, ReceiptAdmits, RecordAdmits DEF Receipt, RecordIdempotency
    <2>7. ASSUME NEW ts \in Times,
                 Ingest(p, ts) \/ StartRun(p, ts) \/ FinishRun(p, ts) \/ AppendEvent(p, ts)
          PROVE  AdmissionInv' /\ db' = db
      BY <1>1, <2>7, IngestAdmits, StartRunAdmits, FinishRunAdmits, AppendAdmits
         DEF Ingest, StartRun, FinishRun, AppendEvent
    <2>8. CASE Commit(p)
      BY <1>1, <2>8, CommitAdmits
    <2>9. QED
      BY <2>1, <2>2, <2>3, <2>4, <2>5, <2>6, <2>7, <2>8 DEF Work
  <1>4. QED
    BY <1>2, <1>3

THEOREM AdmissionInvariant == Spec => [](SpineInv /\ ChainInv /\ AdmissionInv)
  <1>1. Init => ChainInv /\ AdmissionInv
    BY InitChainInv, InitAdmission
  <1>2. SpineInv /\ ChainInv /\ AdmissionInv /\ [Next]_vars => ChainInv' /\ AdmissionInv'
    BY ChainStep, AdmissionStep
  <1>3. QED
    BY <1>1, <1>2, SpineInvariant, PTL DEF Spec

----------------------------------------------------------------------------
(* What the invariant says of the log *)

\* A clean database holds a task whole or not at all.
LEMMA CleanIsWhole ==
  ASSUME TypeOK, Clean(db)
  PROVE  OneIngestPerKey /\ AdmissionIsWhole /\ RunsAreWhole
  <1>1. OneIngestPerKey
    BY DEF Clean, TasksOnce, OneIngestPerKey
  <1>2. AdmissionIsWhole
    <2> SUFFICES ASSUME NEW k \in Keys
                 PROVE  LET tasks == {db.log[i].id : i \in Of(db, "TASK_INGESTED", k)}
                        IN  /\ tasks # {} <=> \E m \in db.messages : m.key = k
                            /\ tasks = {r.event : r \in {x \in db.idempotency : x.key = k}}
                            /\ \A id \in tasks : \E w \in db.warrants : w.event = id
      BY DEF AdmissionIsWhole
    <2> DEFINE tasks == {db.log[i].id : i \in Of(db, "TASK_INGESTED", k)}
               recorded == {r.event : r \in {x \in db.idempotency : x.key = k}}
    <2>1. \A i \in Of(db, "TASK_INGESTED", k) :
            \E r \in db.idempotency : r.key = k /\ r.event = db.log[i].id
      BY DEF Of, Clean, TaskHasRecord
    <2>2. \A r \in db.idempotency : r.key = k =>
            \E i \in Of(db, "TASK_INGESTED", k) : db.log[i].id = r.event
      BY DEF Of, Clean, RecordHasTask, IsTask
    <2>3. tasks = recorded
      BY <2>1, <2>2
    <2>4. recorded # {} <=> \E m \in db.messages : m.key = k
      BY DEF Clean, RecordHasRest, MessageHasRecord
    <2>5. \A id \in recorded : \E w \in db.warrants : w.event = id
      BY DEF Clean, RecordHasRest
    <2>6. QED
      BY <2>3, <2>4, <2>5
  <1>3. RunsAreWhole
    BY DEF Clean, StartHasResult, ResultHasStart, RunsAreWhole
  <1>4. QED
    BY <1>1, <1>2, <1>3

\* A key enters the log once, whoever submits it, fails or dies.
THEOREM OneIngestTheorem == Spec => []OneIngestPerKey
  <1>1. SpineInv /\ AdmissionInv => OneIngestPerKey
    BY CleanIsWhole DEF SpineInv, AdmissionInv
  <1>2. QED
    BY <1>1, AdmissionInvariant, PTL

\* Event, warrant, message and idempotency record stand together or not at all.
THEOREM WholeTheorem == Spec => []AdmissionIsWhole
  <1>1. SpineInv /\ AdmissionInv => AdmissionIsWhole
    BY CleanIsWhole DEF SpineInv, AdmissionInv
  <1>2. QED
    BY <1>1, AdmissionInvariant, PTL

\* A run stands directly behind its task, start and result together.
THEOREM RunsTheorem == Spec => []RunsAreWhole
  <1>1. SpineInv /\ AdmissionInv => RunsAreWhole
    BY CleanIsWhole DEF SpineInv, AdmissionInv
  <1>2. QED
    BY <1>1, AdmissionInvariant, PTL

----------------------------------------------------------------------------
(* What callers are told *)

ToldInv == \A t \in told : Truthful(db, t.asked, t.answer)

LEMMA ToldStep ==
  ASSUME SpineInv, ChainInv, AdmissionInv, ToldInv, [Next]_vars
  PROVE  ToldInv'
  <1>1. db.idempotency \subseteq db'.idempotency
    BY AdmissionStep
  <1>2. \A t \in told : Truthful(db', t.asked, t.answer)
    BY <1>1 DEF ToldInv, Truthful
  <1>3. ASSUME NEW t \in told', t \notin told PROVE Truthful(db', t.asked, t.answer)
    <2>1. PICK p \in Processes : Deliver(p)
      BY <1>3, ZenonT(40) DEF Next, vars, Start, Work, StartSubmit, StartAppend, Begin, Busy, Replay, Conflict,
         Ingest, Receipt, StartRun, FinishRun, RecordIdempotency, AppendEvent, Commit, Rollback, Crash
    <2>2. job[p].op # "append" /\ t = [asked |-> RequestHash(job[p].request), answer |-> reply[p]]
      BY <1>3, <2>1 DEF Deliver
    <2>3. job[p].op = "submit" /\ pc[p] = "reply"
      BY <2>1, <2>2 DEF SpineInv, TypeOK, StepInv, Deliver, Jobs, NoJob
    <2>4. Truthful(db, t.asked, t.answer)
      BY <2>2, <2>3 DEF AdmissionInv, WriterInv, AtReply
    <2>5. QED
      BY <1>1, <2>4 DEF Truthful
  <1>4. QED
    BY <1>2, <1>3 DEF ToldInv

THEOREM ToldInvariant == Spec => []ToldInv
  <1>1. Init => ToldInv
    BY DEF Init, ToldInv
  <1>2. SpineInv /\ ChainInv /\ AdmissionInv /\ ToldInv /\ [Next]_vars => ToldInv'
    BY ToldStep
  <1>3. QED
    BY <1>1, <1>2, AdmissionInvariant, PTL DEF Spec

\* The event and the hash of an acknowledgement are in the committed log.
THEOREM AckTheorem == Spec => []AckIsInLog
  <1>1. AdmissionInv /\ ToldInv => AckIsInLog
    BY DEF AdmissionInv, Clean, RecordHasTask, ToldInv, Truthful, Record, AckIsInLog, IsAck
  <1>2. QED
    BY <1>1, AdmissionInvariant, ToldInvariant, PTL

\* INTEGRATED is told of tasks that have run, and only their messages have moved
\* on, to whatever the run found.
THEOREM StateTheorem == Spec => []StateToldMeansRun
  <1>1. AdmissionInv /\ ToldInv => StateToldMeansRun
    <2> SUFFICES ASSUME AdmissionInv, ToldInv PROVE StateToldMeansRun
      OBVIOUS
    <2>1. /\ \A r \in db.idempotency : r.state = "INTEGRATED" <=> r.key \in Ran(db)
          /\ \A m \in db.messages : m.integration # "INGESTED" <=> m.key \in Ran(db)
      BY DEF AdmissionInv, Clean, StateIsRun
    <2>2. ASSUME NEW t \in told, IsAck(t)
          PROVE  t.answer.state = "INTEGRATED" <=> t.answer.key \in Ran(db)
      <3>1. Record(t.answer) \in db.idempotency
        BY <2>2 DEF ToldInv, Truthful, IsAck
      <3>2. Record(t.answer).state = t.answer.state /\ Record(t.answer).key = t.answer.key
        BY DEF Record
      <3>3. QED
        BY <2>1, <3>1, <3>2
    <2>3. QED
      BY <2>1, <2>2 DEF StateToldMeansRun
  <1>2. QED
    BY <1>1, AdmissionInvariant, ToldInvariant, PTL

\* Callers of one key hear of one event if they asked for the same, and a
\* caller is refused only if it asked for something else.
THEOREM RepliesTheorem == Spec => []RepliesAgree
  <1>1. AdmissionInv /\ ToldInv => RepliesAgree
    <2> SUFFICES ASSUME AdmissionInv, ToldInv, NEW t \in told, NEW u \in told,
                        t.answer.key = u.answer.key, IsAck(t)
                 PROVE  /\ IsAck(u) => /\ t.asked = u.asked
                                       /\ t.answer.event = u.answer.event
                                       /\ t.answer.hash = u.answer.hash
                        /\ ~IsAck(u) => t.asked # u.asked
      BY DEF RepliesAgree
    <2>1. \A r, s \in db.idempotency : r.key = s.key => r = s
      BY DEF AdmissionInv, Clean, KeysOnce
    <2>2. t.answer.request = t.asked /\ Record(t.answer) \in db.idempotency
      BY DEF ToldInv, Truthful, IsAck
    <2>3. CASE IsAck(u)
      <3>1. u.answer.request = u.asked /\ Record(u.answer) \in db.idempotency
        BY <2>3 DEF ToldInv, Truthful, IsAck
      <3>2. Record(t.answer) = Record(u.answer)
        BY <2>1, <2>2, <3>1 DEF Record
      <3>3. QED
        BY <2>2, <2>3, <3>1, <3>2 DEF Record
    <2>4. CASE ~IsAck(u)
      <3>1. PICK row \in db.idempotency : row.key = u.answer.key /\ row.request # u.asked
        BY <2>4 DEF ToldInv, Truthful, IsAck
      <3>2. row = Record(t.answer)
        BY <2>1, <2>2, <3>1 DEF Record
      <3>3. QED
        BY <2>2, <2>4, <3>1, <3>2 DEF Record
    <2>5. QED
      BY <2>3, <2>4
  <1>2. QED
    BY <1>1, AdmissionInvariant, ToldInvariant, PTL

----------------------------------------------------------------------------
(* The processes implement the event log *)

LogOf(d) == [i \in DOMAIN d.log |-> Entry(d.log[i])]
ReceiptsOf(d) == {[key |-> r.key, request |-> r.request] : r \in d.idempotency}

Entries == [kind : Kinds, about : Topics]

LEMMA LogTyped ==
  ASSUME NEW d \in Databases
  PROVE  LogOf(d) \in Seq(Entries) /\ Len(LogOf(d)) = Len(d.log)
  <1>1. d.log \in Seq(Rows)
    BY DEF Databases
  <1>2. Len(d.log) \in Nat /\ DOMAIN d.log = 1..Len(d.log)
        /\ \A i \in 1..Len(d.log) : d.log[i] \in Rows
    BY <1>1
  <1>3. \A i \in 1..Len(d.log) : Entry(d.log[i]) \in Entries
    BY <1>2 DEF Entry, Entries, Rows
  <1>4. LogOf(d) \in [1..Len(d.log) -> Entries]
    BY <1>2, <1>3 DEF LogOf
  <1>5. QED
    BY <1>2, <1>4

\* A commit of a note is AddNote.
LEMMA NoteRefines ==
  ASSUME NEW d \in Databases, NEW e \in Databases, NEW n \in Notes, HasNote(d, e, n)
  PROVE  LogOf(e) = Append(LogOf(d), n) /\ ReceiptsOf(e) = ReceiptsOf(d)
  <1> DEFINE len == Len(d.log)
             old == LogOf(d)
             new == LogOf(e)
  <1>1. /\ len \in Nat /\ DOMAIN d.log = 1..len /\ DOMAIN e.log = 1..(len + 1)
        /\ \A i \in 1..len : e.log[i] = d.log[i]
        /\ Len(e.log) = len + 1
    BY Positions DEF HasNote, Grown
  <1>2. old \in Seq(Entries) /\ Len(old) = len /\ new \in Seq(Entries) /\ Len(new) = len + 1
    BY <1>1, LogTyped
  <1>3. n \in Entries
    BY NotesAreRecords DEF Entries, Kinds, Topics
  <1>4. Entry(e.log[len + 1]) = n
    BY NotesAreRecords DEF HasNote, Entry
  <1>5. (\A i \in 1..len : new[i] = old[i]) /\ new[len + 1] = n
    BY <1>1, <1>4 DEF LogOf
  <1> HIDE DEF len, old, new
  <1>6. /\ Append(old, n) \in Seq(Entries) /\ Len(Append(old, n)) = len + 1
        /\ \A i \in 1..len : Append(old, n)[i] = old[i]
        /\ Append(old, n)[len + 1] = n
    BY <1>1, <1>2, <1>3
  <1>7. \A i \in 1..(len + 1) : i \in 1..len \/ i = len + 1
    BY <1>1
  <1>8. new = Append(old, n)
    BY <1>2, <1>5, <1>6, <1>7, SeqEqual
  <1>9. QED
    BY <1>8 DEF old, new, HasNote, ReceiptsOf

RunEntries(k) == <<[kind |-> "RECIPE_RUN_STARTED", about |-> k], [kind |-> "RESULT_VERIFIED", about |-> k]>>

\* A commit of a task is Admit.
LEMMA TaskRefines ==
  ASSUME NEW d \in Databases, NEW e \in Databases, NEW a \in Acks, NEW run \in BOOLEAN,
         HasAdmission(d, e, a, run), e.idempotency = d.idempotency \cup {Record(a)}
  PROVE  /\ run => LogOf(e) = LogOf(d) \o <<[kind |-> "TASK_INGESTED", about |-> a.key]>>
                                       \o RunEntries(a.key)
         /\ ~run => LogOf(e) = LogOf(d) \o <<[kind |-> "TASK_INGESTED", about |-> a.key]>> \o <<>>
         /\ ReceiptsOf(e) = ReceiptsOf(d) \cup {[key |-> a.key, request |-> a.request]}
         /\ \A r \in ReceiptsOf(d) : r.key # a.key
  <1> DEFINE len == Len(d.log)
             task == [kind |-> "TASK_INGESTED", about |-> a.key]
             rest == IF run THEN RunEntries(a.key) ELSE <<>>
             old == LogOf(d)
             new == LogOf(e)
  <1>1. /\ len \in Nat /\ DOMAIN d.log = 1..len
        /\ DOMAIN e.log = 1..(len + (IF run THEN 3 ELSE 1))
        /\ \A i \in 1..len : e.log[i] = d.log[i]
        /\ Len(e.log) = len + (IF run THEN 3 ELSE 1)
    BY Positions DEF HasAdmission, Grown
  <1>2. old \in Seq(Entries) /\ Len(old) = len /\ new \in Seq(Entries) /\ Len(new) = Len(e.log)
    BY LogTyped
  <1>3. task \in Entries
    BY DEF Acks, Entries, Kinds, KernelKinds, Topics
  <1>4. rest \in Seq(Entries) /\ Len(rest) = IF run THEN 2 ELSE 0
    <2> DEFINE start == [kind |-> "RECIPE_RUN_STARTED", about |-> a.key]
               result == [kind |-> "RESULT_VERIFIED", about |-> a.key]
    <2>1. start \in Entries /\ result \in Entries
      BY DEF Acks, Entries, Kinds, KernelKinds, Topics
    <2> HIDE DEF start, result
    <2>2. <<start, result>> \in Seq(Entries) /\ Len(<<start, result>>) = 2
      BY <2>1
    <2>3. <<>> \in Seq(Entries) /\ Len(<<>>) = 0
      OBVIOUS
    <2>4. RunEntries(a.key) = <<start, result>>
      BY DEF RunEntries, start, result
    <2>5. QED
      BY <2>2, <2>3, <2>4
  <1>5. /\ \A i \in 1..len : new[i] = old[i]
        /\ new[len + 1] = task
        /\ run => new[len + 2] = rest[1] /\ new[len + 3] = rest[2]
    <2>0. len + 1 \in DOMAIN e.log /\ \A i \in 1..len : i \in DOMAIN e.log
      <3> HIDE DEF len
      <3>1. CASE run
        BY <1>1, <3>1
      <3>2. CASE ~run
        BY <1>1, <3>2
      <3>3. QED
        BY <3>1, <3>2
    <2>1. /\ \A i \in DOMAIN e.log : new[i] = Entry(e.log[i])
          /\ \A i \in DOMAIN d.log : old[i] = Entry(d.log[i])
      BY DEF LogOf
    <2> HIDE DEF new, old, rest
    <2>2. \A i \in 1..len : new[i] = old[i]
      BY <1>1, <2>0, <2>1
    <2>3. new[len + 1] = task
      BY <2>0, <2>1 DEF HasAdmission, HasTask, IsTask, Entry
    <2>4. run => /\ new[len + 2] = [kind |-> "RECIPE_RUN_STARTED", about |-> a.key]
                 /\ new[len + 3] = [kind |-> "RESULT_VERIFIED", about |-> a.key]
      <3>1. run => len + 2 \in DOMAIN e.log /\ len + 3 \in DOMAIN e.log
        BY <1>1
      <3>2. QED
        BY <2>1, <3>1 DEF HasAdmission, HasStart, HasResult, Entry
    <2> HIDE DEF len, task
    <2>5. run => /\ rest[1] = [kind |-> "RECIPE_RUN_STARTED", about |-> a.key]
                 /\ rest[2] = [kind |-> "RESULT_VERIFIED", about |-> a.key]
      BY DEF RunEntries, rest
    <2>6. QED
      BY <2>2, <2>3, <2>4, <2>5
  <1>6. new = old \o <<task>> \o rest
    <2> DEFINE head == old \o <<task>>
               all == head \o rest
    <2> HIDE DEF len, task, rest, old, new
    <2>1. /\ head \in Seq(Entries) /\ Len(head) = len + 1
          /\ \A i \in 1..len : head[i] = old[i]
          /\ head[len + 1] = task
      BY <1>1, <1>2, <1>3
    <2> HIDE DEF head
    <2>2. /\ all \in Seq(Entries) /\ Len(all) = Len(head) + Len(rest)
          /\ \A i \in 1..(Len(head) + Len(rest)) :
               all[i] = IF i <= Len(head) THEN head[i] ELSE rest[i - Len(head)]
      BY ZenonT(40), <1>4, <2>1, ConcatProperties
    <2> HIDE DEF all
    <2>3. Len(all) = Len(new)
      BY <1>1, <1>2, <1>4, <2>1, <2>2
    <2>4. ASSUME NEW i \in 1..Len(new) PROVE all[i] = new[i]
      <3>1. i \in 1..(Len(head) + Len(rest)) /\ i \in Int
        BY <1>1, <1>2, <2>2, <2>3
      <3>2. CASE i \in 1..(len + 1)
        <4>1. all[i] = head[i]
          BY <1>1, <2>1, <2>2, <3>1, <3>2
        <4>2. i \in 1..len \/ i = len + 1
          BY <1>1, <3>2
        <4>3. QED
          BY <1>5, <2>1, <4>1, <4>2
      <3>3. CASE run /\ i = len + 2
        <4>1. ~(i <= Len(head)) /\ i - Len(head) = 1
          BY <1>1, <2>1, <3>3
        <4>2. all[i] = rest[1]
          BY <2>2, <3>1, <4>1
        <4>3. QED
          BY <1>5, <3>3, <4>2
      <3>4. CASE run /\ i = len + 3
        <4>1. ~(i <= Len(head)) /\ i - Len(head) = 2
          BY <1>1, <2>1, <3>4
        <4>2. all[i] = rest[2]
          BY <2>2, <3>1, <4>1
        <4>3. QED
          BY <1>5, <3>4, <4>2
      <3>5. QED
        BY <1>1, <1>2, <3>2, <3>3, <3>4
    <2>5. new = all
      BY <1>2, <2>2, <2>3, <2>4, SeqEqual
    <2>6. QED
      BY <2>5 DEF all, head
  <1>7. ReceiptsOf(e) = ReceiptsOf(d) \cup {[key |-> a.key, request |-> a.request]}
    <2>1. Record(a).key = a.key /\ Record(a).request = a.request
      BY DEF Record
    <2>2. QED
      BY <2>1 DEF ReceiptsOf
  <1>8. \A r \in ReceiptsOf(d) : r.key # a.key
    BY DEF ReceiptsOf, HasAdmission, Unknown
  <1>9. QED
    BY <1>6, <1>7, <1>8

LEMMA AdmitRefines ==
  ASSUME TypeOK, NEW p \in Processes, db' = tx, CommitsTask(p),
         reply[p] \in Acks, job[p].request.verify \in BOOLEAN
  PROVE  Committed!Next
  <1> DEFINE a == reply[p]
             head == LogOf(db) \o <<[kind |-> "TASK_INGESTED", about |-> a.key]>>
  <1>1. /\ job[p].request.verify => LogOf(tx) = head \o RunEntries(a.key)
        /\ ~job[p].request.verify => LogOf(tx) = head \o <<>>
        /\ ReceiptsOf(tx) = ReceiptsOf(db) \cup {[key |-> a.key, request |-> a.request]}
        /\ \A r \in ReceiptsOf(db) : r.key # a.key
    BY SMTT(30), TaskRefines DEF TypeOK, CommitsTask
  <1>2. /\ [i \in DOMAIN db.log |-> Entry(db.log[i])]' = LogOf(tx)
        /\ {[key |-> r.key, request |-> r.request] : r \in db.idempotency}' = ReceiptsOf(tx)
    BY DEF LogOf, ReceiptsOf
  <1>3. a.key \in Keys /\ a.request \in Hashes
    BY DEF Acks
  <1>4. CASE job[p].request.verify
    <2>1. Committed!Admit(a.key, a.request, TRUE)
      BY <1>1, <1>2, <1>4 DEF Committed!Admit, Committed!Admitted, Committed!Ingested, Committed!RunOf,
         RunEntries, LogOf, ReceiptsOf
    <2>2. QED
      BY <1>3, <2>1 DEF Committed!Next
  <1>5. CASE ~job[p].request.verify
    <2>1. Committed!Admit(a.key, a.request, FALSE)
      BY <1>1, <1>2, <1>5 DEF Committed!Admit, Committed!Admitted, Committed!Ingested, LogOf, ReceiptsOf
    <2>2. QED
      BY <1>3, <2>1 DEF Committed!Next
  <1>6. QED
    BY <1>4, <1>5

LEMMA AddNoteRefines ==
  ASSUME TypeOK, NEW n \in Notes, db' = tx, HasNote(db, tx, n)
  PROVE  Committed!Next
  <1>1. LogOf(tx) = Append(LogOf(db), n) /\ ReceiptsOf(tx) = ReceiptsOf(db)
    BY NoteRefines DEF TypeOK
  <1>2. /\ [i \in DOMAIN db.log |-> Entry(db.log[i])]' = LogOf(tx)
        /\ {[key |-> r.key, request |-> r.request] : r \in db.idempotency}' = ReceiptsOf(tx)
    BY DEF LogOf, ReceiptsOf
  <1>3. Committed!AddNote(n)
    BY <1>1, <1>2 DEF Committed!AddNote, LogOf, ReceiptsOf
  <1>4. QED
    BY <1>3 DEF Committed!Next

\* What a step does to the database: nothing, or the whole of a commit.
LEMMA StepRefines ==
  ASSUME SpineInv, AdmissionInv, [Next]_vars
  PROVE  [Committed!Next]_(Committed!logVars)
  <1>1. CASE db' = db
    BY <1>1 DEF Committed!logVars
  <1>2. CASE db' # db
    <2>1. PICK p \in Processes : Commit(p)
      BY <1>2, ZenonT(40) DEF Next, vars, Start, Work, StartSubmit, StartAppend, Begin, Busy, Replay, Conflict,
         Ingest, Receipt, StartRun, FinishRun, RecordIdempotency, AppendEvent, Deliver, Rollback, Crash
    <2>2. db' = tx /\ AtCommit(p) /\ pc[p] = "commit" /\ TypeOK
      BY <2>1 DEF SpineInv, Commit, AdmissionInv, WriterInv
    <2>3. CASE CommitsNote(p)
      <3>1. job[p].note \in Notes /\ HasNote(db, tx, job[p].note)
        BY <2>3 DEF SpineInv, TypeOK, CommitsNote, Jobs, NoJob
      <3>2. QED
        BY <2>2, <3>1, AddNoteRefines
    <2>4. CASE CommitsTask(p)
      <3>1. job[p].op = "submit" /\ reply[p].how = "NEW"
        BY <2>4 DEF CommitsTask, Answers
      <3>2. job[p].request \in Requests
        BY <3>1 DEF SpineInv, TypeOK, Jobs, NoJob
      <3>3. reply[p] \in Acks /\ job[p].request.verify \in BOOLEAN
        BY <2>2, <3>1, <3>2, VerifyIsBoolean DEF SpineInv, StepInv, Replies, Nacks
      <3>4. QED
        BY <2>2, <2>4, <3>3, AdmitRefines
    <2>5. CASE CommitsNothing(p)
      BY <1>2, <2>2, <2>5 DEF CommitsNothing
    <2>6. QED
      BY <2>2, <2>3, <2>4, <2>5 DEF AtCommit
  <1>3. QED
    BY <1>1, <1>2

\* The processes together implement one log with atomic admission.
THEOREM EventLogRefinement == Spec => RefinesEventLog
  <1>1. Init => Committed!Init
    <2> SUFFICES ASSUME Init PROVE Committed!Init
      OBVIOUS
    <2>1. db.log = <<>> /\ db.idempotency = {}
      BY DEF Init, EmptyDb
    <2>2. QED
      BY <2>1 DEF Committed!Init
  <1>2. SpineInv /\ AdmissionInv /\ [Next]_vars => [Committed!Next]_(Committed!logVars)
    BY StepRefines
  <1>3. QED
    BY <1>1, <1>2, AdmissionInvariant, PTL DEF Spec, RefinesEventLog, Committed!Spec
============================================================================
