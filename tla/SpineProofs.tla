---------------------------- MODULE SpineProofs ----------------------------
(***************************************************************************)
(* The durable spine for any number of processes, requests and appended    *)
(* notes: types, the discipline of the write lock, and the hash chain.     *)
(***************************************************************************)
EXTENDS Spine, TLAPS

Chained(d) == VerifyChain(d.log) /\ d.autoinc = Len(d.log)

Writing == {"lookup", "receipt", "run", "verify", "record", "append", "commit"}

\* What a process may rely on at each step: the job it was started for, the
\* response it has built, and the write lock, held exactly inside a transaction.
StepInv(p) ==
  /\ pc[p] \in {"lookup", "receipt", "run", "verify", "record"} => job[p].op = "submit"
  /\ pc[p] = "append" => job[p].op = "append"
  /\ pc[p] # "idle" => job[p].op # "none"
  /\ pc[p] \in {"receipt", "run", "verify", "record"} => reply[p] \in Acks
  /\ pc[p] \in {"commit", "reply"} /\ job[p].op = "submit" => reply[p] \in Replies
  /\ p \in writer <=> pc[p] \in Writing

\* One writer, and outside its transaction nobody sees anything uncommitted.
LockInv ==
  /\ \A p, q \in writer : p = q
  /\ writer = {} => tx = db

\* The inductive invariant.  The chain is kept apart from it: an edited row
\* breaks the chain (SpineFaultsProofs) and nothing else.
SpineInv ==
  /\ TypeOK
  /\ \A p \in Processes : StepInv(p)
  /\ LockInv

ChainInv == Chained(db) /\ Chained(tx)

----------------------------------------------------------------------------
(* Rows and databases *)

LEMMA KeysAreTopics == ASSUME NEW r \in Requests PROVE r.key \in Topics /\ r.key \in Keys
  BY DEF Topics, Keys

LEMMA HashesOfRequests == ASSUME NEW r \in Requests PROVE RequestHash(r) \in Hashes
  BY DEF Hashes

\* Appending one row keeps a database a database.
LEMMA RowTyped ==
  ASSUME NEW d \in Databases, NEW ts \in Times, NEW kind \in Kinds, NEW about \in Topics
  PROVE  /\ EventRow(d, ts, kind, about) \in Rows
         /\ EventRow(d, ts, kind, about).id \in EventIds
         /\ EventRow(d, ts, kind, about).hash \in Digests
         /\ WithEvent(d, EventRow(d, ts, kind, about)) \in Databases
  <1> DEFINE row == EventRow(d, ts, kind, about)
  <1>1. d.log \in Seq(Rows) /\ d.autoinc \in Nat
    BY DEF Databases
  <1>2. LastHash(d.log) \in Digests
    <2>1. CASE d.log = <<>>
      BY <2>1 DEF LastHash, Genesis, Digests
    <2>2. CASE d.log # <<>>
      <3>1. Len(d.log) \in DOMAIN d.log /\ d.log[Len(d.log)] \in Rows
        BY <1>1, <2>2
      <3>2. QED
        BY <2>2, <3>1 DEF LastHash, Rows
    <2>3. QED
      BY <2>1, <2>2
  <1>3. EventId(ts, kind) \in EventIds
    BY DEF EventId, EventIds
  <1>4. Digest(LastHash(d.log), EventId(ts, kind), about) \in Digests
    BY <1>2, <1>3 DEF Digest, Digests
  <1>5. row \in Rows /\ row.id \in EventIds /\ row.hash \in Digests /\ row.seq \in Nat
    BY <1>1, <1>2, <1>3, <1>4 DEF EventRow, Rows
  <1>6. Append(d.log, row) \in Seq(Rows)
    BY <1>1, <1>5
  <1>7. WithEvent(d, row) \in Databases
    BY <1>5, <1>6 DEF WithEvent, Databases
  <1>8. QED
    BY <1>5, <1>7

\* Appending one row keeps the chain: the row links to the last one and takes
\* the next number because AUTOINCREMENT has used as many as there are rows.
LEMMA RowChained ==
  ASSUME NEW d \in Databases, NEW ts \in Times, NEW kind \in Kinds, NEW about \in Topics,
         Chained(d)
  PROVE  Chained(WithEvent(d, EventRow(d, ts, kind, about)))
  <1> DEFINE row == EventRow(d, ts, kind, about)
             log == Append(d.log, row)
  <1>1. d.log \in Seq(Rows) /\ d.autoinc \in Nat
    BY DEF Databases
  <1>2. /\ Len(log) = Len(d.log) + 1
        /\ DOMAIN log = 1..(Len(d.log) + 1)
        /\ \A i \in DOMAIN d.log : log[i] = d.log[i]
        /\ log[Len(d.log) + 1] = row
    BY <1>1
  <1>3. /\ row.seq = Len(d.log) + 1
        /\ row.prev = LastHash(d.log)
        /\ row.hash = Digest(LastHash(d.log), row.id, row.about)
    BY <1>1 DEF EventRow, Chained
  <1>4. ASSUME NEW i \in DOMAIN log
        PROVE  LET prev == IF i = 1 THEN Genesis ELSE log[i - 1].hash
               IN  /\ log[i].seq = i
                   /\ log[i].prev = prev
                   /\ log[i].hash = Digest(prev, log[i].id, log[i].about)
    <2>1. CASE i \in DOMAIN d.log
      <3>1. i \in 1..Len(d.log) /\ log[i] = d.log[i]
        BY <1>1, <1>2, <2>1
      <3>2. i # 1 => log[i - 1] = d.log[i - 1]
        BY <1>1, <1>2, <3>1
      <3>3. QED
        BY <2>1, <3>1, <3>2 DEF Chained, VerifyChain
    <2>2. CASE i = Len(d.log) + 1
      <3>1. LastHash(d.log) = IF i = 1 THEN Genesis ELSE log[i - 1].hash
        BY <1>1, <1>2, <2>2 DEF LastHash
      <3>2. QED
        BY <1>2, <1>3, <2>2, <3>1
    <2>3. QED
      BY <1>1, <1>2, <2>1, <2>2
  <1>5. VerifyChain(log)
    BY <1>4 DEF VerifyChain
  <1>6. WithEvent(d, row).log = log /\ WithEvent(d, row).autoinc = row.seq
    BY <1>1 DEF WithEvent, Databases
  <1>7. QED
    BY <1>2, <1>3, <1>5, <1>6 DEF Chained

----------------------------------------------------------------------------
(* The inductive invariant *)

LEMMA InitSpineInv == Init => SpineInv
  <1> SUFFICES ASSUME Init PROVE SpineInv
    OBVIOUS
  <1>1. EmptyDb \in Databases
    BY DEF EmptyDb, Databases
  <1>2. TypeOK
    BY <1>1 DEF Init, TypeOK, Steps, Jobs
  <1>3. \A p \in Processes : StepInv(p)
    BY DEF Init, StepInv, Writing
  <1>4. QED
    BY <1>2, <1>3 DEF Init, SpineInv, LockInv

LEMMA InitChainInv == Init => ChainInv
  BY DEF Init, ChainInv, Chained, VerifyChain, EmptyDb

\* A step of p leaves what other processes rely on alone.
LEMMA OthersKeep ==
  ASSUME NEW p \in Processes, NEW q \in Processes, q # p, TypeOK, StepInv(q),
         pc'[q] = pc[q], job'[q] = job[q], reply'[q] = reply[q],
         q \in writer' <=> q \in writer
  PROVE  StepInv(q)'
  BY DEF StepInv

\* Over resets the locals of the process and of no other.
LEMMA OverKeeps ==
  ASSUME NEW p \in Processes, TypeOK, Over(p)
  PROVE  /\ pc' \in [Processes -> Steps]
         /\ job' \in [Processes -> Jobs]
         /\ reply' \in [Processes -> Replies \cup {NoReply}]
         /\ pc'[p] = "idle" /\ job'[p] = NoJob /\ reply'[p] = NoReply
         /\ \A q \in Processes : q # p =>
              pc'[q] = pc[q] /\ job'[q] = job[q] /\ reply'[q] = reply[q]
  BY DEF TypeOK, Over, Goto, Steps, Jobs

LEMMA StartKeeps ==
  ASSUME SpineInv, NEW p \in Processes, Start(p)
  PROVE  SpineInv'
  <1>1. PICK j \in Jobs : /\ j.op \in {"submit", "append"}
                         /\ pc[p] = "idle"
                         /\ job' = [job EXCEPT ![p] = j]
                         /\ pc' = [pc EXCEPT ![p] = "begin"]
                         /\ UNCHANGED <<db, tx, writer, reply, told>>
    <2>1. CASE \E r \in Requests : StartSubmit(p, r)
      BY <2>1 DEF StartSubmit, Goto, Jobs
    <2>2. CASE \E n \in Notes : StartAppend(p, n)
      BY <2>2 DEF StartAppend, Goto, Jobs
    <2>3. QED
      BY <2>1, <2>2 DEF Start
  <1>2. TypeOK'
    BY <1>1 DEF SpineInv, TypeOK, Steps
  <1>3. ASSUME NEW q \in Processes PROVE StepInv(q)'
    BY <1>1 DEF SpineInv, TypeOK, StepInv, Writing
  <1>4. LockInv'
    BY <1>1 DEF SpineInv, LockInv
  <1>5. QED
    BY <1>2, <1>3, <1>4 DEF SpineInv

LEMMA BeginKeeps ==
  ASSUME SpineInv, NEW p \in Processes, Begin(p)
  PROVE  SpineInv'
  <1>1. TypeOK'
    BY DEF SpineInv, TypeOK, Begin, Goto, Steps
  <1>2. job[p].op # "none" => job[p].op \in {"submit", "append"}
    BY DEF SpineInv, TypeOK, Jobs, NoJob
  <1>3. ASSUME NEW q \in Processes PROVE StepInv(q)'
    BY <1>2 DEF SpineInv, TypeOK, StepInv, Begin, Goto, Writing
  <1>4. LockInv'
    BY DEF SpineInv, LockInv, Begin
  <1>5. QED
    BY <1>1, <1>3, <1>4 DEF SpineInv

\* The ends of a transaction, a delivery and a time-out.
LEMMA OverStepKeeps ==
  ASSUME SpineInv, NEW p \in Processes, Busy(p) \/ Rollback(p) \/ Crash(p) \/ Deliver(p)
  PROVE  SpineInv'
  <1>1. Over(p)
    BY DEF Busy, Rollback, Crash, Deliver
  <1>2. /\ db' = db
        /\ writer' = writer \ {p}
        /\ tx' = IF writer = {p} THEN db ELSE tx
    <2>1. CASE Busy(p)
      <3>1. p \notin writer
        BY <2>1 DEF SpineInv, StepInv, Busy, Writing
      <3>2. QED
        BY <2>1, <3>1 DEF Busy
    <2>2. CASE Deliver(p)
      <3>1. p \notin writer
        BY <2>2 DEF SpineInv, StepInv, Deliver, Writing
      <3>2. QED
        BY <2>2, <3>1 DEF Deliver
    <2>3. CASE Rollback(p) \/ Crash(p)
      BY <2>3 DEF Rollback, Crash, InTransaction
    <2>4. QED
      BY <2>1, <2>2, <2>3
  <1>3. told' \in SUBSET [asked : Hashes, answer : Replies]
    <2>1. CASE Deliver(p) /\ job[p].op # "append"
      <3>1. job[p].op = "submit" /\ job[p] \in [op : {"submit"}, request : Requests]
        BY <2>1 DEF SpineInv, TypeOK, StepInv, Deliver, Jobs, NoJob
      <3>2. reply[p] \in Replies
        BY <2>1, <3>1 DEF SpineInv, StepInv, Deliver
      <3>3. RequestHash(job[p].request) \in Hashes
        BY <3>1, HashesOfRequests
      <3>4. QED
        BY <2>1, <3>2, <3>3 DEF SpineInv, TypeOK, Deliver
    <2>2. CASE ~(Deliver(p) /\ job[p].op # "append")
      BY <2>2 DEF SpineInv, TypeOK, Busy, Rollback, Crash, Deliver
    <2>3. QED
      BY <2>1, <2>2
  <1>4. TypeOK'
    BY <1>1, <1>2, <1>3, OverKeeps DEF SpineInv, TypeOK
  <1>5. ASSUME NEW q \in Processes PROVE StepInv(q)'
    <2>1. CASE q = p
      BY <1>1, <1>2, <2>1, OverKeeps DEF SpineInv, StepInv, Writing, NoJob
    <2>2. CASE q # p
      BY <1>1, <1>2, <2>2, OverKeeps, OthersKeep DEF SpineInv
    <2>3. QED
      BY <2>1, <2>2
  <1>6. LockInv'
    <2>1. writer' = {} => writer = {} \/ writer = {p}
      BY <1>2
    <2>2. QED
      BY <1>2, <2>1 DEF SpineInv, LockInv
  <1>7. QED
    BY <1>4, <1>5, <1>6 DEF SpineInv

LEMMA CommitKeeps ==
  ASSUME SpineInv, NEW p \in Processes, Commit(p)
  PROVE  SpineInv'
  <1>1. TypeOK'
    BY DEF SpineInv, TypeOK, Commit, Goto, Steps
  <1>2. \A q \in writer : q = p
    BY DEF SpineInv, LockInv, StepInv, Commit, Writing
  <1>3. ASSUME NEW q \in Processes PROVE StepInv(q)'
    BY <1>2 DEF SpineInv, TypeOK, StepInv, Commit, Goto, Writing
  <1>4. LockInv'
    BY DEF SpineInv, LockInv, Commit
  <1>5. QED
    BY <1>1, <1>3, <1>4 DEF SpineInv

\* A step inside the transaction touches the writer's view and its locals.
LEMMA InsideKeeps ==
  ASSUME SpineInv, NEW p \in Processes, NEW step \in Steps,
         pc[p] \in Writing, step \in Writing, Goto(p, step),
         UNCHANGED <<db, writer, job, told>>,
         tx' \in Databases,
         reply' \in [Processes -> Replies \cup {NoReply}],
         \A q \in Processes : q # p => reply'[q] = reply[q],
         StepInv(p)'
  PROVE  SpineInv'
  <1>1. /\ pc' \in [Processes -> Steps]
        /\ \A q \in Processes : q # p => pc'[q] = pc[q]
    BY DEF SpineInv, TypeOK, Goto
  <1>2. TypeOK'
    BY <1>1 DEF SpineInv, TypeOK
  <1>3. ASSUME NEW q \in Processes, q # p PROVE StepInv(q)'
    BY <1>1, <1>3, OthersKeep DEF SpineInv
  <1>4. p \in writer
    BY DEF SpineInv, StepInv
  <1>5. LockInv'
    BY <1>4 DEF SpineInv, LockInv
  <1>6. QED
    BY <1>2, <1>3, <1>5 DEF SpineInv

\* What a submitting process has at hand.
LEMMA SubmitJob ==
  ASSUME SpineInv, NEW p \in Processes,
         pc[p] \in {"lookup", "receipt", "run", "verify", "record"}
  PROVE  /\ job[p].request \in Requests
         /\ job[p].request.key \in Keys
         /\ job[p].request.key \in Topics
         /\ RequestHash(job[p].request) \in Hashes
         /\ job[p].request.verify \in BOOLEAN
         /\ job[p].op = "submit"
  <1>1. job[p] \in [op : {"submit"}, request : Requests]
    BY DEF SpineInv, TypeOK, StepInv, Jobs, NoJob
  <1>2. QED
    BY <1>1, KeysAreTopics, HashesOfRequests, VerifyIsBoolean

LEMMA RespondTyped ==
  ASSUME TypeOK, NEW p \in Processes, NEW how \in {"NEW", "REPLAY"}, NEW answer,
         answer.key \in Keys, answer.request \in Hashes, answer.event \in EventIds,
         answer.hash \in Digests, answer.state \in States, Respond(p, how, answer)
  PROVE  /\ reply' \in [Processes -> Replies \cup {NoReply}]
         /\ reply'[p] \in Acks
         /\ \A q \in Processes : q # p => reply'[q] = reply[q]
  <1>1. [how |-> how, key |-> answer.key, request |-> answer.request,
         event |-> answer.event, hash |-> answer.hash, state |-> answer.state] \in Acks
    BY DEF Acks
  <1>2. QED
    BY <1>1 DEF TypeOK, Respond, Replies

LEMMA ReplayKeeps ==
  ASSUME SpineInv, NEW p \in Processes, Replay(p)
  PROVE  SpineInv'
  <1>1. PICK row \in tx.idempotency : Respond(p, "REPLAY", row)
    BY DEF Replay
  <1>2. row \in Records
    BY DEF SpineInv, TypeOK, Databases
  <1>3. /\ reply' \in [Processes -> Replies \cup {NoReply}]
        /\ reply'[p] \in Acks
        /\ \A q \in Processes : q # p => reply'[q] = reply[q]
    BY <1>1, <1>2, RespondTyped DEF SpineInv, Records
  <1>4. StepInv(p)'
    BY <1>3, SubmitJob DEF SpineInv, TypeOK, StepInv, Replay, Goto, Writing, Replies
  <1>5. tx' \in Databases
    BY DEF SpineInv, TypeOK, Replay
  <1>6. QED
    BY <1>3, <1>4, <1>5, InsideKeeps DEF Replay, Writing, Steps

LEMMA ConflictKeeps ==
  ASSUME SpineInv, NEW p \in Processes, Conflict(p)
  PROVE  SpineInv'
  <1>1. /\ reply' \in [Processes -> Replies \cup {NoReply}]
        /\ reply'[p] \in Replies
        /\ \A q \in Processes : q # p => reply'[q] = reply[q]
    <2>1. pc[p] = "lookup"
      BY DEF Conflict
    <2>2. [how |-> "CONFLICT", key |-> job[p].request.key,
           request |-> RequestHash(job[p].request), event |-> <<>>, hash |-> Genesis,
           state |-> "REJECTED"] \in Nacks
      BY <2>1, SubmitJob DEF Nacks
    <2>3. QED
      BY <2>2 DEF SpineInv, TypeOK, Conflict, Respond, Replies
  <1>2. StepInv(p)'
    BY <1>1, SubmitJob DEF SpineInv, TypeOK, StepInv, Conflict, Goto, Writing
  <1>3. tx' \in Databases
    BY DEF SpineInv, TypeOK, Conflict
  <1>4. QED
    BY <1>1, <1>2, <1>3, InsideKeeps DEF Conflict, Writing, Steps

LEMMA IngestKeeps ==
  ASSUME SpineInv, NEW p \in Processes, NEW ts \in Times, Ingest(p, ts)
  PROVE  SpineInv'
  <1> DEFINE r == job[p].request
             row == EventRow(tx, ts, "TASK_INGESTED", r.key)
  <1>1. /\ pc[p] = "lookup" /\ tx' = WithEvent(tx, row)
        /\ Respond(p, "NEW", [key |-> r.key, request |-> RequestHash(r),
                              event |-> row.id, hash |-> row.hash, state |-> "INGESTED"])
    BY DEF Ingest
  <1>2. r.key \in Keys /\ r.key \in Topics /\ RequestHash(r) \in Hashes /\ job[p].op = "submit"
    BY <1>1, SubmitJob
  <1>3. tx \in Databases /\ "TASK_INGESTED" \in Kinds
    BY DEF SpineInv, TypeOK, Kinds, KernelKinds
  <1>4. row.id \in EventIds /\ row.hash \in Digests /\ tx' \in Databases
    BY <1>1, <1>2, <1>3, RowTyped
  <1>5. /\ reply' \in [Processes -> Replies \cup {NoReply}]
        /\ reply'[p] \in Acks
        /\ \A q \in Processes : q # p => reply'[q] = reply[q]
    <2> HIDE DEF row, r
    <2> QED
      BY <1>1, <1>2, <1>4, RespondTyped DEF SpineInv, States
  <1>6. StepInv(p)'
    BY <1>2, <1>5 DEF SpineInv, TypeOK, StepInv, Ingest, Goto, Writing
  <1>7. QED
    BY <1>1, <1>4, <1>5, <1>6, InsideKeeps DEF Ingest, Writing, Steps

LEMMA ReceiptKeeps ==
  ASSUME SpineInv, NEW p \in Processes, Receipt(p)
  PROVE  SpineInv'
  <1>1. pc[p] = "receipt" /\ reply[p] \in Acks
    BY DEF SpineInv, StepInv, Receipt
  <1>2. tx' \in Databases
    <2>1. /\ [event |-> reply[p].event, request |-> RequestHash(job[p].request)]
               \in [event : EventIds, request : Hashes]
          /\ [key |-> job[p].request.key, integration |-> "INGESTED"]
               \in [key : Keys, integration : States]
      BY <1>1, SubmitJob DEF Acks, States
    <2>2. QED
      BY <2>1 DEF SpineInv, TypeOK, Databases, Receipt
  <1>3. reply' \in [Processes -> Replies \cup {NoReply}] /\ reply' = reply
    BY DEF SpineInv, TypeOK, Receipt
  <1>4. PICK step \in {"run", "record"} : Goto(p, step)
    BY DEF Receipt
  <1>5. StepInv(p)'
    BY <1>1, <1>3, <1>4, SubmitJob DEF SpineInv, TypeOK, StepInv, Receipt, Goto, Writing
  <1>6. QED
    BY <1>1, <1>2, <1>3, <1>4, <1>5, InsideKeeps DEF Receipt, Writing, Steps

LEMMA StartRunKeeps ==
  ASSUME SpineInv, NEW p \in Processes, NEW ts \in Times, StartRun(p, ts)
  PROVE  SpineInv'
  <1>1. pc[p] = "run" /\ reply[p] \in Acks
    BY DEF SpineInv, StepInv, StartRun
  <1>2. tx' \in Databases
    <2>1. job[p].request.key \in Topics /\ "RECIPE_RUN_STARTED" \in Kinds
      BY <1>1, SubmitJob DEF Kinds, KernelKinds
    <2>2. QED
      BY <2>1, RowTyped DEF SpineInv, TypeOK, StartRun
  <1>3. reply' \in [Processes -> Replies \cup {NoReply}] /\ reply' = reply
    BY DEF SpineInv, TypeOK, StartRun
  <1>4. StepInv(p)'
    BY <1>1, <1>3, SubmitJob DEF SpineInv, TypeOK, StepInv, StartRun, Goto, Writing
  <1>5. QED
    BY <1>1, <1>2, <1>3, <1>4, InsideKeeps DEF StartRun, Writing, Steps

LEMMA FinishRunKeeps ==
  ASSUME SpineInv, NEW p \in Processes, NEW ts \in Times, FinishRun(p, ts)
  PROVE  SpineInv'
  <1> DEFINE k == job[p].request.key
             d == WithEvent(tx, EventRow(tx, ts, "RESULT_VERIFIED", k))
             Messages(o) == {IF m.key = k THEN [m EXCEPT !.integration = o] ELSE m : m \in d.messages}
  <1>0. PICK outcome \in Outcomes(tx.log) : tx' = [d EXCEPT !.messages = Messages(outcome)]
    BY DEF FinishRun
  <1> DEFINE messages == Messages(outcome)
  <1>1. pc[p] = "verify" /\ reply[p] \in Acks /\ tx' = [d EXCEPT !.messages = messages]
    BY <1>0 DEF SpineInv, StepInv, FinishRun
  <1>2. d \in Databases
    <2>1. k \in Topics /\ "RESULT_VERIFIED" \in Kinds
      BY <1>1, SubmitJob DEF Kinds, KernelKinds
    <2>2. QED
      BY <2>1, RowTyped DEF SpineInv, TypeOK
  <1> HIDE DEF d
  <1>3. tx' \in Databases
    <2>1. messages \in SUBSET [key : Keys, integration : States]
      BY <1>0, <1>2 DEF Databases, States, Outcomes
    <2> HIDE DEF messages
    <2>2. QED
      BY <1>1, <1>2, <2>1 DEF Databases
  <1>4. /\ reply' \in [Processes -> Replies \cup {NoReply}]
        /\ reply'[p] \in Acks
        /\ \A q \in Processes : q # p => reply'[q] = reply[q]
    BY <1>1 DEF SpineInv, TypeOK, FinishRun, Acks, Replies, States
  <1>5. StepInv(p)'
    BY <1>1, <1>4, SubmitJob DEF SpineInv, TypeOK, StepInv, FinishRun, Goto, Writing
  <1>6. QED
    BY <1>1, <1>3, <1>4, <1>5, InsideKeeps DEF FinishRun, Writing, Steps

LEMMA RecordKeeps ==
  ASSUME SpineInv, NEW p \in Processes, RecordIdempotency(p)
  PROVE  SpineInv'
  <1>1. pc[p] = "record" /\ reply[p] \in Acks
    BY DEF SpineInv, StepInv, RecordIdempotency
  <1>2. tx' \in Databases
    <2>1. [key |-> reply[p].key, request |-> reply[p].request, event |-> reply[p].event,
           hash |-> reply[p].hash, state |-> reply[p].state] \in Records
      BY <1>1 DEF Acks, Records
    <2>2. QED
      BY <2>1 DEF SpineInv, TypeOK, Databases, RecordIdempotency
  <1>3. reply' \in [Processes -> Replies \cup {NoReply}] /\ reply' = reply
    BY DEF SpineInv, TypeOK, RecordIdempotency
  <1>4. StepInv(p)'
    BY <1>1, <1>3, SubmitJob DEF SpineInv, TypeOK, StepInv, RecordIdempotency, Goto, Writing, Replies
  <1>5. QED
    BY <1>1, <1>2, <1>3, <1>4, InsideKeeps DEF RecordIdempotency, Writing, Steps

LEMMA AppendKeeps ==
  ASSUME SpineInv, NEW p \in Processes, NEW ts \in Times, AppendEvent(p, ts)
  PROVE  SpineInv'
  <1>1. pc[p] = "append" /\ job[p].op = "append" /\ job[p] \in [op : {"append"}, note : Notes]
    BY DEF SpineInv, TypeOK, StepInv, AppendEvent, Jobs, NoJob
  <1>2. tx' \in Databases
    <2>1. job[p].note.kind \in Kinds /\ job[p].note.about \in Topics
      BY <1>1 DEF Kinds, Topics
    <2>2. QED
      BY <2>1, RowTyped DEF SpineInv, TypeOK, AppendEvent
  <1>3. reply' \in [Processes -> Replies \cup {NoReply}] /\ reply' = reply
    BY DEF SpineInv, TypeOK, AppendEvent
  <1>4. StepInv(p)'
    BY <1>1, <1>3 DEF SpineInv, TypeOK, StepInv, AppendEvent, Goto, Writing
  <1>5. QED
    BY <1>1, <1>2, <1>3, <1>4, InsideKeeps DEF AppendEvent, Writing, Steps

\* Every step keeps types, jobs and the discipline of the write lock.
LEMMA SpineStep == ASSUME SpineInv, [Next]_vars PROVE SpineInv'
  <1>1. CASE UNCHANGED vars
    BY <1>1 DEF vars, SpineInv, TypeOK, StepInv, LockInv
  <1>2. CASE Next
    <2>1. PICK p \in Processes : Start(p) \/ Work(p) \/ Crash(p)
      BY <1>2 DEF Next
    <2>2. CASE Start(p)
      BY <2>2, StartKeeps
    <2>3. CASE Begin(p)
      BY <2>3, BeginKeeps
    <2>4. CASE Busy(p) \/ Rollback(p) \/ Crash(p) \/ Deliver(p)
      BY <2>4, OverStepKeeps
    <2>5. CASE Replay(p) \/ Conflict(p)
      BY <2>5, ReplayKeeps, ConflictKeeps
    <2>6. CASE Receipt(p) \/ RecordIdempotency(p)
      BY <2>6, ReceiptKeeps, RecordKeeps
    <2>7. CASE \E ts \in Times : Ingest(p, ts) \/ StartRun(p, ts) \/ FinishRun(p, ts) \/ AppendEvent(p, ts)
      BY <2>7, IngestKeeps, StartRunKeeps, FinishRunKeeps, AppendKeeps
    <2>8. CASE Commit(p)
      BY <2>8, CommitKeeps
    <2>9. QED
      BY <2>1, <2>2, <2>3, <2>4, <2>5, <2>6, <2>7, <2>8 DEF Work
  <1>3. QED
    BY <1>1, <1>2

THEOREM SpineInvariant == Spec => []SpineInv
  <1>1. SpineInv /\ [Next]_vars => SpineInv'
    BY SpineStep
  <1>2. QED
    BY <1>1, InitSpineInv, PTL DEF Spec

\* Types of every row and response, whatever the processes do.
THEOREM SpineTypeCorrect == Spec => []TypeOK
  <1>1. SpineInv => TypeOK
    BY DEF SpineInv
  <1>2. QED
    BY <1>1, SpineInvariant, PTL

----------------------------------------------------------------------------
(* The hash chain *)

\* What a step of a process can make of the two databases.
WriterView(d) ==
  \/ d \in {db, tx}
  \/ d.log = tx.log /\ d.autoinc = tx.autoinc
  \/ \E ts \in Times, kind \in Kinds, about \in Topics :
       LET e == WithEvent(tx, EventRow(tx, ts, kind, about))
       IN  d.log = e.log /\ d.autoinc = e.autoinc

LEMMA StepWrites ==
  ASSUME SpineInv, [Next]_vars
  PROVE  db' \in {db, tx} /\ WriterView(tx')
  <1>1. CASE UNCHANGED vars
    BY <1>1 DEF vars, WriterView
  <1>2. CASE Next
    <2>1. PICK p \in Processes : Start(p) \/ Work(p) \/ Crash(p)
      BY <1>2 DEF Next
    <2>2. CASE Start(p) \/ Begin(p) \/ Busy(p) \/ Replay(p) \/ Conflict(p)
      BY <2>2 DEF Start, StartSubmit, StartAppend, Begin, Busy, Replay, Conflict, WriterView
    <2>3. CASE Commit(p) \/ Rollback(p) \/ Deliver(p) \/ Crash(p)
      BY <2>3 DEF Commit, Rollback, Deliver, Crash, WriterView
    <2>4. CASE Receipt(p) \/ RecordIdempotency(p)
      BY <2>4 DEF SpineInv, TypeOK, Databases, Receipt, RecordIdempotency, WriterView
    <2>5. ASSUME NEW ts \in Times, Ingest(p, ts) PROVE db' \in {db, tx} /\ WriterView(tx')
      <3>1. job[p].request.key \in Topics /\ "TASK_INGESTED" \in Kinds
        BY <2>5, SubmitJob DEF Ingest, Kinds, KernelKinds
      <3>2. QED
        BY <2>5, <3>1 DEF Ingest, WriterView
    <2>6. ASSUME NEW ts \in Times, StartRun(p, ts) PROVE db' \in {db, tx} /\ WriterView(tx')
      <3>1. job[p].request.key \in Topics /\ "RECIPE_RUN_STARTED" \in Kinds
        BY <2>6, SubmitJob DEF StartRun, Kinds, KernelKinds
      <3>2. QED
        BY <2>6, <3>1 DEF StartRun, WriterView
    <2>7. ASSUME NEW ts \in Times, FinishRun(p, ts) PROVE db' \in {db, tx} /\ WriterView(tx')
      <3> DEFINE e == WithEvent(tx, EventRow(tx, ts, "RESULT_VERIFIED", job[p].request.key))
      <3>1. job[p].request.key \in Topics /\ "RESULT_VERIFIED" \in Kinds
        BY <2>7, SubmitJob DEF FinishRun, Kinds, KernelKinds
      <3>2. e \in Databases
        BY <3>1, RowTyped DEF SpineInv, TypeOK
      <3>3. tx'.log = e.log /\ tx'.autoinc = e.autoinc
        <4> HIDE DEF e
        <4>1. PICK messages : tx' = [e EXCEPT !.messages = messages]
          BY <2>7 DEF FinishRun, e
        <4>2. QED
          BY <3>2, <4>1 DEF Databases
      <3>4. QED
        BY <2>7, <3>1, <3>3 DEF FinishRun, WriterView
    <2>8. ASSUME NEW ts \in Times, AppendEvent(p, ts) PROVE db' \in {db, tx} /\ WriterView(tx')
      <3>1. job[p] \in [op : {"append"}, note : Notes]
        BY <2>8 DEF SpineInv, TypeOK, StepInv, AppendEvent, Jobs, NoJob
      <3>2. job[p].note.kind \in Kinds /\ job[p].note.about \in Topics
        BY <3>1 DEF Kinds, Topics
      <3>3. QED
        BY <2>8, <3>2 DEF AppendEvent, WriterView
    <2>9. QED
      BY <2>1, <2>2, <2>3, <2>4, <2>5, <2>6, <2>7, <2>8 DEF Work
  <1>3. QED
    BY <1>1, <1>2

LEMMA ChainStep == ASSUME SpineInv, ChainInv, [Next]_vars PROVE ChainInv'
  <1>1. db' \in {db, tx} /\ WriterView(tx')
    BY StepWrites
  <1>2. tx \in Databases
    BY DEF SpineInv, TypeOK
  <1>3. Chained(tx')
    BY <1>1, <1>2, RowChained DEF WriterView, ChainInv, Chained
  <1>4. QED
    BY <1>1, <1>3 DEF ChainInv

\* verify_chain accepts every committed log: one writer at a time, a number
\* taken per row kept, and the link to the last committed row.
THEOREM ChainTheorem == Spec => []ChainVerifies
  <1>1. SpineInv /\ ChainInv /\ [Next]_vars => ChainInv'
    BY ChainStep
  <1>2. ChainInv => ChainVerifies
    BY DEF ChainInv, Chained, ChainVerifies
  <1>3. QED
    BY <1>1, <1>2, InitChainInv, SpineInvariant, PTL DEF Spec
============================================================================
