------------------------------- MODULE Spine -------------------------------
(***************************************************************************)
(* The durable spine: EventLog::submit and EventLog::append_event of       *)
(* crates/orchestrator-kernel-sidecar, run by orch-kernelctl processes     *)
(* that share one SQLite database.                                         *)
(*                                                                         *)
(* Every process opens BEGIN IMMEDIATE, works on its own view of the       *)
(* database, statement group by statement group, and commits or rolls      *)
(* back.  One action is one group; a process may fail or be killed between *)
(* any two of them, before its reply is read included.                     *)
(*                                                                         *)
(* Data kept abstract: a request is its key, its canonical body and        *)
(* whether it asks for verify_chain; a table is the set of its rows;       *)
(* SHA-256 is an injective function of what it is given; the clock reads   *)
(* any of Times, twice the same or backwards included.                     *)
(***************************************************************************)
EXTENDS Naturals, Sequences, FiniteSets

CONSTANTS Processes,  \* orch-kernelctl processes
          Requests,   \* records [key, body, verify]
          Notes,      \* records [kind, about] that append writes
          Times       \* clock readings, in nanoseconds

KernelKinds == {"TASK_INGESTED", "RECIPE_RUN_STARTED", "RESULT_VERIFIED"}

\* append accepts any well-formed kind, the kernel's own included; those that
\* call it (perceive, dcg-admit, compensation) use kinds of their own.
ASSUME NotesAreNotTasks == \A n \in Notes : n.kind \notin KernelKinds
ASSUME NotesAreRecords == \A n \in Notes : n = [kind |-> n.kind, about |-> n.about]
ASSUME VerifyIsBoolean == \A r \in Requests : r.verify \in BOOLEAN

VARIABLES db,      \* the committed database
          tx,      \* the writer's view, committed or dropped as a whole
          writer,  \* the process between BEGIN IMMEDIATE and its end, a set
          pc,      \* the statement group each process executes next
          job,     \* what each process was started for
          reply,   \* the response each process has built
          told     \* every reply some caller has read

vars == <<db, tx, writer, pc, job, reply, told>>

Keys == {r.key : r \in Requests}

\* submit_request_hash: the trace and the key are not part of it.
RequestHash(r) == <<r.body, r.verify>>
Hashes == {RequestHash(r) : r \in Requests}

Genesis == <<>>

\* hash_event: the previous hash and the canonical row.
Digest(prev, id, about) == Append(prev, <<id, about>>)

EmptyDb == [log |-> <<>>, autoinc |-> 0, warrants |-> {}, messages |-> {}, idempotency |-> {}]
NoJob == [op |-> "none"]
NoReply == [how |-> "NONE"]

LastHash(log) == IF log = <<>> THEN Genesis ELSE log[Len(log)].hash

\* make_event_id: the clock and the kind.
EventId(ts, kind) == <<ts, kind>>

\* append_event_unlocked: AUTOINCREMENT, the link to the last row, the hash.
EventRow(d, ts, kind, about) ==
  LET id == EventId(ts, kind)
  IN  [seq |-> d.autoinc + 1, id |-> id, kind |-> kind, about |-> about,
       prev |-> LastHash(d.log), hash |-> Digest(LastHash(d.log), id, about)]

\* event_id is UNIQUE.
FreshId(d, id) == \A i \in DOMAIN d.log : d.log[i].id # id

WithEvent(d, row) == [d EXCEPT !.log = Append(@, row), !.autoinc = row.seq]

\* Fault: verify_chain follows the links and never recomputes a hash.
VerifyLinks(log) ==
  \A i \in DOMAIN log :
    /\ log[i].seq = i
    /\ log[i].prev = IF i = 1 THEN Genesis ELSE log[i - 1].hash

\* verify_chain: sequence numbers, links and hashes of all rows.
VerifyChain(log) ==
  \A i \in DOMAIN log :
    LET prev == IF i = 1 THEN Genesis ELSE log[i - 1].hash
    IN  /\ log[i].seq = i
        /\ log[i].prev = prev
        /\ log[i].hash = Digest(prev, log[i].id, log[i].about)

Init ==
  /\ db = EmptyDb
  /\ tx = EmptyDb
  /\ writer = {}
  /\ pc = [p \in Processes |-> "idle"]
  /\ job = [p \in Processes |-> NoJob]
  /\ reply = [p \in Processes |-> NoReply]
  /\ told = {}

Goto(p, step) == pc' = [pc EXCEPT ![p] = step]

----------------------------------------------------------------------------
\* orch-kernelctl submit / append is started.
StartSubmit(p, r) ==
  /\ pc[p] = "idle"
  /\ job' = [job EXCEPT ![p] = [op |-> "submit", request |-> r]]
  /\ Goto(p, "begin")
  /\ UNCHANGED <<db, tx, writer, reply, told>>

StartAppend(p, n) ==
  /\ pc[p] = "idle"
  /\ job' = [job EXCEPT ![p] = [op |-> "append", note |-> n]]
  /\ Goto(p, "begin")
  /\ UNCHANGED <<db, tx, writer, reply, told>>

\* begin_immediate: one writer at a time, which sees all that was committed.
Begin(p) ==
  /\ pc[p] = "begin"
  /\ writer = {}
  /\ writer' = {p}
  /\ tx' = db
  /\ Goto(p, IF job[p].op = "submit" THEN "lookup" ELSE "append")
  /\ UNCHANGED <<db, job, reply, told>>

\* The process is over: without a reply for its caller, or with one read.
Over(p) ==
  /\ Goto(p, "idle")
  /\ job' = [job EXCEPT ![p] = NoJob]
  /\ reply' = [reply EXCEPT ![p] = NoReply]

\* busy_timeout runs out while another process holds the write lock.
Busy(p) ==
  /\ pc[p] = "begin"
  /\ writer # {}
  /\ Over(p)
  /\ UNCHANGED <<db, tx, writer, told>>

InTransaction(p) == writer = {p}

Respond(p, how, answer) ==
  reply' = [reply EXCEPT ![p] =
    [how |-> how, key |-> answer.key, request |-> answer.request,
     event |-> answer.event, hash |-> answer.hash, state |-> answer.state]]

\* Fault: a known key is replayed whatever the request.
ReplayAnything(p) ==
  LET r == job[p].request
  IN  /\ pc[p] = "lookup"
      /\ \E row \in tx.idempotency : row.key = r.key /\ Respond(p, "REPLAY", row)
      /\ Goto(p, "commit")
      /\ UNCHANGED <<db, tx, writer, job, told>>

\* submit_unlocked, key known and request unchanged: the stored response.
Replay(p) ==
  LET r == job[p].request
  IN  /\ pc[p] = "lookup"
      /\ \E row \in tx.idempotency :
           /\ row.key = r.key
           /\ row.request = RequestHash(r)
           /\ Respond(p, "REPLAY", row)
      /\ Goto(p, "commit")
      /\ UNCHANGED <<db, tx, writer, job, told>>

\* submit_unlocked, key known for another request: a NACK without an event.
Conflict(p) ==
  LET r == job[p].request
  IN  /\ pc[p] = "lookup"
      /\ \E row \in tx.idempotency : row.key = r.key /\ row.request # RequestHash(r)
      /\ Respond(p, "CONFLICT", [key |-> r.key, request |-> RequestHash(r),
                                 event |-> <<>>, hash |-> Genesis, state |-> "REJECTED"])
      /\ Goto(p, "commit")
      /\ UNCHANGED <<db, tx, writer, job, told>>

\* submit_unlocked, key unknown: the TASK_INGESTED event.
Ingest(p, ts) ==
  LET r   == job[p].request
      row == EventRow(tx, ts, "TASK_INGESTED", r.key)
  IN  /\ pc[p] = "lookup"
      /\ \A known \in tx.idempotency : known.key # r.key
      /\ FreshId(tx, row.id)
      /\ tx' = WithEvent(tx, row)
      /\ Respond(p, "NEW", [key |-> r.key, request |-> RequestHash(r),
                            event |-> row.id, hash |-> row.hash, state |-> "INGESTED"])
      /\ Goto(p, "receipt")
      /\ UNCHANGED <<db, writer, job, told>>

\* record_warrant, record_message; msg_id, made of the key, is a PRIMARY KEY.
Receipt(p) ==
  LET r == job[p].request
  IN  /\ pc[p] = "receipt"
      /\ \A m \in tx.messages : m.key # r.key
      /\ tx' = [tx EXCEPT
                  !.warrants = @ \cup {[event |-> reply[p].event, request |-> RequestHash(r)]},
                  !.messages = @ \cup {[key |-> r.key, integration |-> "INGESTED"]}]
      /\ Goto(p, IF r.verify THEN "run" ELSE "record")
      /\ UNCHANGED <<db, writer, job, reply, told>>

\* Fault: the start of a run is committed on its own.
CommitRunStart(p, ts) ==
  LET row == EventRow(tx, ts, "RECIPE_RUN_STARTED", job[p].request.key)
  IN  /\ pc[p] = "run"
      /\ FreshId(tx, row.id)
      /\ tx' = WithEvent(tx, row)
      /\ db' = tx'
      /\ Goto(p, "verify")
      /\ UNCHANGED <<writer, job, reply, told>>

\* execute_verify_chain_recipe up to the verification ...
StartRun(p, ts) ==
  LET row == EventRow(tx, ts, "RECIPE_RUN_STARTED", job[p].request.key)
  IN  /\ pc[p] = "run"
      /\ FreshId(tx, row.id)
      /\ tx' = WithEvent(tx, row)
      /\ Goto(p, "verify")
      /\ UNCHANGED <<db, writer, job, reply, told>>

\* Fault: the semantic state is written where the integration state belongs.
StatesSwapped(p, ts) ==
  LET k   == job[p].request.key
      row == EventRow(tx, ts, "RESULT_VERIFIED", k)
  IN  /\ pc[p] = "verify"
      /\ FreshId(tx, row.id)
      /\ tx' = [WithEvent(tx, row) EXCEPT
                  !.messages = {IF m.key = k THEN [m EXCEPT !.integration = "VERIFIED"] ELSE m : m \in @}]
      /\ reply' = [reply EXCEPT ![p].state = "INTEGRATED"]
      /\ Goto(p, "record")
      /\ UNCHANGED <<db, writer, job, told>>

\* What a run may find: VERIFIED of a good chain only; FAILED of any chain, as
\* an error of the reads or of a row's decoding is taken for a bad one.
Outcomes(log) == {"FAILED"} \cup (IF VerifyChain(log) THEN {"INTEGRATED"} ELSE {})

\* ... the verification, its RESULT_VERIFIED event and the message row; the
\* response says INTEGRATED whatever the verification found.
FinishRun(p, ts) ==
  LET k   == job[p].request.key
      row == EventRow(tx, ts, "RESULT_VERIFIED", k)
  IN  /\ pc[p] = "verify"
      /\ FreshId(tx, row.id)
      /\ \E outcome \in Outcomes(tx.log) :
           tx' = [WithEvent(tx, row) EXCEPT
                   !.messages = {IF m.key = k THEN [m EXCEPT !.integration = outcome] ELSE m : m \in @}]
      /\ reply' = [reply EXCEPT ![p].state = "INTEGRATED"]
      /\ Goto(p, "record")
      /\ UNCHANGED <<db, writer, job, told>>

\* Fault: the replay record is written as if no recipe had run.
RecordIngestOnly(p) ==
  LET a == reply[p]
  IN  /\ pc[p] = "record"
      /\ tx' = [tx EXCEPT !.idempotency =
                  @ \cup {[key |-> a.key, request |-> a.request, event |-> a.event,
                           hash |-> a.hash, state |-> "INGESTED"]}]
      /\ Goto(p, "commit")
      /\ UNCHANGED <<db, writer, job, reply, told>>

\* record_idempotency: the key and the response a replay will get.
RecordIdempotency(p) ==
  LET a == reply[p]
  IN  /\ pc[p] = "record"
      /\ tx' = [tx EXCEPT !.idempotency =
                  @ \cup {[key |-> a.key, request |-> a.request, event |-> a.event,
                           hash |-> a.hash, state |-> a.state]}]
      /\ Goto(p, "commit")
      /\ UNCHANGED <<db, writer, job, reply, told>>

\* append_event: the whole of its transaction but the ends.
AppendEvent(p, ts) ==
  LET n   == job[p].note
      row == EventRow(tx, ts, n.kind, n.about)
  IN  /\ pc[p] = "append"
      /\ FreshId(tx, row.id)
      /\ tx' = WithEvent(tx, row)
      /\ Goto(p, "commit")
      /\ UNCHANGED <<db, writer, job, reply, told>>

\* Fault: the reply is sent although nothing was committed.
ReplyUncommitted(p) ==
  /\ pc[p] = "commit"
  /\ tx' = db
  /\ writer' = {}
  /\ Goto(p, "reply")
  /\ UNCHANGED <<db, job, reply, told>>

\* finish_transaction with Ok.
Commit(p) ==
  /\ pc[p] = "commit"
  /\ db' = tx
  /\ writer' = {}
  /\ Goto(p, "reply")
  /\ UNCHANGED <<tx, job, reply, told>>

\* Faults of the error path: what was written so far is committed; the sequence
\* numbers of the rows dropped stay used.
CommitOnError(p) ==
  /\ InTransaction(p)
  /\ db' = tx
  /\ writer' = {}
  /\ Over(p)
  /\ UNCHANGED <<tx, told>>

BurnSequence(p) ==
  /\ InTransaction(p)
  /\ db' = [db EXCEPT !.autoinc = tx.autoinc]
  /\ tx' = db'
  /\ writer' = {}
  /\ Over(p)
  /\ UNCHANGED told

\* finish_transaction with Err: validation, policy, an id taken, an I/O error.
Rollback(p) ==
  /\ InTransaction(p)
  /\ tx' = db
  /\ writer' = {}
  /\ Over(p)
  /\ UNCHANGED <<db, told>>

\* The process dies; SQLite recovers what was committed and nothing else.
Crash(p) ==
  /\ pc[p] # "idle"
  /\ tx' = IF InTransaction(p) THEN db ELSE tx
  /\ writer' = writer \ {p}
  /\ Over(p)
  /\ UNCHANGED <<db, told>>

\* The caller reads the response printed after the commit.
Deliver(p) ==
  /\ pc[p] = "reply"
  /\ told' = told \cup (IF job[p].op = "append" THEN {} ELSE
       {[asked |-> RequestHash(job[p].request), answer |-> reply[p]]})
  /\ Over(p)
  /\ UNCHANGED <<db, tx, writer>>

----------------------------------------------------------------------------
Start(p) == (\E r \in Requests : StartSubmit(p, r)) \/ (\E n \in Notes : StartAppend(p, n))

Work(p) ==
  \/ Begin(p) \/ Busy(p)
  \/ Replay(p) \/ Conflict(p) \/ Receipt(p) \/ RecordIdempotency(p)
  \/ \E ts \in Times : Ingest(p, ts) \/ StartRun(p, ts) \/ FinishRun(p, ts) \/ AppendEvent(p, ts)
  \/ Commit(p) \/ Rollback(p) \/ Deliver(p)

Next == \E p \in Processes : Start(p) \/ Work(p) \/ Crash(p)

Spec == Init /\ [][Next]_vars
----------------------------------------------------------------------------
Kinds == KernelKinds \cup {n.kind : n \in Notes}
Topics == Keys \cup {n.about : n \in Notes}
EventIds == Times \X Kinds
Digests == Seq(EventIds \X Topics)

Rows == [seq : Nat, id : EventIds, kind : Kinds, about : Topics, prev : Digests, hash : Digests]
States == {"INGESTED", "INTEGRATED", "FAILED"}
Records == [key : Keys, request : Hashes, event : EventIds, hash : Digests, state : States]
Databases ==
  [log : Seq(Rows), autoinc : Nat,
   warrants : SUBSET [event : EventIds, request : Hashes],
   messages : SUBSET [key : Keys, integration : States],
   idempotency : SUBSET Records]
Acks ==
  [how : {"NEW", "REPLAY"}, key : Keys, request : Hashes, event : EventIds, hash : Digests, state : States]
Nacks ==
  [how : {"CONFLICT"}, key : Keys, request : Hashes, event : {<<>>}, hash : {Genesis}, state : {"REJECTED"}]
Replies == Acks \cup Nacks
Jobs == [op : {"submit"}, request : Requests] \cup [op : {"append"}, note : Notes] \cup {NoJob}
Steps == {"idle", "begin", "lookup", "receipt", "run", "verify", "record", "append", "commit", "reply"}

TypeOK ==
  /\ db \in Databases
  /\ tx \in Databases
  /\ writer \in SUBSET Processes
  /\ pc \in [Processes -> Steps]
  /\ job \in [Processes -> Jobs]
  /\ reply \in [Processes -> Replies \cup {NoReply}]
  /\ told \in SUBSET [asked : Hashes, answer : Replies]

\* What verify_chain checks holds of every committed log, whatever was rolled
\* back or killed on the way: links, hashes, and sequence numbers without a gap.
ChainVerifies == VerifyChain(db.log)

Of(d, kind, k) == {i \in DOMAIN d.log : d.log[i].kind = kind /\ d.log[i].about = k}

\* The keys whose task has run.
Ran(d) == {d.log[i].about : i \in {j \in DOMAIN d.log : d.log[j].kind = "RESULT_VERIFIED"}}

\* test concurrent_same_idempotency_key_admits_once_and_replays: a key enters the
\* log once, although any number of processes submit it, fail and try again.
OneIngestPerKey ==
  \A i, j \in DOMAIN db.log :
    (/\ db.log[i].kind = "TASK_INGESTED"
     /\ db.log[j].kind = "TASK_INGESTED"
     /\ db.log[i].about = db.log[j].about) => i = j

\* README.md:76: event, warrant, message and idempotency record of a task are
\* in the database together or not at all.
AdmissionIsWhole ==
  \A k \in Keys :
    LET tasks == {db.log[i].id : i \in Of(db, "TASK_INGESTED", k)}
    IN  /\ tasks # {} <=> \E m \in db.messages : m.key = k
        /\ tasks = {r.event : r \in {x \in db.idempotency : x.key = k}}
        /\ \A id \in tasks : \E w \in db.warrants : w.event = id

\* A verify_chain run stands in the log directly after its task, start and
\* result together: no other writer gets in between, and no run is left open.
RunsAreWhole ==
  /\ \A i \in DOMAIN db.log : db.log[i].kind = "RECIPE_RUN_STARTED" =>
       /\ i + 1 \in DOMAIN db.log
       /\ db.log[i + 1].kind = "RESULT_VERIFIED"
       /\ db.log[i + 1].about = db.log[i].about
  /\ \A i \in DOMAIN db.log : db.log[i].kind = "RESULT_VERIFIED" =>
       /\ i > 2
       /\ db.log[i - 1].kind = "RECIPE_RUN_STARTED"
       /\ db.log[i - 2].kind = "TASK_INGESTED"
       /\ db.log[i - 2].about = db.log[i].about

IsAck(t) == t.answer.how # "CONFLICT"

\* README.md:76 "ACK_DURABLE only after event append, hash-chain update": the
\* event and hash a caller was told of are in the committed log.
AckIsInLog ==
  \A t \in told : IsAck(t) =>
    \E i \in DOMAIN db.log : db.log[i].id = t.answer.event /\ db.log[i].hash = t.answer.hash

\* TESTING.md:90 and 91: callers of one key are told of the same event if they
\* asked for the same thing, and refused if they asked for another.
RepliesAgree ==
  \A t, u \in told : t.answer.key = u.answer.key =>
    /\ IsAck(t) /\ IsAck(u) =>
         /\ t.asked = u.asked
         /\ t.answer.event = u.answer.event
         /\ t.answer.hash = u.answer.hash
    /\ IsAck(t) /\ ~IsAck(u) => t.asked # u.asked

\* lib.rs:320 "Integration state after admission": INTEGRATED is told, by a first
\* answer or a replay, of the tasks whose run is in the log and of no others, and
\* their messages, and no others, have left INGESTED.  Whether the run verified is
\* on the message alone: it may be FAILED there while its caller reads INTEGRATED.
StateToldMeansRun ==
  /\ \A t \in told : IsAck(t) => (t.answer.state = "INTEGRATED" <=> t.answer.key \in Ran(db))
  /\ \A r \in db.idempotency : r.state = "INTEGRATED" <=> r.key \in Ran(db)
  /\ \A m \in db.messages : m.integration # "INGESTED" <=> m.key \in Ran(db)

\* The promise: the processes together implement one log with atomic admission.
Entry(row) == [kind |-> row.kind, about |-> row.about]
Committed == INSTANCE EventLog WITH
  log <- [i \in DOMAIN db.log |-> Entry(db.log[i])],
  receipts <- {[key |-> r.key, request |-> r.request] : r \in db.idempotency}
RefinesEventLog == Committed!Spec
============================================================================
