------------------------------ MODULE DcgAdmit ------------------------------
(***************************************************************************)
(* admit_write of crates/dcg-admit: one dcg-admit process per delegated    *)
(* write, each a series of subprocesses (atuin, orch-kernelctl).  An       *)
(* action is one subprocess call and what the code does with its outcome;  *)
(* other processes, the owner of the arming key and failures come between  *)
(* any two calls.  A dcg-admit that is killed does not take the call it is *)
(* in with it: that runs on by itself and ends later, or never.            *)
(*                                                                         *)
(* The spine is the abstract log of EventLog, which Spine implements:      *)
(* submit is one Admit, append is one AddNote.  The sequence number of an  *)
(* event is its position.  A request is its resource, its trace (which is  *)
(* also the idempotency key), its fence, its warrant kind and its payload. *)
(***************************************************************************)
EXTENDS Integers, Sequences, FiniteSets

CONSTANTS Processes,   \* dcg-admit processes
          Requests,    \* records [resource, trace, fence, kind, body]
          SentSchema,  \* the schema submit_actuation writes
          Bound        \* bound on each of Bounded in a behaviour

Bounded == {"starts", "failures", "crashes", "notes", "toggles"}

ASSUME ProcessesFinite == IsFiniteSet(Processes)
ASSUME RequestsHaveFences == \A q \in Requests : q.fence \in Nat
ASSUME BoundIsNat == Bound \in [Bounded -> Nat]

VARIABLES log, receipts,  \* the spine
          armed,          \* the arming key reads "armed"
          pc,             \* the call each process makes next
          job,            \* its request
          ticket,         \* the sequence number of its WarrantReceipt
          told,           \* what admit_write returned, to whom
          allowed,        \* writes that may still be admitted after a disarm
          orphans,        \* calls that still run though their process is gone
          raced,          \* two processes or orphans were at work on one resource
          spent           \* how much of each bound is used up

spineVars == <<log, receipts>>
vars == <<log, receipts, armed, pc, job, ticket, told, allowed, orphans, raced, spent>>

Resources == {q.resource : q \in Requests}
Traces == {q.trace : q \in Requests}

\* record_fence: an event of trace dcg-fence:<resource>.
FenceNote(q) == [kind |-> "dcg.fence.admitted", about |-> [resource |-> q.resource, fence |-> q.fence]]
Compensation(q) == [kind |-> "dcg.compensate", about |-> q.trace]
Perceived == [kind |-> "perceive.snapshot", about |-> "fleet"]

Log == INSTANCE EventLog WITH
  Keys <- Traces,
  Hashes <- {q.body : q \in Requests},
  Notes <- {FenceNote(q) : q \in Requests} \cup {Compensation(q) : q \in Requests} \cup {Perceived}

\* validate_submit_request and resolve_policy_decision of the sidecar, with the
\* shipped policy, which allows every task that asks for no recipe.
SpineAccepts(q) == SentSchema = "habitat.kernel.submit.request.v1" /\ q.kind = "TASK"

IsFence(i, r) == log[i].kind = "dcg.fence.admitted" /\ log[i].about.resource = r

\* read_last_fence: the fence of the resource's last event, GENESIS without one.
LastFence(r, f) ==
  \/ f = 0 /\ \A i \in DOMAIN log : ~IsFence(i, r)
  \/ \E i \in DOMAIN log :
       /\ IsFence(i, r)
       /\ \A j \in DOMAIN log : IsFence(j, r) => j <= i
       /\ f = log[i].about.fence

NoJob == [trace |-> "none"]

Init ==
  /\ Log!Init
  /\ armed = TRUE
  /\ pc = [p \in Processes |-> "idle"]
  /\ job = [p \in Processes |-> NoJob]
  /\ ticket = [p \in Processes |-> 0]
  /\ told = {}
  /\ allowed = 0
  /\ orphans = {}
  /\ raced = FALSE
  /\ spent = [b \in Bounded |-> 0]

Spend(b) ==
  /\ spent[b] < Bound[b]
  /\ spent' = [spent EXCEPT ![b] = @ + 1]

Goto(p, call) == pc' = [pc EXCEPT ![p] = call]

Idle(p) ==
  /\ Goto(p, "idle")
  /\ job' = [job EXCEPT ![p] = NoJob]
  /\ ticket' = [ticket EXCEPT ![p] = 0]

\* Fault: the answer is made after the request is given up.
AnswerTooLate(p, how) ==
  /\ Idle(p)
  /\ told' = told \cup {[request |-> job'[p], how |-> how, seq |-> ticket'[p]]}

\* admit_write returns.
Return(p, how) ==
  /\ told' = told \cup {[request |-> job[p], how |-> how, seq |-> ticket[p]]}
  /\ Idle(p)

----------------------------------------------------------------------------
\* A write to r has not ended, or a call of one.
AtWork(r) ==
  \/ \E p \in Processes : pc[p] # "idle" /\ job[p].resource = r
  \/ \E o \in orphans : o.request.resource = r

Start(p, q) ==
  /\ pc[p] = "idle"
  /\ Spend("starts")
  /\ job' = [job EXCEPT ![p] = q]
  /\ Goto(p, "arming")
  /\ raced' = (raced \/ AtWork(q.resource))
  /\ UNCHANGED <<log, receipts, armed, ticket, told, allowed, orphans>>

\* Fault: an unreadable key does not refuse the write.
ReadsUnknownAsArmed(p) ==
  /\ pc[p] = "arming"
  /\ Goto(p, "fence")
  /\ UNCHANGED <<log, receipts, armed, job, ticket, told, allowed, orphans, raced, spent>>

\* Guard 1: AtuinArmingReader::read says armed.
ReadArmed(p) ==
  /\ pc[p] = "arming"
  /\ armed
  /\ Goto(p, "fence")
  /\ UNCHANGED <<log, receipts, armed, job, ticket, told, allowed, orphans, raced, spent>>

\* ... or not, or atuin fails, which is Unknown and refused as well.
NotArmed(p) ==
  /\ pc[p] = "arming"
  /\ IF armed THEN Spend("failures") ELSE UNCHANGED spent
  /\ Return(p, "NotArmed")
  /\ UNCHANGED <<log, receipts, armed, allowed, orphans, raced>>

\* Fault: a fence that only equals the last one is let through.
NotOlder(f, last) == f >= last

\* Fence::supersedes
Supersedes(f, last) == f > last

\* Guard 2a: the presented fence must supersede the resource's last one.
CheckFence(p) ==
  /\ pc[p] = "fence"
  /\ \E last \in {0} \cup {q.fence : q \in Requests} :
       /\ LastFence(job[p].resource, last)
       /\ IF Supersedes(job[p].fence, last)
            THEN Goto(p, "bound") /\ UNCHANGED <<job, ticket, told>>
            ELSE Return(p, "StaleFence")
  /\ UNCHANGED <<log, receipts, armed, allowed, orphans, raced, spent>>

\* Fault: the fence is not bounded from above.
SkipSeq(p) ==
  /\ pc[p] = "bound"
  /\ Goto(p, "submit")
  /\ UNCHANGED <<log, receipts, armed, job, ticket, told, allowed, orphans, raced, spent>>

\* Guard 2b: and it must not exceed last_seq of a snapshot.
CheckSeq(p) ==
  /\ pc[p] = "bound"
  /\ IF job[p].fence <= Len(log)
       THEN Goto(p, "submit") /\ UNCHANGED <<job, ticket, told>>
       ELSE Return(p, "OutOfRange")
  /\ UNCHANGED <<log, receipts, armed, allowed, orphans, raced, spent>>

\* The spine takes the task.
Admit(q) ==
  /\ SpineAccepts(q)
  /\ Log!Admit(q.trace, q.body, FALSE)
  /\ allowed' = IF armed THEN allowed ELSE allowed - 1

Known(p) == \E r \in receipts : r.key = job[p].trace /\ r.request = job[p].body
Disputed(p) == \E r \in receipts : r.key = job[p].trace /\ r.request # job[p].body

\* Guard 3: submit_actuation.  The task is new, or the trace was used before
\* for the same request and the spine replays its answer.
Submit(p) ==
  /\ pc[p] = "submit"
  /\ \/ Admit(job[p])
     \/ SpineAccepts(job[p]) /\ Known(p) /\ UNCHANGED <<log, receipts, allowed>>
  /\ Goto(p, "ticket")
  /\ UNCHANGED <<armed, job, ticket, told, orphans, raced, spent>>

\* A used trace with another request: exit 0 with a null event_id.
SubmitConflicts(p) ==
  /\ pc[p] = "submit"
  /\ SpineAccepts(job[p]) /\ Disputed(p)
  /\ Return(p, "Parse")
  /\ UNCHANGED <<log, receipts, armed, allowed, orphans, raced, spent>>

\* validate_submit_request fails, orch-kernelctl exits non-zero.
SubmitRefused(p) ==
  /\ pc[p] = "submit"
  /\ ~SpineAccepts(job[p])
  /\ Return(p, "Denied")
  /\ UNCHANGED <<log, receipts, armed, allowed, orphans, raced, spent>>

\* Fault: a submit that fails is compensated although nothing was admitted.
SubmitFailsCompensated(p) ==
  /\ pc[p] = "submit"
  /\ Spend("failures")
  /\ Goto(p, "compensate")
  /\ UNCHANGED <<log, receipts, armed, job, ticket, told, allowed, orphans, raced>>

\* orch-kernelctl fails otherwise, before its commit or after it: by its exit
\* status, or because it cannot be started or printed no text.
SubmitFails(p) ==
  /\ pc[p] = "submit"
  /\ Spend("failures")
  /\ Admit(job[p]) \/ UNCHANGED <<log, receipts, allowed>>
  /\ \E how \in {"Denied", "Subprocess"} : Return(p, how)
  /\ UNCHANGED <<armed, orphans, raced>>

\* The snapshot after the submit, for the seq of the receipt.
TakeTicket(p) ==
  /\ pc[p] = "ticket"
  /\ ticket' = [ticket EXCEPT ![p] = Len(log)]
  /\ Goto(p, "record")
  /\ UNCHANGED <<log, receipts, armed, job, told, allowed, orphans, raced, spent>>

\* One of the reads fails, or what it printed cannot be used: admit_write gives
\* up, after the submit too.
ReadFails(p) ==
  /\ pc[p] \in {"fence", "bound", "ticket"}
  /\ Spend("failures")
  /\ \E how \in {"Subprocess", "Parse"} : Return(p, how)
  /\ UNCHANGED <<log, receipts, armed, allowed, orphans, raced>>

\* record_fence
RecordFence(p) ==
  /\ pc[p] = "record"
  /\ Log!AddNote(FenceNote(job[p]))
  /\ Return(p, "Admitted")
  /\ UNCHANGED <<armed, allowed, orphans, raced, spent>>

\* Fault: the receipt is returned although the fence was not recorded.
RecordFailureIgnored(p) ==
  /\ pc[p] = "record"
  /\ Spend("failures")
  /\ Return(p, "Admitted")
  /\ UNCHANGED <<log, receipts, armed, allowed, orphans, raced>>

\* The append fails, before its commit or after it.
RecordFails(p) ==
  /\ pc[p] = "record"
  /\ Spend("failures")
  /\ Log!AddNote(FenceNote(job[p])) \/ UNCHANGED spineVars
  /\ Goto(p, "compensate")
  /\ UNCHANGED <<armed, job, ticket, told, allowed, orphans, raced>>

\* saga::compensate, which may fail the same way; the error is returned.
Compensate(p) ==
  /\ pc[p] = "compensate"
  /\ \/ Log!AddNote(Compensation(job[p])) /\ UNCHANGED spent
     \/ /\ Spend("failures")
        /\ Log!AddNote(Compensation(job[p])) \/ UNCHANGED spineVars
  /\ Return(p, "Subprocess")
  /\ UNCHANGED <<armed, allowed, orphans, raced>>

Writes == {"submit", "record", "compensate"}

\* dcg-admit is killed, between two calls or in one that writes.
Crash(p) ==
  /\ pc[p] # "idle"
  /\ Spend("crashes")
  /\ Idle(p)
  /\ \/ UNCHANGED orphans
     \/ /\ pc[p] \in Writes
        /\ orphans' = orphans \cup {[call |-> pc[p], request |-> job[p], id |-> spent["crashes"]]}
  /\ UNCHANGED <<log, receipts, armed, told, allowed, raced>>

\* An orphaned call ends, with its effect on the spine or without one.
OrphanEnds(o) ==
  /\ orphans' = orphans \ {o}
  /\ \/ UNCHANGED <<log, receipts, allowed>>
     \/ o.call = "submit" /\ Admit(o.request)
     \/ o.call = "record" /\ Log!AddNote(FenceNote(o.request)) /\ UNCHANGED allowed
     \/ o.call = "compensate" /\ Log!AddNote(Compensation(o.request)) /\ UNCHANGED allowed
  /\ UNCHANGED <<armed, pc, job, ticket, told, raced, spent>>

LateSubmits == {o \in orphans : o.call = "submit"}

\* Processes that have read the key and not yet submitted.
Cleared == {p \in Processes : pc[p] \in {"fence", "bound", "submit"}}

\* The owner of the key sets it; this program only reads it.
ToggleArming ==
  /\ Spend("toggles")
  /\ armed' = ~armed
  /\ allowed' = IF armed THEN Cardinality(Cleared) + Cardinality(LateSubmits) ELSE 0
  /\ UNCHANGED <<log, receipts, pc, job, ticket, told, orphans, raced>>

\* Everything else that appends to the spine, orchestrator-perceive for one.
OtherEvent ==
  /\ Spend("notes")
  /\ Log!AddNote(Perceived)
  /\ UNCHANGED <<armed, pc, job, ticket, told, allowed, orphans, raced>>

Step(p) ==
  \/ \E q \in Requests : Start(p, q)
  \/ ReadArmed(p) \/ NotArmed(p)
  \/ CheckFence(p) \/ CheckSeq(p) \/ ReadFails(p)
  \/ Submit(p) \/ SubmitConflicts(p) \/ SubmitRefused(p) \/ SubmitFails(p)
  \/ TakeTicket(p) \/ RecordFence(p) \/ RecordFails(p) \/ Compensate(p)
  \/ Crash(p)

Next ==
  \/ \E p \in Processes : Step(p)
  \/ \E o \in orphans : OrphanEnds(o)
  \/ ToggleArming \/ OtherEvent

Spec == Init /\ [][Next]_vars
----------------------------------------------------------------------------
Calls == {"idle", "arming", "fence", "bound", "submit", "ticket", "record", "compensate"}
Outcomes == {"Admitted", "NotArmed", "StaleFence", "OutOfRange", "Denied", "Parse", "Subprocess"}
Entries == {Log!Ingested(t) : t \in Traces} \cup {FenceNote(q) : q \in Requests}
             \cup {Compensation(q) : q \in Requests} \cup {Perceived}

TypeOK ==
  /\ log \in Seq(Entries)
  /\ receipts \in SUBSET [key : Traces, request : {q.body : q \in Requests}]
  /\ armed \in BOOLEAN
  /\ pc \in [Processes -> Calls]
  /\ job \in [Processes -> Requests \cup {NoJob}]
  /\ \A p \in Processes : pc[p] # "idle" => job[p] \in Requests
  /\ ticket \in [Processes -> Nat]
  /\ told \in SUBSET [request : Requests, how : Outcomes, seq : Nat]
  /\ allowed \in Int
  /\ orphans \in SUBSET [call : Writes, request : Requests, id : Nat] /\ IsFiniteSet(orphans)
  /\ raced \in BOOLEAN
  /\ spent \in [Bounded -> Nat]

\* admit.rs:17 "recording it as the new floor permanently poisons the resource":
\* whatever was recorded, by whomever and in whatever order, a fence minted from
\* the sequence number of the newest event supersedes every resource's last one.
NotPoisoned ==
  \A r \in Resources, f \in {q.fence : q \in Requests} :
    LastFence(r, f) => f = 0 \/ f < Len(log)

\* A caller that got a receipt has its task in the log and its fence recorded
\* after it.
GrantIsRecorded ==
  \A t \in told : t.how = "Admitted" =>
    \E i, j \in DOMAIN log :
      i < j /\ log[i] = Log!Ingested(t.request.trace) /\ log[j] = FenceNote(t.request)

\* Only what was admitted is compensated, and after it was.
CompensationHasCause ==
  \A j \in DOMAIN log : log[j].kind = "dcg.compensate" =>
    \E i \in DOMAIN log : i < j /\ log[i] = Log!Ingested(log[j].about)

\* Disarming stops the fleet: after it, no more writes are admitted than there
\* were processes that had read the key before, orphaned submits included.
DisarmHolds == ~armed => allowed >= 0

\* lib.rs:13 "so a stale lease-holder cannot corrupt a fenced write": the fences
\* recorded for a resource rise ...
FencesRise ==
  \A i, j \in DOMAIN log : \A r \in Resources :
    i < j /\ IsFence(i, r) /\ IsFence(j, r) => log[i].about.fence < log[j].about.fence

\* ... which holds as long as the writes to a resource come one at a time, with
\* failures, crashes and retries of each, and no call of a write outlives it.
FencesRiseInTurn == ~raced => FencesRise

\* admit.rs:93 "Denied if the warrant policy refuses the actuation": the shipped
\* policy allows every task without a recipe, so no write is denied.
DeniedByPolicyOnly == \A t \in told : t.how # "Denied"

\* saga.rs:3 "the earlier effects must be neutralised": a task in the log that no
\* process is working on was granted to its caller or compensated.
FailureIsCompensated ==
  \A t \in Traces :
    /\ \E i \in DOMAIN log : log[i] = Log!Ingested(t)
    /\ \A p \in Processes : job[p].trace # t
    /\ \A o \in orphans : o.request.trace # t
    => \/ \E x \in told : x.how = "Admitted" /\ x.request.trace = t
       \/ \E i \in DOMAIN log : log[i] = [kind |-> "dcg.compensate", about |-> t]
============================================================================
