--------------------------- MODULE DcgAdmitProofs ---------------------------
(***************************************************************************)
(* admit_write for any number of processes, any requests and any bounds:   *)
(* no interleaving, failure or crash poisons a resource's fence floor, a   *)
(* receipt stands for a recorded write, and only writes are compensated.   *)
(***************************************************************************)
EXTENDS DcgAdmit, SequenceTheorems, FiniteSetTheorems, TLAPS

\* A fence is recorded only at a position behind its own value: it was checked
\* against a sequence number the log had reached before.
FencesBehind ==
  \A i \in DOMAIN log : log[i].kind = "dcg.fence.admitted" =>
    log[i].about.fence \in Nat /\ log[i].about.fence < i

TaskIn(l, t) == \E i \in DOMAIN l : l[i] = Log!Ingested(t)

\* What a process relies on between its calls.
CallInv(p) ==
  /\ pc[p] \in {"submit", "ticket", "record"} => job[p].fence <= Len(log)
  /\ pc[p] \in {"ticket", "record", "compensate"} => TaskIn(log, job[p].trace)

\* What a call relies on that runs on without its process.
OrphanInv(o) ==
  /\ o.call \in {"submit", "record"} => o.request.fence <= Len(log)
  /\ o.call \in {"record", "compensate"} => TaskIn(log, o.request.trace)

ReceiptsIn == \A r \in receipts : TaskIn(log, r.key)

\* The inductive invariant.
DcgInv ==
  /\ TypeOK
  /\ \A p \in Processes : CallInv(p)
  /\ \A o \in orphans : OrphanInv(o)
  /\ ReceiptsIn
  /\ FencesBehind
  /\ CompensationHasCause
  /\ GrantIsRecorded

----------------------------------------------------------------------------
(* The log *)

LogGrows == log' = log \/ \E e \in Entries : log' = Append(log, e)

\* What the log had, it keeps.
LEMMA LogKeeps ==
  ASSUME log \in Seq(Entries), LogGrows
  PROVE  /\ log' \in Seq(Entries)
         /\ Len(log) \in Nat /\ Len(log') \in Nat
         /\ Len(log) <= Len(log')
         /\ \A i \in DOMAIN log : i \in DOMAIN log' /\ log'[i] = log[i]
         /\ \A t : TaskIn(log, t) => TaskIn(log', t)
  <1>1. CASE log' = log
    BY <1>1 DEF TaskIn, Log!Ingested
  <1>2. ASSUME NEW e \in Entries, log' = Append(log, e)
        PROVE  /\ log' \in Seq(Entries)
               /\ Len(log) \in Nat /\ Len(log') \in Nat
               /\ Len(log) <= Len(log')
               /\ \A i \in DOMAIN log : i \in DOMAIN log' /\ log'[i] = log[i]
    BY <1>2, AppendProperties
  <1>3. ASSUME NEW e \in Entries, log' = Append(log, e), NEW t, TaskIn(log, t) PROVE TaskIn(log', t)
    BY <1>2, <1>3 DEF TaskIn, Log!Ingested
  <1>4. QED
    BY <1>1, <1>2, <1>3 DEF LogGrows

\* The spine takes a task: the log grows by its event.
LEMMA AdmitAppends ==
  ASSUME NEW k \in Traces, NEW h, log \in Seq(Entries), Log!Admit(k, h, FALSE)
  PROVE  /\ log' = Append(log, Log!Ingested(k))
         /\ Log!Ingested(k) \in Entries
         /\ receipts' = receipts \cup {[key |-> k, request |-> h]}
  <1>1. Log!Ingested(k) \in Entries
    BY DEF Entries
  <1>2. log' = (log \o <<Log!Ingested(k)>>) \o <<>>
    BY DEF Log!Admit
  <1>3. log \o <<Log!Ingested(k)>> = Append(log, Log!Ingested(k))
    BY <1>1, AppendIsConcat
  <1>4. Append(log, Log!Ingested(k)) \in Seq(Entries)
    BY <1>1, AppendProperties
  <1>5. Append(log, Log!Ingested(k)) \o <<>> = Append(log, Log!Ingested(k))
    BY <1>4, ConcatEmptySeq
  <1>6. QED
    BY <1>1, <1>2, <1>3, <1>5 DEF Log!Admit

\* An event that is appended: a fence must be at most as large as the log was
\* long, and a compensation must have its task.
LEMMA EntryKeeps ==
  ASSUME log \in Seq(Entries), FencesBehind, CompensationHasCause,
         NEW e \in Entries, log' = Append(log, e),
         e.kind = "dcg.fence.admitted" => e.about.fence \in Nat /\ e.about.fence <= Len(log),
         e.kind = "dcg.compensate" => TaskIn(log, e.about)
  PROVE  FencesBehind' /\ CompensationHasCause'
  <1>1. /\ Len(log) \in Nat
        /\ DOMAIN log = 1..Len(log)
        /\ DOMAIN log' = 1..(Len(log) + 1)
        /\ \A i \in DOMAIN log : log'[i] = log[i]
        /\ log'[Len(log) + 1] = e
    BY AppendProperties
  <1>2. ASSUME NEW i \in DOMAIN log', log'[i].kind = "dcg.fence.admitted"
        PROVE  log'[i].about.fence \in Nat /\ log'[i].about.fence < i
    <2>1. CASE i \in DOMAIN log
      BY <1>1, <1>2, <2>1 DEF FencesBehind
    <2>2. CASE i = Len(log) + 1
      BY <1>1, <1>2, <2>2
    <2>3. QED
      BY <1>1, <2>1, <2>2
  <1>3. ASSUME NEW j \in DOMAIN log', log'[j].kind = "dcg.compensate"
        PROVE  \E i \in DOMAIN log' : i < j /\ log'[i] = Log!Ingested(log'[j].about)
    <2>1. CASE j \in DOMAIN log
      <3>1. PICK i \in DOMAIN log : i < j /\ log[i] = Log!Ingested(log[j].about)
        BY <1>1, <1>3, <2>1 DEF CompensationHasCause
      <3>2. QED
        BY <1>1, <2>1, <3>1
    <2>2. CASE j = Len(log) + 1
      <3>1. PICK i \in DOMAIN log : log[i] = Log!Ingested(e.about)
        BY <1>1, <1>3, <2>2 DEF TaskIn
      <3>2. QED
        BY <1>1, <2>2, <3>1
    <2>3. QED
      BY <1>1, <2>1, <2>2
  <1>4. FencesBehind'
    BY <1>2 DEF FencesBehind
  <1>5. CompensationHasCause'
    BY <1>3 DEF CompensationHasCause, Log!Ingested
  <1>6. QED
    BY <1>4, <1>5

\* A recorded grant stays recorded.
LEMMA GrantsKeep ==
  ASSUME log \in Seq(Entries), LogGrows, GrantIsRecorded,
         \A t \in told' : t \in told \/ t.how # "Admitted"
  PROVE  GrantIsRecorded'
  <1> SUFFICES ASSUME NEW t \in told', t.how = "Admitted"
               PROVE  \E i, j \in DOMAIN log' :
                        i < j /\ log'[i] = Log!Ingested(t.request.trace) /\ log'[j] = FenceNote(t.request)
    BY DEF GrantIsRecorded, Log!Ingested, FenceNote
  <1>1. PICK i, j \in DOMAIN log :
          i < j /\ log[i] = Log!Ingested(t.request.trace) /\ log[j] = FenceNote(t.request)
    BY DEF GrantIsRecorded
  <1>2. QED
    BY <1>1, LogKeeps

----------------------------------------------------------------------------
(* Types *)

LEMMA EntriesOfRequests ==
  ASSUME NEW q \in Requests
  PROVE  /\ FenceNote(q) \in Entries /\ Compensation(q) \in Entries
         /\ q.trace \in Traces /\ q.resource \in Resources
  BY DEF Entries, Traces, Resources

LEMMA NoteAppends ==
  ASSUME NEW e \in Entries, log \in Seq(Entries), Log!AddNote(e)
  PROVE  log' = Append(log, e) /\ receipts' = receipts /\ log' \in Seq(Entries)
  BY AppendProperties DEF Log!AddNote

LEMMA AdmitTyped ==
  ASSUME TypeOK, NEW q \in Requests, Admit(q)
  PROVE  /\ log' = Append(log, Log!Ingested(q.trace))
         /\ Log!Ingested(q.trace) \in Entries
         /\ receipts' = receipts \cup {[key |-> q.trace, request |-> q.body]}
         /\ log' \in Seq(Entries)
         /\ receipts' \in SUBSET [key : Traces, request : {r.body : r \in Requests}]
         /\ allowed' \in Int
  <1>1. log \in Seq(Entries) /\ allowed \in Int
    BY DEF TypeOK
  <1>2. /\ log' = Append(log, Log!Ingested(q.trace))
        /\ Log!Ingested(q.trace) \in Entries
        /\ receipts' = receipts \cup {[key |-> q.trace, request |-> q.body]}
    BY <1>1, EntriesOfRequests, AdmitAppends DEF Admit
  <1>3. log' \in Seq(Entries)
    BY <1>1, <1>2, AppendProperties
  <1>4. [key |-> q.trace, request |-> q.body] \in [key : Traces, request : {r.body : r \in Requests}]
    BY EntriesOfRequests
  <1>5. receipts' \in SUBSET [key : Traces, request : {r.body : r \in Requests}]
    BY <1>2, <1>4 DEF TypeOK
  <1>6. allowed' \in Int
    BY <1>1 DEF Admit
  <1>7. QED
    BY <1>2, <1>3, <1>5, <1>6

\* The part of TypeOK that a process changes for itself.
ProcessesTyped ==
  /\ pc \in [Processes -> Calls]
  /\ job \in [Processes -> Requests \cup {NoJob}]
  /\ \A p \in Processes : pc[p] # "idle" => job[p] \in Requests
  /\ ticket \in [Processes -> Nat]
  /\ told \in SUBSET [request : Requests, how : Outcomes, seq : Nat]

LEMMA GotoTyped ==
  ASSUME TypeOK, NEW p \in Processes, pc[p] # "idle", NEW call \in Calls, Goto(p, call),
         UNCHANGED <<job, told>>, ticket' \in [Processes -> Nat]
  PROVE  ProcessesTyped'
  BY DEF TypeOK, Goto, ProcessesTyped

LEMMA IdleTyped ==
  ASSUME TypeOK, NEW p \in Processes, Idle(p), told' \in SUBSET [request : Requests, how : Outcomes, seq : Nat]
  PROVE  ProcessesTyped'
  BY DEF TypeOK, Idle, Goto, ProcessesTyped, Calls

LEMMA ReturnTyped ==
  ASSUME TypeOK, NEW p \in Processes, pc[p] # "idle", NEW how \in Outcomes, Return(p, how)
  PROVE  ProcessesTyped'
  <1>1. [request |-> job[p], how |-> how, seq |-> ticket[p]] \in [request : Requests, how : Outcomes, seq : Nat]
    BY DEF TypeOK
  <1>2. told' \in SUBSET [request : Requests, how : Outcomes, seq : Nat]
    BY <1>1 DEF TypeOK, Return
  <1>3. QED
    BY <1>2, IdleTyped DEF Return

LEMMA SpendTyped ==
  ASSUME TypeOK, NEW b \in Bounded, Spend(b)
  PROVE  spent' \in [Bounded -> Nat]
  BY DEF TypeOK, Spend

\* Only a crash leaves an orphan, and only its own end removes it.
LEMMA OrphansChange ==
  ASSUME [Next]_vars, \A p \in Processes : ~Crash(p)
  PROVE  orphans' = orphans \/ \E o \in orphans : OrphanEnds(o)
  <1>1. ASSUME NEW p \in Processes, Step(p) PROVE orphans' = orphans
    BY <1>1 DEF Step, Start, ReadArmed, NotArmed, CheckFence, CheckSeq, ReadFails, Submit,
       SubmitConflicts, SubmitRefused, SubmitFails, TakeTicket, RecordFence, RecordFails, Compensate
  <1>2. ASSUME ToggleArming \/ OtherEvent \/ UNCHANGED vars PROVE orphans' = orphans
    BY <1>2 DEF ToggleArming, OtherEvent, vars
  <1>3. QED
    BY <1>1, <1>2 DEF Next

LEMMA OrphansTyped ==
  ASSUME TypeOK, [Next]_vars
  PROVE  orphans' \in SUBSET [call : Writes, request : Requests, id : Nat] /\ IsFiniteSet(orphans')
  <1>1. orphans \in SUBSET [call : Writes, request : Requests, id : Nat] /\ IsFiniteSet(orphans)
    BY DEF TypeOK
  <1>2. ASSUME NEW p \in Processes, Crash(p), orphans' # orphans
        PROVE  orphans' \in SUBSET [call : Writes, request : Requests, id : Nat] /\ IsFiniteSet(orphans')
    <2> DEFINE o == [call |-> pc[p], request |-> job[p], id |-> spent["crashes"]]
    <2>1. orphans' = orphans \cup {o} /\ pc[p] \in Writes
      BY <1>2 DEF Crash
    <2>2. job[p] \in Requests /\ spent["crashes"] \in Nat
      BY <1>2 DEF Crash, TypeOK, Bounded
    <2>3. o \in [call : Writes, request : Requests, id : Nat]
      BY <2>1, <2>2
    <2> HIDE DEF o
    <2>4. QED
      BY <1>1, <2>1, <2>3, FS_AddElement
  <1>3. ASSUME NEW o \in orphans, OrphanEnds(o)
        PROVE  orphans' \in SUBSET [call : Writes, request : Requests, id : Nat] /\ IsFiniteSet(orphans')
    BY <1>1, <1>3, FS_RemoveElement DEF OrphanEnds
  <1>4. QED
    BY <1>1, <1>2, <1>3, OrphansChange

\* Every step keeps the types.
LEMMA TypeStep ==
  ASSUME TypeOK, [Next]_vars
  PROVE  TypeOK'
  <1> USE DEF Bounded
  <1>0. CASE UNCHANGED vars
    BY <1>0 DEF vars, TypeOK
  <1> SUFFICES ASSUME Next PROVE TypeOK'
    BY <1>0
  <1> DEFINE SpineTyped ==
        /\ log \in Seq(Entries)
        /\ receipts \in SUBSET [key : Traces, request : {q.body : q \in Requests}]
        /\ allowed \in Int
             FlagsTyped == armed \in BOOLEAN /\ raced \in BOOLEAN
  <1>a. SpineTyped
    BY DEF TypeOK
  <1> SUFFICES SpineTyped' /\ ProcessesTyped' /\ FlagsTyped' /\ spent' \in [Bounded -> Nat]
    BY OrphansTyped DEF TypeOK, ProcessesTyped
  <1>1. ASSUME NEW p \in Processes, Step(p)
        PROVE  SpineTyped' /\ ProcessesTyped' /\ FlagsTyped' /\ spent' \in [Bounded -> Nat]
    <2>1. ASSUME NEW q \in Requests, Start(p, q)
          PROVE  SpineTyped' /\ ProcessesTyped' /\ FlagsTyped' /\ spent' \in [Bounded -> Nat]
      <3>1. spent' \in [Bounded -> Nat]
        BY <2>1, SpendTyped DEF Start
      <3>2. ProcessesTyped'
        BY <2>1 DEF Start, Goto, TypeOK, ProcessesTyped, Calls
      <3>3. raced' \in BOOLEAN
        BY <2>1 DEF Start
      <3>4. QED
        BY <1>a, <2>1, <3>1, <3>2, <3>3 DEF Start, TypeOK
    <2>2. CASE ReadArmed(p)
      BY <1>a, <2>2, GotoTyped DEF ReadArmed, TypeOK, Calls
    <2>3. CASE NotArmed(p)
      <3>1. spent' \in [Bounded -> Nat]
        BY <2>3, SpendTyped DEF NotArmed, TypeOK
      <3>2. QED
        BY <1>a, <2>3, <3>1, ReturnTyped DEF NotArmed, TypeOK, Outcomes
    <2>4. CASE CheckFence(p)
      BY <1>a, <2>4, GotoTyped, ReturnTyped DEF CheckFence, TypeOK, Calls, Outcomes
    <2>5. CASE CheckSeq(p)
      BY <1>a, <2>5, GotoTyped, ReturnTyped DEF CheckSeq, TypeOK, Calls, Outcomes
    <2>6. CASE ReadFails(p)
      <3>1. spent' \in [Bounded -> Nat]
        BY <2>6, SpendTyped DEF ReadFails
      <3>2. QED
        BY <1>a, <2>6, <3>1, ReturnTyped DEF ReadFails, TypeOK, Outcomes
    <2>7. CASE Submit(p)
      <3>1. SpineTyped'
        BY <1>a, <2>7, AdmitTyped DEF Submit, TypeOK
      <3>2. QED
        BY <2>7, <3>1, GotoTyped DEF Submit, TypeOK, Calls
    <2>8. CASE SubmitConflicts(p)
      BY <1>a, <2>8, ReturnTyped DEF SubmitConflicts, TypeOK, Outcomes
    <2>9. CASE SubmitRefused(p)
      BY <1>a, <2>9, ReturnTyped DEF SubmitRefused, TypeOK, Outcomes
    <2>10. CASE SubmitFails(p)
      <3>1. SpineTyped'
        BY <1>a, <2>10, AdmitTyped DEF SubmitFails, TypeOK
      <3>2. spent' \in [Bounded -> Nat]
        BY <2>10, SpendTyped DEF SubmitFails
      <3>3. QED
        BY <2>10, <3>1, <3>2, ReturnTyped DEF SubmitFails, TypeOK, Outcomes
    <2>11. CASE TakeTicket(p)
      <3>1. ticket' \in [Processes -> Nat]
        BY <1>a, <2>11, LenProperties DEF TakeTicket, TypeOK
      <3>2. QED
        BY <1>a, <2>11, <3>1, GotoTyped DEF TakeTicket, TypeOK, Calls
    <2>12. CASE RecordFence(p)
      <3>1. job[p] \in Requests
        BY <2>12 DEF RecordFence, TypeOK
      <3>2. SpineTyped'
        BY <1>a, <2>12, <3>1, EntriesOfRequests, NoteAppends DEF RecordFence
      <3>3. QED
        BY <2>12, <3>2, ReturnTyped DEF RecordFence, TypeOK, Outcomes
    <2>13. CASE RecordFails(p)
      <3>1. job[p] \in Requests
        BY <2>13 DEF RecordFails, TypeOK
      <3>2. SpineTyped'
        BY <1>a, <2>13, <3>1, EntriesOfRequests, NoteAppends DEF RecordFails, spineVars
      <3>3. spent' \in [Bounded -> Nat]
        BY <2>13, SpendTyped DEF RecordFails
      <3>4. QED
        BY <2>13, <3>2, <3>3, GotoTyped DEF RecordFails, TypeOK, Calls
    <2>14. CASE Compensate(p)
      <3>1. job[p] \in Requests
        BY <2>14 DEF Compensate, TypeOK
      <3>2. SpineTyped'
        BY <1>a, <2>14, <3>1, EntriesOfRequests, NoteAppends DEF Compensate, spineVars
      <3>3. spent' \in [Bounded -> Nat]
        BY <2>14, SpendTyped DEF Compensate, TypeOK
      <3>4. QED
        BY <2>14, <3>2, <3>3, ReturnTyped DEF Compensate, TypeOK, Outcomes
    <2>15. CASE Crash(p)
      <3>1. spent' \in [Bounded -> Nat]
        BY <2>15, SpendTyped DEF Crash
      <3>2. told' \in SUBSET [request : Requests, how : Outcomes, seq : Nat]
        BY <2>15 DEF Crash, TypeOK
      <3>3. QED
        BY <1>a, <2>15, <3>1, <3>2, IdleTyped DEF Crash, TypeOK
    <2>16. QED
      BY <1>1, <2>1, <2>2, <2>3, <2>4, <2>5, <2>6, <2>7, <2>8, <2>9, <2>10, <2>11, <2>12,
         <2>13, <2>14, <2>15 DEF Step
  <1>2. CASE ToggleArming
    <2>1. spent' \in [Bounded -> Nat]
      BY <1>2, SpendTyped DEF ToggleArming
    <2>2. Cardinality(Cleared) \in Nat /\ Cardinality(LateSubmits) \in Nat
      BY ProcessesFinite, FS_Subset, FS_CardinalityType DEF Cleared, LateSubmits, TypeOK
    <2>3. allowed' \in Int
      BY <1>2, <2>2 DEF ToggleArming
    <2>4. QED
      BY <1>2, <2>1, <2>3 DEF ToggleArming, TypeOK, ProcessesTyped
  <1>3. CASE OtherEvent
    <2>1. spent' \in [Bounded -> Nat]
      BY <1>3, SpendTyped DEF OtherEvent
    <2>2. SpineTyped'
      BY <1>a, <1>3, NoteAppends DEF OtherEvent, Entries
    <2>3. QED
      BY <1>3, <2>1, <2>2 DEF OtherEvent, TypeOK, ProcessesTyped
  <1>4. ASSUME NEW o \in orphans, OrphanEnds(o)
        PROVE  SpineTyped' /\ ProcessesTyped' /\ FlagsTyped' /\ spent' \in [Bounded -> Nat]
    <2>1. o.request \in Requests
      BY DEF TypeOK
    <2>2. SpineTyped'
      BY <1>a, <1>4, <2>1, AdmitTyped, EntriesOfRequests, NoteAppends DEF OrphanEnds
    <2>3. QED
      BY <1>4, <2>2 DEF OrphanEnds, TypeOK, ProcessesTyped
  <1>5. QED
    BY <1>1, <1>2, <1>3, <1>4 DEF Next

LEMMA TypeInit == ASSUME Init PROVE TypeOK
  <1>1. log \in Seq(Entries) /\ receipts = {}
    BY DEF Init, Log!Init
  <1>2. allowed \in Int /\ told = {}
    BY DEF Init
  <1>3. armed \in BOOLEAN /\ raced \in BOOLEAN
    BY Zenon DEF Init
  <1>4. /\ pc \in [Processes -> Calls] /\ \A p \in Processes : pc[p] = "idle"
        /\ job \in [Processes -> Requests \cup {NoJob}]
    BY DEF Init, Calls
  <1>5. ticket \in [Processes -> Nat] /\ spent \in [Bounded -> Nat]
    BY DEF Init
  <1>6. orphans = {} /\ IsFiniteSet(orphans)
    BY FS_EmptySet DEF Init
  <1>7. QED
    BY <1>1, <1>2, <1>3, <1>4, <1>5, <1>6 DEF TypeOK

\* Every step keeps every variable in its type: TypeOK, for any constants.
THEOREM DcgTypeCorrect == Spec => []TypeOK
  BY TypeInit, TypeStep, PTL DEF Spec

----------------------------------------------------------------------------
(* The invariant *)

\* A step of one process, or of none, changes no other process.
Frame(S) == \A q \in Processes \ S : pc'[q] = pc[q] /\ job'[q] = job[q]

\* An orphan of the next state is one of this state, or relies on what holds.
OrphansKept == \A o \in orphans' : o \in orphans \/ OrphanInv(o)'

\* What a step has to show for itself; the rest of the invariant it keeps.
LEMMA Assemble ==
  ASSUME DcgInv, TypeOK', NEW S \in SUBSET Processes, Frame(S), OrphansKept, LogGrows,
         \A p \in S : CallInv(p)',
         \A r \in receipts' : r \in receipts \/ TaskIn(log', r.key),
         log' = log \/ (FencesBehind' /\ CompensationHasCause'),
         GrantIsRecorded'
  PROVE  DcgInv'
  <1>1. log \in Seq(Entries)
    BY DEF DcgInv, TypeOK
  <1>2. ASSUME NEW q \in Processes \ S PROVE CallInv(q)'
    <2>1. pc'[q] = pc[q] /\ job'[q] = job[q]
      BY <1>2 DEF Frame
    <2>2. pc[q] \in {"submit", "ticket", "record"} => job[q].fence \in Nat
      BY RequestsHaveFences DEF DcgInv, TypeOK
    <2>3. CallInv(q)
      BY DEF DcgInv
    <2>4. pc[q] \in {"submit", "ticket", "record"} => job[q].fence <= Len(log')
      BY <1>1, <2>2, <2>3, LogKeeps DEF CallInv
    <2>5. pc[q] \in {"ticket", "record", "compensate"} => TaskIn(log', job'[q].trace)
      BY <1>1, <2>1, <2>3, LogKeeps DEF CallInv
    <2>6. QED
      BY <2>1, <2>4, <2>5 DEF CallInv
  <1>3. ReceiptsIn'
    BY <1>1, LogKeeps DEF DcgInv, ReceiptsIn
  <1>4. FencesBehind' /\ CompensationHasCause'
    BY DEF DcgInv, FencesBehind, CompensationHasCause, Log!Ingested
  <1>5. ASSUME NEW o \in orphans' PROVE OrphanInv(o)'
    <2>1. CASE o \in orphans
      <3>1. OrphanInv(o) /\ o.request.fence \in Nat
        BY <2>1, RequestsHaveFences DEF DcgInv, TypeOK
      <3>2. QED
        BY <1>1, <3>1, LogKeeps DEF OrphanInv
    <2>2. QED
      BY <2>1 DEF OrphansKept
  <1>6. QED
    BY <1>2, <1>3, <1>4, <1>5 DEF DcgInv

\* A step that writes nothing and gives no receipt.
LEMMA ReadOnly ==
  ASSUME DcgInv, TypeOK', NEW S \in SUBSET Processes, Frame(S), OrphansKept, UNCHANGED spineVars,
         \A p \in S : CallInv(p)',
         \A t \in told' : t \in told \/ t.how # "Admitted"
  PROVE  DcgInv'
  <1>1. log \in Seq(Entries) /\ GrantIsRecorded
    BY DEF DcgInv, TypeOK
  <1>2. LogGrows
    BY DEF LogGrows, spineVars
  <1>3. GrantIsRecorded'
    BY <1>1, <1>2, GrantsKeep
  <1>4. QED
    BY <1>2, <1>3, Assemble DEF spineVars

\* A step that appends one event, of a kind that is allowed, and gives no receipt.
LEMMA AppendsOne ==
  ASSUME DcgInv, TypeOK', NEW S \in SUBSET Processes, Frame(S), OrphansKept,
         NEW e \in Entries, log' = Append(log, e),
         e.kind = "dcg.fence.admitted" => e.about.fence \in Nat /\ e.about.fence <= Len(log),
         e.kind = "dcg.compensate" => TaskIn(log, e.about),
         \A p \in S : CallInv(p)',
         \A r \in receipts' : r \in receipts \/ TaskIn(log', r.key),
         GrantIsRecorded'
  PROVE  DcgInv'
  <1>1. log \in Seq(Entries) /\ FencesBehind /\ CompensationHasCause
    BY DEF DcgInv, TypeOK
  <1>2. LogGrows
    BY DEF LogGrows
  <1>3. FencesBehind' /\ CompensationHasCause'
    BY <1>1, EntryKeeps
  <1>4. QED
    BY <1>2, <1>3, Assemble

LEMMA ReturnFrame ==
  ASSUME TypeOK, NEW p \in Processes, NEW how \in Outcomes, Return(p, how)
  PROVE  /\ Frame({p})
         /\ CallInv(p)'
         /\ how # "Admitted" => \A t \in told' : t \in told \/ t.how # "Admitted"
  BY DEF TypeOK, Return, Idle, Goto, Frame, CallInv

LEMMA GotoFrame ==
  ASSUME TypeOK, NEW p \in Processes, NEW call, Goto(p, call), UNCHANGED job
  PROVE  Frame({p}) /\ pc'[p] = call /\ job'[p] = job[p]
  BY DEF TypeOK, Goto, Frame

\* The log after an admission holds the task.
LEMMA AdmitHolds ==
  ASSUME DcgInv, NEW q \in Requests, Admit(q)
  PROVE  /\ LogGrows
         /\ TaskIn(log', q.trace)
         /\ log' = Append(log, Log!Ingested(q.trace))
         /\ Log!Ingested(q.trace) \in Entries
         /\ \A r \in receipts' : r \in receipts \/ r.key = q.trace
  <1>1. log \in Seq(Entries) /\ TypeOK
    BY DEF DcgInv, TypeOK
  <1>2. /\ log' = Append(log, Log!Ingested(q.trace))
        /\ Log!Ingested(q.trace) \in Entries
        /\ receipts' = receipts \cup {[key |-> q.trace, request |-> q.body]}
    BY <1>1, AdmitTyped
  <1>3. Len(log) + 1 \in DOMAIN log' /\ log'[Len(log) + 1] = Log!Ingested(q.trace)
    BY <1>1, <1>2, AppendProperties
  <1>4. TaskIn(log', q.trace)
    BY <1>3 DEF TaskIn
  <1>5. QED
    BY <1>2, <1>4 DEF LogGrows

LEMMA OrphansStep ==
  ASSUME DcgInv, [Next]_vars
  PROVE  OrphansKept
  <1>1. ASSUME NEW p \in Processes, Crash(p) PROVE OrphansKept
    <2> SUFFICES ASSUME NEW o \in orphans', o \notin orphans PROVE OrphanInv(o)'
      BY DEF OrphansKept
    <2>1. o = [call |-> pc[p], request |-> job[p], id |-> spent["crashes"]] /\ log' = log
      BY <1>1 DEF Crash
    <2>2. CallInv(p)
      BY DEF DcgInv
    <2>3. QED
      BY <2>1, <2>2 DEF CallInv, OrphanInv, TaskIn, Log!Ingested
  <1>2. CASE \A p \in Processes : ~Crash(p)
    BY <1>2, OrphansChange DEF OrphanEnds, OrphansKept
  <1>3. QED
    BY <1>1, <1>2

LEMMA DcgStep ==
  ASSUME DcgInv, TypeOK', [Next]_vars
  PROVE  DcgInv'
  <1>0. TypeOK /\ log \in Seq(Entries) /\ GrantIsRecorded /\ {} \in SUBSET Processes /\ OrphansKept
    BY OrphansStep DEF DcgInv, TypeOK
  <1>1. CASE UNCHANGED vars
    <2>1. Frame({}) /\ UNCHANGED spineVars /\ told' = told
      BY <1>1 DEF vars, spineVars, Frame
    <2>2. QED
      BY <1>0, <2>1, ReadOnly
  <1>2. ASSUME NEW p \in Processes, Step(p) PROVE DcgInv'
    <2>0. {p} \in SUBSET Processes /\ CallInv(p) /\ OrphansKept
      BY <1>0 DEF DcgInv
    <2>1. ASSUME NEW q \in Requests, Start(p, q) PROVE DcgInv'
      <3>1. Frame({p}) /\ CallInv(p)'
        BY <1>0, <2>1 DEF Start, Goto, Frame, CallInv, TypeOK
      <3>2. UNCHANGED spineVars /\ told' = told
        BY <2>1 DEF Start, spineVars
      <3>3. QED
        BY <2>0, <3>1, <3>2, ReadOnly
    <2>2. CASE ReadArmed(p)
      <3>1. Frame({p}) /\ pc'[p] = "fence"
        BY <1>0, <2>2, GotoFrame DEF ReadArmed
      <3>2. CallInv(p)'
        BY <3>1 DEF CallInv
      <3>3. QED
        BY <2>0, <2>2, <3>1, <3>2, ReadOnly DEF ReadArmed, spineVars
    <2>3. ASSUME NotArmed(p) \/ ReadFails(p) \/ SubmitConflicts(p) \/ SubmitRefused(p) PROVE DcgInv'
      <3>1. PICK how \in Outcomes : how # "Admitted" /\ Return(p, how)
        <4>1. {"NotArmed", "Subprocess", "Parse", "Denied"} \subseteq Outcomes
          BY DEF Outcomes
        <4>2. \/ Return(p, "NotArmed") \/ Return(p, "Subprocess")
              \/ Return(p, "Parse") \/ Return(p, "Denied")
          BY <2>3 DEF NotArmed, ReadFails, SubmitConflicts, SubmitRefused
        <4>3. QED
          BY <4>1, <4>2, Zenon
      <3>2. UNCHANGED spineVars
        BY <2>3 DEF NotArmed, ReadFails, SubmitConflicts, SubmitRefused, spineVars
      <3>3. Frame({p}) /\ CallInv(p)' /\ \A t \in told' : t \in told \/ t.how # "Admitted"
        BY <1>0, <3>1, ReturnFrame
      <3>4. QED
        BY <2>0, <3>2, <3>3, ReadOnly
    <2>4. CASE CheckFence(p)
      <3>1. CASE Return(p, "StaleFence")
        <4>1. Frame({p}) /\ CallInv(p)' /\ \A t \in told' : t \in told \/ t.how # "Admitted"
          BY <1>0, <3>1, ReturnFrame DEF Outcomes
        <4>2. QED
          BY <2>0, <2>4, <4>1, ReadOnly DEF CheckFence, spineVars
      <3>2. CASE Goto(p, "bound") /\ UNCHANGED <<job, ticket, told>>
        <4>0. Frame({p}) /\ pc'[p] = "bound"
          BY <1>0, <3>2, GotoFrame
        <4>1. Frame({p}) /\ CallInv(p)'
          BY <4>0 DEF CallInv
        <4>2. QED
          BY <2>0, <2>4, <3>2, <4>1, ReadOnly DEF CheckFence, spineVars
      <3>3. QED
        BY <2>4, <3>1, <3>2 DEF CheckFence
    <2>5. CASE CheckSeq(p)
      <3>1. CASE Return(p, "OutOfRange")
        <4>1. Frame({p}) /\ CallInv(p)' /\ \A t \in told' : t \in told \/ t.how # "Admitted"
          BY <1>0, <3>1, ReturnFrame DEF Outcomes
        <4>2. QED
          BY <2>0, <2>5, <4>1, ReadOnly DEF CheckSeq, spineVars
      <3>2. CASE job[p].fence <= Len(log) /\ Goto(p, "submit") /\ UNCHANGED <<job, ticket, told>>
        <4>1. Frame({p}) /\ pc'[p] = "submit" /\ job'[p] = job[p]
          BY <1>0, <3>2, GotoFrame
        <4>2. CallInv(p)'
          BY <2>5, <3>2, <4>1 DEF CheckSeq, CallInv
        <4>3. QED
          BY <2>0, <2>5, <3>2, <4>1, <4>2, ReadOnly DEF CheckSeq, spineVars
      <3>3. QED
        BY <2>5, <3>1, <3>2 DEF CheckSeq
    <2>6. CASE Submit(p)
      <3>1. job[p].fence \in Nat /\ job[p].fence <= Len(log) /\ told' = told
        BY <1>0, <2>0, <2>6, RequestsHaveFences DEF Submit, CallInv, TypeOK
      <3>2. Frame({p}) /\ pc'[p] = "ticket" /\ job'[p] = job[p]
        BY <1>0, <2>6, GotoFrame DEF Submit
      <3>3. CASE Admit(job[p])
        <4>1. /\ LogGrows
              /\ TaskIn(log', job[p].trace)
              /\ log' = Append(log, Log!Ingested(job[p].trace))
              /\ Log!Ingested(job[p].trace) \in Entries
              /\ \A r \in receipts' : r \in receipts \/ r.key = job[p].trace
          BY <1>0, <2>6, <3>3, AdmitHolds DEF Submit, TypeOK
        <4>2. CallInv(p)'
          BY <1>0, <3>1, <3>2, <4>1, LogKeeps DEF CallInv
        <4>3. GrantIsRecorded'
          BY <1>0, <3>1, <4>1, GrantsKeep
        <4>4. Log!Ingested(job[p].trace).kind = "TASK_INGESTED"
          BY DEF Log!Ingested
        <4>5. QED
          BY <2>0, <3>2, <4>1, <4>2, <4>3, <4>4, AppendsOne
      <3>4. CASE Known(p) /\ UNCHANGED <<log, receipts, allowed>>
        <4>1. TaskIn(log, job[p].trace)
          BY <3>4 DEF Known, DcgInv, ReceiptsIn
        <4>2. CallInv(p)'
          BY <3>1, <3>2, <3>4, <4>1 DEF CallInv
        <4>3. QED
          BY <2>0, <3>1, <3>2, <3>4, <4>2, ReadOnly DEF spineVars
      <3>5. QED
        BY <2>6, <3>3, <3>4 DEF Submit
    <2>7. CASE SubmitFails(p)
      <3>1. Frame({p}) /\ CallInv(p)' /\ \A t \in told' : t \in told \/ t.how # "Admitted"
        BY <1>0, <2>7, ReturnFrame DEF SubmitFails, Outcomes
      <3>2. CASE Admit(job[p])
        <4>1. /\ LogGrows
              /\ TaskIn(log', job[p].trace)
              /\ log' = Append(log, Log!Ingested(job[p].trace))
              /\ Log!Ingested(job[p].trace) \in Entries
              /\ \A r \in receipts' : r \in receipts \/ r.key = job[p].trace
          BY <1>0, <2>7, <3>2, AdmitHolds DEF SubmitFails, TypeOK
        <4>2. GrantIsRecorded'
          BY <1>0, <3>1, <4>1, GrantsKeep
        <4>3. Log!Ingested(job[p].trace).kind = "TASK_INGESTED"
          BY DEF Log!Ingested
        <4>4. QED
          BY <2>0, <3>1, <4>1, <4>2, <4>3, AppendsOne
      <3>3. CASE UNCHANGED <<log, receipts, allowed>>
        BY <2>0, <3>1, <3>3, ReadOnly DEF spineVars
      <3>4. QED
        BY <2>7, <3>2, <3>3 DEF SubmitFails
    <2>8. CASE TakeTicket(p)
      <3>1. Frame({p}) /\ pc'[p] = "record" /\ job'[p] = job[p]
        BY <1>0, <2>8, GotoFrame DEF TakeTicket
      <3>2. UNCHANGED spineVars /\ told' = told
        BY <2>8 DEF TakeTicket, spineVars
      <3>3. CallInv(p)'
        BY <2>0, <2>8, <3>1, <3>2 DEF TakeTicket, CallInv, spineVars
      <3>4. QED
        BY <2>0, <3>1, <3>2, <3>3, ReadOnly
    <2>9. ASSUME pc[p] = "record"
          PROVE  /\ FenceNote(job[p]) \in Entries
                 /\ FenceNote(job[p]).kind = "dcg.fence.admitted"
                 /\ FenceNote(job[p]).about.fence \in Nat
                 /\ FenceNote(job[p]).about.fence <= Len(log)
                 /\ TaskIn(log, job[p].trace)
      <3>1. job[p] \in Requests
        BY <1>0, <2>9 DEF TypeOK
      <3>2. job[p].fence \in Nat /\ job[p].fence <= Len(log) /\ TaskIn(log, job[p].trace)
        BY <2>0, <2>9, <3>1, RequestsHaveFences DEF CallInv
      <3>3. QED
        BY <3>1, <3>2, EntriesOfRequests DEF FenceNote
    <2>10. CASE RecordFence(p)
      <3>1. pc[p] = "record" /\ Return(p, "Admitted")
        BY <2>10 DEF RecordFence
      <3>2. log' = Append(log, FenceNote(job[p])) /\ receipts' = receipts
        BY <1>0, <2>9, <2>10, <3>1, NoteAppends DEF RecordFence
      <3>3. Frame({p}) /\ CallInv(p)'
        BY <1>0, <3>1, ReturnFrame DEF Outcomes
      <3>4. ASSUME NEW t \in told', t.how = "Admitted"
            PROVE  \E i, j \in DOMAIN log' :
                     i < j /\ log'[i] = Log!Ingested(t.request.trace) /\ log'[j] = FenceNote(t.request)
        <4>1. /\ Len(log) \in Nat /\ DOMAIN log = 1..Len(log)
              /\ DOMAIN log' = 1..(Len(log) + 1)
              /\ \A i \in DOMAIN log : log'[i] = log[i]
              /\ log'[Len(log) + 1] = FenceNote(job[p])
          BY <1>0, <2>9, <3>1, <3>2, AppendProperties
        <4>2. CASE t \in told
          <5>1. PICK i, j \in DOMAIN log :
                  i < j /\ log[i] = Log!Ingested(t.request.trace) /\ log[j] = FenceNote(t.request)
            BY <1>0, <3>4, <4>2 DEF GrantIsRecorded
          <5>2. QED
            BY <4>1, <5>1
        <4>3. CASE t.request = job[p]
          <5>1. PICK i \in DOMAIN log : log[i] = Log!Ingested(job[p].trace)
            BY <2>9, <3>1 DEF TaskIn
          <5>2. QED
            BY <4>1, <4>3, <5>1
        <4>4. QED
          BY <3>1, <3>4, <4>2, <4>3 DEF Return
      <3>5. GrantIsRecorded'
        BY <3>4 DEF GrantIsRecorded, Log!Ingested, FenceNote
      <3>6. QED
        BY <2>0, <2>9, <3>1, <3>2, <3>3, <3>5, AppendsOne
    <2>11. CASE RecordFails(p)
      <3>1. pc[p] = "record" /\ told' = told
        BY <2>11 DEF RecordFails
      <3>2. Frame({p}) /\ pc'[p] = "compensate" /\ job'[p] = job[p]
        BY <1>0, <2>11, GotoFrame DEF RecordFails
      <3>3. CASE Log!AddNote(FenceNote(job[p]))
        <4>1. log' = Append(log, FenceNote(job[p])) /\ receipts' = receipts /\ LogGrows
          BY <1>0, <2>9, <3>1, <3>3, NoteAppends DEF LogGrows
        <4>2. CallInv(p)'
          BY <1>0, <2>9, <3>1, <3>2, <4>1, LogKeeps DEF CallInv
        <4>3. GrantIsRecorded'
          BY <1>0, <3>1, <4>1, GrantsKeep
        <4>4. QED
          BY <2>0, <2>9, <3>1, <3>2, <4>1, <4>2, <4>3, AppendsOne
      <3>4. CASE UNCHANGED spineVars
        <4>1. CallInv(p)'
          BY <2>9, <3>1, <3>2, <3>4 DEF CallInv, spineVars
        <4>2. QED
          BY <2>0, <3>1, <3>2, <3>4, <4>1, ReadOnly
      <3>5. QED
        BY <2>11, <3>3, <3>4 DEF RecordFails
    <2>12. CASE Compensate(p)
      <3>1. Frame({p}) /\ CallInv(p)' /\ \A t \in told' : t \in told \/ t.how # "Admitted"
        BY <1>0, <2>12, ReturnFrame DEF Compensate, Outcomes
      <3>2. job[p] \in Requests /\ TaskIn(log, job[p].trace)
        BY <1>0, <2>0, <2>12 DEF Compensate, TypeOK, CallInv
      <3>3. CASE Log!AddNote(Compensation(job[p]))
        <4>1. Compensation(job[p]) \in Entries
          BY <3>2, EntriesOfRequests
        <4>2. log' = Append(log, Compensation(job[p])) /\ receipts' = receipts
          BY <1>0, <3>3, <4>1, NoteAppends
        <4>3. GrantIsRecorded'
          BY <1>0, <3>1, <4>1, <4>2, GrantsKeep DEF LogGrows
        <4>4. Compensation(job[p]).kind = "dcg.compensate" /\ Compensation(job[p]).about = job[p].trace
          BY DEF Compensation
        <4>5. QED
          BY <2>0, <3>1, <3>2, <4>1, <4>2, <4>3, <4>4, AppendsOne
      <3>4. CASE UNCHANGED spineVars
        BY <2>0, <3>1, <3>4, ReadOnly
      <3>5. QED
        BY <2>12, <3>3, <3>4 DEF Compensate
    <2>13. CASE Crash(p)
      <3>1. Frame({p}) /\ CallInv(p)' /\ told' = told /\ UNCHANGED spineVars
        BY <1>0, <2>13 DEF Crash, Idle, Goto, Frame, CallInv, TypeOK, spineVars
      <3>2. QED
        BY <2>0, <3>1, ReadOnly
    <2>14. QED
      BY <1>2, <2>1, <2>2, <2>3, <2>4, <2>5, <2>6, <2>7, <2>8, <2>10, <2>11, <2>12, <2>13 DEF Step
  <1>3. CASE ToggleArming
    <2>1. Frame({}) /\ UNCHANGED spineVars /\ told' = told
      BY <1>3 DEF ToggleArming, spineVars, Frame
    <2>2. QED
      BY <1>0, <2>1, ReadOnly
  <1>4. CASE OtherEvent
    <2>1. Frame({}) /\ told' = told
      BY <1>4 DEF OtherEvent, Frame
    <2>2. Perceived \in Entries /\ Perceived.kind = "perceive.snapshot"
      BY DEF Entries, Perceived
    <2>3. log' = Append(log, Perceived) /\ receipts' = receipts
      BY <1>0, <1>4, <2>2, NoteAppends DEF OtherEvent
    <2>4. GrantIsRecorded'
      BY <1>0, <2>1, <2>2, <2>3, GrantsKeep DEF LogGrows
    <2>5. QED
      BY <1>0, <2>1, <2>2, <2>3, <2>4, AppendsOne
  <1>5. ASSUME NEW o \in orphans, OrphanEnds(o) PROVE DcgInv'
    <2>0. Frame({}) /\ told' = told
      BY <1>5 DEF OrphanEnds, Frame
    <2>1. o.request \in Requests /\ o.request.fence \in Nat /\ OrphanInv(o)
      BY <1>0, RequestsHaveFences DEF TypeOK, DcgInv
    <2>2. CASE UNCHANGED <<log, receipts, allowed>>
      BY <1>0, <2>0, <2>2, ReadOnly DEF spineVars
    <2>3. CASE o.call = "submit" /\ Admit(o.request)
      <3>1. /\ LogGrows
            /\ TaskIn(log', o.request.trace)
            /\ log' = Append(log, Log!Ingested(o.request.trace))
            /\ Log!Ingested(o.request.trace) \in Entries
            /\ \A r \in receipts' : r \in receipts \/ r.key = o.request.trace
        BY <2>1, <2>3, AdmitHolds
      <3>2. GrantIsRecorded'
        BY <1>0, <2>0, <3>1, GrantsKeep
      <3>3. Log!Ingested(o.request.trace).kind = "TASK_INGESTED"
        BY DEF Log!Ingested
      <3>4. QED
        BY <1>0, <2>0, <3>1, <3>2, <3>3, AppendsOne
    <2>4. CASE o.call = "record" /\ Log!AddNote(FenceNote(o.request))
      <3>1. FenceNote(o.request) \in Entries
        BY <2>1, EntriesOfRequests
      <3>2. log' = Append(log, FenceNote(o.request)) /\ receipts' = receipts
        BY <1>0, <2>4, <3>1, NoteAppends
      <3>3. GrantIsRecorded'
        BY <1>0, <2>0, <3>1, <3>2, GrantsKeep DEF LogGrows
      <3>4. /\ FenceNote(o.request).kind = "dcg.fence.admitted"
            /\ FenceNote(o.request).about.fence \in Nat
            /\ FenceNote(o.request).about.fence <= Len(log)
        BY <2>1, <2>4 DEF FenceNote, OrphanInv
      <3>5. QED
        BY <1>0, <2>0, <3>1, <3>2, <3>3, <3>4, AppendsOne
    <2>5. CASE o.call = "compensate" /\ Log!AddNote(Compensation(o.request))
      <3>1. Compensation(o.request) \in Entries
        BY <2>1, EntriesOfRequests
      <3>2. log' = Append(log, Compensation(o.request)) /\ receipts' = receipts
        BY <1>0, <2>5, <3>1, NoteAppends
      <3>3. GrantIsRecorded'
        BY <1>0, <2>0, <3>1, <3>2, GrantsKeep DEF LogGrows
      <3>4. /\ Compensation(o.request).kind = "dcg.compensate"
            /\ TaskIn(log, Compensation(o.request).about)
        BY <2>1, <2>5 DEF Compensation, OrphanInv
      <3>5. QED
        BY <1>0, <2>0, <3>1, <3>2, <3>3, <3>4, AppendsOne
    <2>6. QED
      BY <1>5, <2>2, <2>3, <2>4, <2>5 DEF OrphanEnds
  <1>6. QED
    BY <1>1, <1>2, <1>3, <1>4, <1>5 DEF Next

LEMMA DcgInit == ASSUME Init PROVE DcgInv
  <1>1. TypeOK
    BY TypeInit
  <1>2. log = <<>> /\ receipts = {} /\ told = {} /\ orphans = {} /\ \A p \in Processes : pc[p] = "idle"
    BY DEF Init, Log!Init
  <1>3. QED
    BY <1>1, <1>2 DEF DcgInv, CallInv, ReceiptsIn, FencesBehind, CompensationHasCause, GrantIsRecorded

\* What every process may rely on at every call holds in every reachable state.
THEOREM DcgInvariant == Spec => []DcgInv
  <1>1. Init => DcgInv
    BY DcgInit
  <1>2. DcgInv /\ TypeOK' /\ [Next]_vars => DcgInv'
    BY DcgStep
  <1>3. QED
    BY <1>1, <1>2, DcgTypeCorrect, PTL DEF Spec

\* admit.rs:17: no admission, interrupted or concurrent ones included, leaves a
\* resource with a fence that a fresh one could not supersede.
THEOREM FloorTheorem == Spec => []NotPoisoned
  <1>1. ASSUME DcgInv PROVE NotPoisoned
    <2> SUFFICES ASSUME NEW r \in Resources, NEW f \in {q.fence : q \in Requests}, LastFence(r, f), f # 0
                 PROVE  f < Len(log)
      BY DEF NotPoisoned
    <2>1. PICK i \in DOMAIN log : IsFence(i, r) /\ (\A j \in DOMAIN log : IsFence(j, r) => j <= i)
                                  /\ f = log[i].about.fence
      BY DEF LastFence
    <2>2. log \in Seq(Entries) /\ FencesBehind
      BY <1>1 DEF DcgInv, TypeOK
    <2>3. Len(log) \in Nat /\ i \in 1..Len(log)
      BY <2>2, LenProperties
    <2>4. f \in Nat /\ f < i
      BY <2>1, <2>2 DEF FencesBehind, IsFence
    <2>5. QED
      BY <2>3, <2>4
  <1>2. QED
    BY <1>1, DcgInvariant, PTL

\* admit.rs:144-159: a receipt is given only for a task that is in the log with
\* its fence recorded behind it.
THEOREM GrantTheorem == Spec => []GrantIsRecorded
  BY DcgInvariant, PTL DEF DcgInv

\* admit.rs:160-183: a compensating event follows the task it compensates.
THEOREM CompensationTheorem == Spec => []CompensationHasCause
  BY DcgInvariant, PTL DEF DcgInv

----------------------------------------------------------------------------
(* Disarming *)

\* While the key is not armed, every write still to come has one of them.
ClearedAreAllowed == ~armed => Cardinality(Cleared) + Cardinality(LateSubmits) <= allowed

LEMMA ClearedFinite ==
  ASSUME TypeOK
  PROVE  /\ IsFiniteSet(Cleared) /\ Cardinality(Cleared) \in Nat
         /\ IsFiniteSet(LateSubmits) /\ Cardinality(LateSubmits) \in Nat
  BY ProcessesFinite, FS_Subset, FS_CardinalityType DEF Cleared, LateSubmits, TypeOK

\* A step that lets nobody past the arming guard, and admits nothing.
LEMMA ClearedShrinks ==
  ASSUME TypeOK, TypeOK', ClearedAreAllowed, armed' = armed, allowed' = allowed,
         Cleared' \subseteq Cleared, LateSubmits' \subseteq LateSubmits
  PROVE  ClearedAreAllowed'
  <1>1. /\ IsFiniteSet(Cleared) /\ IsFiniteSet(LateSubmits)
        /\ Cardinality(Cleared) \in Nat /\ Cardinality(LateSubmits) \in Nat
    BY ClearedFinite
  <1>2. /\ Cardinality(Cleared') \in Nat /\ Cardinality(Cleared') <= Cardinality(Cleared)
        /\ Cardinality(LateSubmits') \in Nat /\ Cardinality(LateSubmits') <= Cardinality(LateSubmits)
    BY <1>1, FS_Subset, FS_CardinalityType
  <1>3. QED
    BY <1>1, <1>2 DEF ClearedAreAllowed, TypeOK

\* An admission takes its process out of the cleared ones.
LEMMA AdmissionUsesClearance ==
  ASSUME TypeOK, ClearedAreAllowed, NEW p \in Processes, pc[p] = "submit", armed' = armed,
         Admit(job[p]), orphans' = orphans,
         NEW call, call \notin {"fence", "bound", "submit"}, Goto(p, call)
  PROVE  ClearedAreAllowed'
  <1>1. Cleared' = Cleared \ {p} /\ p \in Cleared /\ LateSubmits' = LateSubmits
    BY DEF Cleared, LateSubmits, Goto, TypeOK
  <1>2. IsFiniteSet(Cleared) /\ Cardinality(Cleared) \in Nat /\ Cardinality(LateSubmits) \in Nat
    BY ClearedFinite
  <1>3. Cardinality(Cleared') = Cardinality(Cleared) - 1
    BY <1>1, <1>2, FS_RemoveElement
  <1>4. allowed' = IF armed THEN allowed ELSE allowed - 1
    BY DEF Admit
  <1>5. QED
    BY <1>1, <1>2, <1>3, <1>4 DEF ClearedAreAllowed, TypeOK

\* A killed process hands its clearance to the submit it leaves behind.
LEMMA CrashKeepsClearance ==
  ASSUME TypeOK, TypeOK', ClearedAreAllowed, NEW p \in Processes, Crash(p)
  PROVE  ClearedAreAllowed'
  <1>1. armed' = armed /\ allowed' = allowed /\ Cleared' = Cleared \ {p}
    BY DEF Crash, Idle, Goto, Cleared, TypeOK
  <1> DEFINE o == [call |-> pc[p], request |-> job[p], id |-> spent["crashes"]]
  <1>2. CASE pc[p] = "submit" /\ orphans' = orphans \cup {o}
    <2>1. p \in Cleared /\ LateSubmits' \subseteq LateSubmits \cup {o}
      BY <1>2 DEF Cleared, LateSubmits
    <2> HIDE DEF o
    <2>2. /\ IsFiniteSet(Cleared) /\ Cardinality(Cleared) \in Nat
          /\ IsFiniteSet(LateSubmits) /\ Cardinality(LateSubmits) \in Nat
      BY ClearedFinite
    <2>3. Cardinality(Cleared') = Cardinality(Cleared) - 1
      BY <1>1, <2>1, <2>2, FS_RemoveElement
    <2>4. IsFiniteSet(LateSubmits \cup {o}) /\ Cardinality(LateSubmits \cup {o}) \in Nat
      BY <2>2, FS_AddElement, FS_CardinalityType
    <2>5. Cardinality(LateSubmits \cup {o})
            = IF o \in LateSubmits THEN Cardinality(LateSubmits) ELSE Cardinality(LateSubmits) + 1
      BY <2>2, FS_AddElement, Zenon
    <2>6. /\ Cardinality(LateSubmits') \in Nat
          /\ Cardinality(LateSubmits') <= Cardinality(LateSubmits \cup {o})
      BY <2>1, <2>4, FS_Subset, FS_CardinalityType
    <2>7. Cardinality(LateSubmits') <= Cardinality(LateSubmits) + 1
      BY <2>2, <2>4, <2>5, <2>6
    <2>8. QED
      BY <1>1, <2>2, <2>3, <2>6, <2>7 DEF ClearedAreAllowed, TypeOK
  <1>3. CASE pc[p] # "submit" \/ orphans' = orphans
    <2>1. LateSubmits' \subseteq LateSubmits
      BY <1>3 DEF Crash, LateSubmits
    <2>2. QED
      BY <1>1, <2>1, ClearedShrinks
  <1>4. QED
    BY <1>2, <1>3 DEF Crash

\* A submit that ends late is one of those allowed.
LEMMA LateSubmitIsAllowed ==
  ASSUME TypeOK, TypeOK', ClearedAreAllowed, NEW o \in orphans, OrphanEnds(o)
  PROVE  ClearedAreAllowed'
  <1>1. armed' = armed /\ Cleared' = Cleared /\ LateSubmits' = LateSubmits \ {o}
    BY DEF OrphanEnds, Cleared, LateSubmits
  <1>2. CASE allowed' = allowed
    BY <1>1, <1>2, ClearedShrinks
  <1>3. CASE o.call = "submit" /\ Admit(o.request)
    <2>1. o \in LateSubmits /\ allowed' = IF armed THEN allowed ELSE allowed - 1
      BY <1>3 DEF LateSubmits, Admit
    <2>2. /\ IsFiniteSet(LateSubmits) /\ Cardinality(LateSubmits) \in Nat
          /\ Cardinality(Cleared) \in Nat
      BY ClearedFinite
    <2>3. Cardinality(LateSubmits') = Cardinality(LateSubmits) - 1
      BY <1>1, <2>1, <2>2, FS_RemoveElement
    <2>4. QED
      BY <1>1, <2>1, <2>2, <2>3 DEF ClearedAreAllowed, TypeOK
  <1>4. QED
    BY <1>2, <1>3 DEF OrphanEnds

LEMMA DisarmStep ==
  ASSUME TypeOK, TypeOK', ClearedAreAllowed, [Next]_vars
  PROVE  ClearedAreAllowed'
  <1>1. CASE UNCHANGED vars
    BY <1>1, ClearedShrinks DEF vars, Cleared, LateSubmits
  <1>2. ASSUME NEW p \in Processes, Step(p) PROVE ClearedAreAllowed'
    <2>0. orphans' = orphans => LateSubmits' = LateSubmits
      BY DEF LateSubmits
    <2>1. ASSUME NEW q \in Requests, Start(p, q) PROVE ClearedAreAllowed'
      <3>1. Cleared' \subseteq Cleared
        BY <2>1 DEF Start, Goto, Cleared, TypeOK
      <3>2. QED
        BY <2>1, <3>1, <2>0, ClearedShrinks DEF Start
    <2>2. CASE ReadArmed(p)
      BY <2>2 DEF ReadArmed, ClearedAreAllowed
    <2>3. ASSUME Idle(p) PROVE Cleared' \subseteq Cleared
      BY <2>3 DEF Idle, Goto, Cleared, TypeOK
    <2>4. CASE NotArmed(p) \/ ReadFails(p) \/ SubmitConflicts(p) \/ SubmitRefused(p)
      BY <2>3, <2>4, <2>0, ClearedShrinks DEF NotArmed, ReadFails, SubmitConflicts, SubmitRefused, Return
    <2>5. CASE CheckFence(p)
      <3>1. Cleared' \subseteq Cleared
        BY <2>3, <2>5 DEF CheckFence, Return, Goto, Cleared, TypeOK
      <3>2. QED
        BY <2>5, <3>1, <2>0, ClearedShrinks DEF CheckFence
    <2>6. CASE CheckSeq(p)
      <3>1. Cleared' \subseteq Cleared
        BY <2>3, <2>6 DEF CheckSeq, Return, Goto, Cleared, TypeOK
      <3>2. QED
        BY <2>6, <3>1, <2>0, ClearedShrinks DEF CheckSeq
    <2>7. CASE Submit(p)
      <3>1. CASE Admit(job[p])
        BY <2>7, <3>1, AdmissionUsesClearance DEF Submit
      <3>2. CASE Known(p) /\ UNCHANGED <<log, receipts, allowed>>
        <4>1. Cleared' \subseteq Cleared
          BY <2>7 DEF Submit, Goto, Cleared, TypeOK
        <4>2. QED
          BY <2>7, <3>2, <4>1, <2>0, ClearedShrinks DEF Submit
      <3>3. QED
        BY <2>7, <3>1, <3>2 DEF Submit
    <2>8. CASE SubmitFails(p)
      <3>1. CASE Admit(job[p])
        BY <2>8, <3>1, AdmissionUsesClearance DEF SubmitFails, Return, Idle
      <3>2. CASE UNCHANGED <<log, receipts, allowed>>
        BY <2>3, <2>8, <3>2, <2>0, ClearedShrinks DEF SubmitFails, Return
      <3>3. QED
        BY <2>8, <3>1, <3>2 DEF SubmitFails
    <2>9. CASE TakeTicket(p) \/ RecordFails(p)
      <3>1. Cleared' \subseteq Cleared
        BY <2>9 DEF TakeTicket, RecordFails, Goto, Cleared, TypeOK
      <3>2. QED
        BY <2>9, <3>1, <2>0, ClearedShrinks DEF TakeTicket, RecordFails
    <2>10. CASE RecordFence(p) \/ Compensate(p)
      BY <2>3, <2>10, <2>0, ClearedShrinks DEF RecordFence, Compensate, Return
    <2>11. CASE Crash(p)
      BY <2>11, CrashKeepsClearance
    <2>12. QED
      BY <1>2, <2>1, <2>2, <2>4, <2>5, <2>6, <2>7, <2>8, <2>9, <2>10, <2>11 DEF Step
  <1>3. CASE ToggleArming
    <2>1. Cleared' = Cleared /\ LateSubmits' = LateSubmits
      BY <1>3 DEF ToggleArming, Cleared, LateSubmits
    <2>2. armed => allowed' = Cardinality(Cleared) + Cardinality(LateSubmits)
      BY <1>3 DEF ToggleArming
    <2>3. Cardinality(Cleared) \in Nat /\ Cardinality(LateSubmits) \in Nat
      BY ClearedFinite
    <2>4. armed' = ~armed
      BY <1>3 DEF ToggleArming
    <2>5. CASE armed
      <3>1. Cardinality(Cleared') + Cardinality(LateSubmits') <= allowed'
        BY <2>1, <2>2, <2>3, <2>5
      <3>2. QED
        BY <3>1 DEF ClearedAreAllowed
    <2>6. CASE ~armed
      <3>1. armed'
        BY <2>4, <2>6
      <3>2. QED
        BY <3>1 DEF ClearedAreAllowed
    <2>7. QED
      BY <2>5, <2>6
  <1>4. CASE OtherEvent
    BY <1>4, ClearedShrinks DEF OtherEvent, Cleared, LateSubmits
  <1>5. QED
    BY <1>1, <1>2, <1>3, <1>4, LateSubmitIsAllowed DEF Next

\* admit.rs:106-113: once the key is disarmed, the only writes still admitted are
\* those whose process had read it before, killed or not, one each.
THEOREM DisarmTheorem == Spec => []DisarmHolds
  <1>1. Init => ClearedAreAllowed
    BY DEF Init, ClearedAreAllowed
  <1>2. TypeOK /\ TypeOK' /\ ClearedAreAllowed /\ [Next]_vars => ClearedAreAllowed'
    BY DisarmStep
  <1>3. TypeOK /\ ClearedAreAllowed => DisarmHolds
    <2>1. TypeOK => Cardinality(Cleared) \in Nat /\ Cardinality(LateSubmits) \in Nat
      BY ClearedFinite
    <2>2. QED
      BY <2>1 DEF ClearedAreAllowed, DisarmHolds, TypeOK
  <1>4. QED
    BY <1>1, <1>2, <1>3, DcgTypeCorrect, PTL DEF Spec
----------------------------------------------------------------------------
(* The fences of a resource *)

\* At most one process, or one orphan, is at work on a resource.
OneAtATime ==
  /\ \A p, q \in Processes :
       pc[p] # "idle" /\ pc[q] # "idle" /\ job[p].resource = job[q].resource => p = q
  /\ \A p \in Processes, o \in orphans : pc[p] # "idle" => job[p].resource # o.request.resource
  /\ \A o1, o2 \in orphans : o1.request.resource = o2.request.resource => o1 = o2

\* The fence of q supersedes every fence that l records for its resource.
NewerIn(l, q) ==
  \A i \in DOMAIN l :
    l[i].kind = "dcg.fence.admitted" /\ l[i].about.resource = q.resource => l[i].about.fence < q.fence

\* The calls between the check of the fence and its record.
CheckedCalls == {"bound", "submit", "ticket", "record"}

\* What was checked still holds when it is recorded.
CheckedAreNewer ==
  /\ \A p \in Processes : pc[p] \in CheckedCalls => NewerIn(log, job[p])
  /\ \A o \in orphans : o.call = "record" => NewerIn(log, o.request)

\* The inductive invariant.
TurnInv == ~raced => OneAtATime /\ CheckedAreNewer /\ FencesRise

\* A step that starts nothing and leaves no orphan.
LEMMA TurnKeeps ==
  ASSUME OneAtATime, orphans' \subseteq orphans,
         \A q \in Processes : pc'[q] # "idle" => pc[q] # "idle" /\ job'[q] = job[q]
  PROVE  OneAtATime'
  BY DEF OneAtATime

LEMMA TurnStart ==
  ASSUME TypeOK, OneAtATime, NEW p \in Processes, NEW q \in Requests, Start(p, q), ~raced'
  PROVE  OneAtATime'
  <1>1. ~AtWork(q.resource) /\ orphans' = orphans
    BY DEF Start
  <1>2. job'[p] = q /\ \A x \in Processes \ {p} : pc'[x] = pc[x] /\ job'[x] = job[x]
    BY DEF Start, Goto, TypeOK
  <1>3. \A x \in Processes : pc[x] # "idle" => job[x].resource # q.resource
    BY <1>1 DEF AtWork
  <1>4. \A o \in orphans : o.request.resource # q.resource
    BY <1>1 DEF AtWork
  <1>5. QED
    BY <1>1, <1>2, <1>3, <1>4 DEF OneAtATime

LEMMA TurnCrash ==
  ASSUME TypeOK, OneAtATime, NEW p \in Processes, Crash(p)
  PROVE  OneAtATime'
  <1>1. pc[p] # "idle" /\ pc'[p] = "idle"
    BY DEF Crash, Idle, Goto, TypeOK
  <1>2. \A x \in Processes \ {p} : pc'[x] = pc[x] /\ job'[x] = job[x]
    BY DEF Crash, Idle, Goto, TypeOK
  <1>3. \A o \in orphans' : o \in orphans \/ o = [call |-> pc[p], request |-> job[p], id |-> spent["crashes"]]
    BY DEF Crash
  <1> DEFINE new == [call |-> pc[p], request |-> job[p], id |-> spent["crashes"]]
  <1>4. new.request = job[p]
    OBVIOUS
  <1>5. \A o \in orphans' : o \in orphans \/ o = new
    BY <1>3
  <1> HIDE DEF new
  <1>6. QED
    BY <1>1, <1>2, <1>4, <1>5 DEF OneAtATime

\* An event that is no fence leaves the fences as they are.
LEMMA OtherEventKeeps ==
  ASSUME log \in Seq(Entries), FencesRise, NEW e \in Entries, e.kind # "dcg.fence.admitted",
         log' = Append(log, e)
  PROVE  FencesRise' /\ \A q \in Requests : NewerIn(log, q) => NewerIn(log', q)
  <1>1. /\ Len(log) \in Nat
        /\ DOMAIN log = 1..Len(log)
        /\ DOMAIN log' = 1..(Len(log) + 1)
        /\ \A i \in DOMAIN log : log'[i] = log[i]
        /\ log'[Len(log) + 1] = e
    BY AppendProperties
  <1>2. \A i \in DOMAIN log' : log'[i].kind = "dcg.fence.admitted" => i \in DOMAIN log /\ log'[i] = log[i]
    BY <1>1
  <1>3. FencesRise'
    BY <1>2 DEF FencesRise, IsFence
  <1>4. QED
    BY <1>2, <1>3 DEF NewerIn

\* A fence that is newer than those recorded is recorded.
LEMMA NewFenceKeeps ==
  ASSUME log \in Seq(Entries), FencesRise, NEW q \in Requests, NewerIn(log, q),
         log' = Append(log, FenceNote(q))
  PROVE  /\ FencesRise'
         /\ \A x \in Requests : NewerIn(log, x) /\ x.resource # q.resource => NewerIn(log', x)
  <1> DEFINE e == FenceNote(q)
  <1>0. e \in Entries /\ e.kind = "dcg.fence.admitted" /\ e.about.resource = q.resource
                      /\ e.about.fence = q.fence
    BY DEF Entries, FenceNote
  <1>a. log' = Append(log, e)
    OBVIOUS
  <1> HIDE DEF e
  <1>1. /\ Len(log) \in Nat
        /\ DOMAIN log = 1..Len(log)
        /\ DOMAIN log' = 1..(Len(log) + 1)
        /\ \A i \in DOMAIN log : log'[i] = log[i]
        /\ log'[Len(log) + 1] = e
    BY <1>0, <1>a, AppendProperties
  <1>2. ASSUME NEW i \in DOMAIN log', NEW j \in DOMAIN log', NEW r \in Resources,
               i < j, IsFence(i, r)', IsFence(j, r)'
        PROVE  log'[i].about.fence < log'[j].about.fence
    <2>1. i \in DOMAIN log /\ log'[i] = log[i]
      BY <1>1, <1>2
    <2>2. CASE j \in DOMAIN log
      BY <1>1, <1>2, <2>1, <2>2 DEF FencesRise, IsFence
    <2>3. CASE j = Len(log) + 1
      BY <1>0, <1>1, <1>2, <2>1, <2>3 DEF NewerIn, IsFence
    <2>4. QED
      BY <1>1, <2>2, <2>3
  <1>3. FencesRise'
    BY <1>2 DEF FencesRise, IsFence
  <1>4. ASSUME NEW x \in Requests, NewerIn(log, x), x.resource # q.resource PROVE NewerIn(log', x)
    BY <1>0, <1>1, <1>4 DEF NewerIn
  <1>5. QED
    BY <1>3, <1>4

\* With rising fences, one that supersedes the last supersedes them all.
LEMMA LastIsNewest ==
  ASSUME DcgInv, FencesRise, NEW q \in Requests, NEW last \in Nat,
         LastFence(q.resource, last), Supersedes(q.fence, last)
  PROVE  NewerIn(log, q)
  <1>1. log \in Seq(Entries) /\ FencesBehind /\ q.fence \in Nat /\ q.fence > last /\ q.resource \in Resources
    BY RequestsHaveFences, EntriesOfRequests DEF DcgInv, TypeOK, Supersedes
  <1>2. CASE \A i \in DOMAIN log : ~IsFence(i, q.resource)
    BY <1>2 DEF NewerIn, IsFence
  <1>3. ASSUME NEW j \in DOMAIN log, IsFence(j, q.resource), last = log[j].about.fence,
               \A i \in DOMAIN log : IsFence(i, q.resource) => i <= j
        PROVE  NewerIn(log, q)
    <2> SUFFICES ASSUME NEW i \in DOMAIN log, IsFence(i, q.resource) PROVE log[i].about.fence < q.fence
      BY DEF NewerIn, IsFence
    <2>1. i \in Nat /\ j \in Nat /\ i <= j
      BY <1>1, <1>3, LenProperties
    <2>2. log[i].about.fence \in Nat
      BY <1>1 DEF FencesBehind, IsFence
    <2>3. i < j => log[i].about.fence < log[j].about.fence
      BY <1>1, <1>3 DEF FencesRise
    <2>4. QED
      BY <1>1, <1>3, <2>1, <2>2, <2>3
  <1>4. QED
    BY <1>2, <1>3 DEF LastFence

\* A step that records no fence.
LEMMA QuietStep ==
  ASSUME TypeOK, FencesRise,
         log' = log \/ \E e \in Entries : e.kind # "dcg.fence.admitted" /\ log' = Append(log, e),
         \A x \in Processes : pc'[x] \in CheckedCalls => job'[x] \in Requests /\ NewerIn(log, job'[x]),
         \A o \in orphans' : o.call = "record" => o.request \in Requests /\ NewerIn(log, o.request)
  PROVE  CheckedAreNewer' /\ FencesRise'
  <1>1. log \in Seq(Entries)
    BY DEF TypeOK
  <1>2. FencesRise' /\ \A q \in Requests : NewerIn(log, q) => NewerIn(log', q)
    <2>1. CASE log' = log
      BY <2>1 DEF FencesRise, IsFence
    <2>2. ASSUME NEW e \in Entries, e.kind # "dcg.fence.admitted", log' = Append(log, e)
          PROVE  FencesRise' /\ \A q \in Requests : NewerIn(log, q) => NewerIn(log', q)
      BY <1>1, <2>2, OtherEventKeeps
    <2>3. QED
      BY <2>1, <2>2
  <1>3. QED
    BY <1>2 DEF CheckedAreNewer

\* A step that records one, for the write whose turn it is.
LEMMA FenceStep ==
  ASSUME TypeOK, FencesRise, NEW q \in Requests, NewerIn(log, q), log' = Append(log, FenceNote(q)),
         \A x \in Processes : pc'[x] \in CheckedCalls =>
           job'[x] \in Requests /\ NewerIn(log, job'[x]) /\ job'[x].resource # q.resource,
         \A o \in orphans' : o.call = "record" =>
           o.request \in Requests /\ NewerIn(log, o.request) /\ o.request.resource # q.resource
  PROVE  CheckedAreNewer' /\ FencesRise'
  <1>1. log \in Seq(Entries)
    BY DEF TypeOK
  <1>2. /\ FencesRise'
        /\ \A x \in Requests : NewerIn(log, x) /\ x.resource # q.resource => NewerIn(log', x)
    BY <1>1, NewFenceKeeps
  <1>3. QED
    BY <1>2 DEF CheckedAreNewer

LEMMA RacedStays == ASSUME TypeOK, [Next]_vars, raced PROVE raced'
  <1>1. ASSUME NEW p \in Processes, NEW q \in Requests, Start(p, q) PROVE raced'
    BY <1>1 DEF Start
  <1>2. ASSUME NEW p \in Processes, Step(p), \A q \in Requests : ~Start(p, q) PROVE raced' = raced
    BY <1>2 DEF Step, ReadArmed, NotArmed, CheckFence, CheckSeq, ReadFails, Submit,
       SubmitConflicts, SubmitRefused, SubmitFails, TakeTicket, RecordFence, RecordFails, Compensate, Crash
  <1>3. ASSUME ToggleArming \/ OtherEvent \/ UNCHANGED vars \/ \E o \in orphans : OrphanEnds(o)
        PROVE  raced' = raced
    BY <1>3 DEF ToggleArming, OtherEvent, vars, OrphanEnds
  <1>4. QED
    BY <1>1, <1>2, <1>3 DEF Next

\* A step of p after its start: what it leaves to the others, and to OneAtATime.
LEMMA OwnStep ==
  ASSUME TypeOK, NEW p \in Processes, Step(p), ~Crash(p), \A q \in Requests : ~Start(p, q)
  PROVE  /\ pc[p] # "idle" /\ orphans' = orphans /\ Frame({p})
         /\ pc'[p] # "idle" => job'[p] = job[p]
         /\ pc'[p] \in CheckedCalls => pc[p] \in CheckedCalls \/ CheckFence(p)
  <1> USE DEF TypeOK, Goto, Frame, CheckedCalls
  <1>1. CASE ReadArmed(p)
    BY <1>1 DEF ReadArmed
  <1>2. CASE CheckFence(p)
    BY <1>2 DEF CheckFence, Return, Idle
  <1>3. CASE CheckSeq(p)
    BY <1>3 DEF CheckSeq, Return, Idle
  <1>4. CASE Submit(p) \/ TakeTicket(p)
    BY <1>4 DEF Submit, TakeTicket
  <1>5. CASE NotArmed(p) \/ ReadFails(p) \/ SubmitConflicts(p) \/ SubmitRefused(p) \/ SubmitFails(p)
    BY <1>5 DEF NotArmed, ReadFails, SubmitConflicts, SubmitRefused, SubmitFails, Return, Idle
  <1>6. CASE RecordFence(p) \/ Compensate(p)
    BY <1>6 DEF RecordFence, Compensate, Return, Idle
  <1>7. CASE RecordFails(p)
    BY <1>7 DEF RecordFails
  <1>8. QED
    BY <1>1, <1>2, <1>3, <1>4, <1>5, <1>6, <1>7 DEF Step

\* What such a step does to the log.
LEMMA OwnLog ==
  ASSUME TypeOK, NEW p \in Processes, Step(p)
  PROVE  \/ log' = log
         \/ \E e \in Entries : e.kind # "dcg.fence.admitted" /\ log' = Append(log, e)
         \/ pc[p] = "record" /\ pc'[p] \notin CheckedCalls /\ log' = Append(log, FenceNote(job[p]))
  <1>1. ASSUME NEW q \in Requests, Start(p, q) PROVE log' = log
    BY <1>1 DEF Start
  <1>2. CASE \/ ReadArmed(p) \/ NotArmed(p) \/ CheckFence(p) \/ CheckSeq(p) \/ ReadFails(p)
             \/ SubmitConflicts(p) \/ SubmitRefused(p) \/ TakeTicket(p) \/ Crash(p)
    BY <1>2 DEF ReadArmed, NotArmed, CheckFence, CheckSeq, ReadFails, SubmitConflicts, SubmitRefused,
       TakeTicket, Crash
  <1>3. CASE Submit(p) \/ SubmitFails(p)
    <2>1. job[p] \in Requests
      BY <1>3 DEF Submit, SubmitFails, TypeOK
    <2>2. ASSUME Admit(job[p])
          PROVE  \E e \in Entries : e.kind # "dcg.fence.admitted" /\ log' = Append(log, e)
      <3>1. /\ log' = Append(log, Log!Ingested(job[p].trace))
            /\ Log!Ingested(job[p].trace) \in Entries
        BY <2>1, <2>2, AdmitTyped
      <3>2. Log!Ingested(job[p].trace).kind # "dcg.fence.admitted"
        BY DEF Log!Ingested
      <3>3. QED
        BY <3>1, <3>2
    <2>3. QED
      BY <1>3, <2>2 DEF Submit, SubmitFails
  <1>4. CASE RecordFence(p) \/ RecordFails(p)
    <2>1. job[p] \in Requests /\ pc[p] = "record" /\ pc'[p] \notin CheckedCalls
      BY <1>4 DEF RecordFence, RecordFails, Return, Idle, Goto, TypeOK, CheckedCalls
    <2>2. log' = log \/ log' = Append(log, FenceNote(job[p]))
      BY <1>4 DEF RecordFence, RecordFails, Log!AddNote, spineVars
    <2>3. QED
      BY <2>1, <2>2
  <1>5. CASE Compensate(p)
    <2>1. job[p] \in Requests
      BY <1>5 DEF Compensate, TypeOK
    <2>2. Compensation(job[p]) \in Entries /\ Compensation(job[p]).kind # "dcg.fence.admitted"
      BY <2>1, EntriesOfRequests DEF Compensation
    <2>3. log' = log \/ log' = Append(log, Compensation(job[p]))
      BY <1>5 DEF Compensate, Log!AddNote, spineVars
    <2>4. QED
      BY <2>2, <2>3
  <1>6. QED
    BY <1>1, <1>2, <1>3, <1>4, <1>5 DEF Step

LEMMA TurnStep ==
  ASSUME DcgInv, TurnInv, [Next]_vars
  PROVE  TurnInv'
  <1> SUFFICES ASSUME ~raced' PROVE OneAtATime' /\ CheckedAreNewer' /\ FencesRise'
    BY DEF TurnInv
  <1>0. TypeOK /\ OneAtATime /\ CheckedAreNewer /\ FencesRise
    BY RacedStays DEF TurnInv, DcgInv
  <1>a. \A x \in Processes : pc[x] \in CheckedCalls => job[x] \in Requests /\ NewerIn(log, job[x])
    BY <1>0 DEF TypeOK, CheckedAreNewer, CheckedCalls
  <1>b. \A o \in orphans : o.request \in Requests /\ (o.call = "record" => NewerIn(log, o.request))
    BY <1>0 DEF TypeOK, CheckedAreNewer
  <1>1. CASE UNCHANGED vars
    <2>1. OneAtATime'
      BY <1>0, <1>1, TurnKeeps DEF vars
    <2>2. CheckedAreNewer' /\ FencesRise'
      BY <1>0, <1>1, <1>a, <1>b, QuietStep DEF vars
    <2>3. QED
      BY <2>1, <2>2
  <1>2. ASSUME NEW p \in Processes, NEW q \in Requests, Start(p, q)
        PROVE  OneAtATime' /\ CheckedAreNewer' /\ FencesRise'
    <2>1. OneAtATime'
      BY <1>0, <1>2, TurnStart
    <2>2. log' = log /\ orphans' = orphans
      BY <1>2 DEF Start
    <2>3. pc'[p] \notin CheckedCalls /\ \A x \in Processes \ {p} : pc'[x] = pc[x] /\ job'[x] = job[x]
      BY <1>0, <1>2 DEF Start, Goto, TypeOK, CheckedCalls
    <2>4. CheckedAreNewer' /\ FencesRise'
      BY <1>0, <1>a, <1>b, <2>2, <2>3, QuietStep
    <2>5. QED
      BY <2>1, <2>4
  <1>3. ASSUME NEW p \in Processes, Crash(p)
        PROVE  OneAtATime' /\ CheckedAreNewer' /\ FencesRise'
    <2>1. OneAtATime'
      BY <1>0, <1>3, TurnCrash
    <2>2. log' = log /\ pc'[p] \notin CheckedCalls
                     /\ \A x \in Processes \ {p} : pc'[x] = pc[x] /\ job'[x] = job[x]
      BY <1>0, <1>3 DEF Crash, Idle, Goto, TypeOK, CheckedCalls
    <2>3. \A o \in orphans' : o \in orphans \/ o = [call |-> pc[p], request |-> job[p], id |-> spent["crashes"]]
      BY <1>3 DEF Crash
    <2>4. \A o \in orphans' : o.call = "record" => o.request \in Requests /\ NewerIn(log, o.request)
      BY <1>a, <1>b, <2>3 DEF CheckedCalls
    <2>5. CheckedAreNewer' /\ FencesRise'
      BY <1>0, <1>a, <2>2, <2>4, QuietStep
    <2>6. QED
      BY <2>1, <2>5
  <1>4. ASSUME NEW p \in Processes, Step(p), ~Crash(p), \A q \in Requests : ~Start(p, q)
        PROVE  OneAtATime' /\ CheckedAreNewer' /\ FencesRise'
    <2>1. /\ pc[p] # "idle" /\ orphans' = orphans /\ Frame({p})
          /\ pc'[p] # "idle" => job'[p] = job[p]
          /\ pc'[p] \in CheckedCalls => pc[p] \in CheckedCalls \/ CheckFence(p)
      BY <1>0, <1>4, OwnStep
    <2>2. job[p] \in Requests
      BY <1>0, <2>1 DEF TypeOK
    <2>3. \A x \in Processes \ {p} : pc'[x] = pc[x] /\ job'[x] = job[x]
      BY <2>1 DEF Frame
    <2>4. OneAtATime'
      BY <1>0, <2>1, <2>3, TurnKeeps
    <2>5. ASSUME CheckFence(p), pc'[p] \in CheckedCalls PROVE NewerIn(log, job[p])
      <3>1. PICK last \in {0} \cup {q.fence : q \in Requests} :
              /\ LastFence(job[p].resource, last)
              /\ IF Supersedes(job[p].fence, last)
                   THEN Goto(p, "bound") /\ UNCHANGED <<job, ticket, told>>
                   ELSE Return(p, "StaleFence")
        BY <2>5 DEF CheckFence
      <3>2. last \in Nat
        BY RequestsHaveFences
      <3>3. Supersedes(job[p].fence, last)
        BY <1>0, <2>5, <3>1 DEF Return, Idle, Goto, TypeOK, CheckedCalls
      <3>4. QED
        BY <1>0, <2>2, <3>1, <3>2, <3>3, LastIsNewest
    <2>6. \A x \in Processes : pc'[x] \in CheckedCalls => job'[x] \in Requests /\ NewerIn(log, job'[x])
      <3>1. pc'[p] \in CheckedCalls => job'[p] = job[p]
        BY <2>1 DEF CheckedCalls
      <3>2. QED
        BY <1>a, <2>1, <2>2, <2>3, <2>5, <3>1
    <2>7. CASE log' = log \/ \E e \in Entries : e.kind # "dcg.fence.admitted" /\ log' = Append(log, e)
      <3>1. CheckedAreNewer' /\ FencesRise'
        BY <1>0, <1>b, <2>1, <2>6, <2>7, QuietStep
      <3>2. QED
        BY <2>4, <3>1
    <2>8. CASE pc[p] = "record" /\ pc'[p] \notin CheckedCalls /\ log' = Append(log, FenceNote(job[p]))
      <3>1. NewerIn(log, job[p])
        BY <1>a, <2>8 DEF CheckedCalls
      <3>2. \A x \in Processes : pc'[x] \in CheckedCalls => job'[x].resource # job[p].resource
        BY <1>0, <2>1, <2>3, <2>8 DEF OneAtATime, CheckedCalls
      <3>3. \A o \in orphans' : o.request.resource # job[p].resource
        BY <1>0, <2>1 DEF OneAtATime
      <3>4. CheckedAreNewer' /\ FencesRise'
        BY <1>0, <1>b, <2>1, <2>2, <2>6, <2>8, <3>1, <3>2, <3>3, FenceStep
      <3>5. QED
        BY <2>4, <3>4
    <2>9. QED
      BY <1>0, <1>4, <2>7, <2>8, OwnLog
  <1>5. CASE ToggleArming \/ OtherEvent
    <2>1. pc' = pc /\ job' = job /\ orphans' = orphans
      BY <1>5 DEF ToggleArming, OtherEvent
    <2>2. OneAtATime'
      BY <1>0, <2>1, TurnKeeps
    <2>3. Perceived \in Entries /\ Perceived.kind # "dcg.fence.admitted"
      BY DEF Entries, Perceived
    <2>4. log' = log \/ log' = Append(log, Perceived)
      BY <1>5 DEF ToggleArming, OtherEvent, Log!AddNote
    <2>5. CheckedAreNewer' /\ FencesRise'
      BY <1>0, <1>a, <1>b, <2>1, <2>3, <2>4, QuietStep
    <2>6. QED
      BY <2>2, <2>5
  <1>6. ASSUME NEW o \in orphans, OrphanEnds(o)
        PROVE  OneAtATime' /\ CheckedAreNewer' /\ FencesRise'
    <2>1. pc' = pc /\ job' = job /\ orphans' = orphans \ {o} /\ o.request \in Requests
      BY <1>6, <1>b DEF OrphanEnds
    <2>2. OneAtATime'
      BY <1>0, <2>1, TurnKeeps
    <2>3. CASE log' = log \/ \E e \in Entries : e.kind # "dcg.fence.admitted" /\ log' = Append(log, e)
      <3>1. CheckedAreNewer' /\ FencesRise'
        BY <1>0, <1>a, <1>b, <2>1, <2>3, QuietStep
      <3>2. QED
        BY <2>2, <3>1
    <2>4. CASE o.call = "record" /\ log' = Append(log, FenceNote(o.request))
      <3>1. NewerIn(log, o.request)
        BY <1>b, <2>4
      <3>2. \A x \in Processes : pc'[x] \in CheckedCalls => job'[x].resource # o.request.resource
        BY <1>0, <2>1 DEF OneAtATime, CheckedCalls
      <3>3. \A x \in orphans' : x.request.resource # o.request.resource
        BY <1>0, <2>1 DEF OneAtATime
      <3>4. CheckedAreNewer' /\ FencesRise'
        BY <1>0, <1>a, <1>b, <2>1, <2>4, <3>1, <3>2, <3>3, FenceStep
      <3>5. QED
        BY <2>2, <3>4
    <2>5. CASE o.call = "submit" /\ Admit(o.request)
      <3>1. /\ log' = Append(log, Log!Ingested(o.request.trace))
            /\ Log!Ingested(o.request.trace) \in Entries
        BY <1>0, <2>1, <2>5, AdmitTyped
      <3>2. Log!Ingested(o.request.trace).kind # "dcg.fence.admitted"
        BY DEF Log!Ingested
      <3>3. QED
        BY <2>3, <3>1, <3>2
    <2>6. CASE o.call = "compensate" /\ Log!AddNote(Compensation(o.request))
      <3>1. Compensation(o.request) \in Entries /\ Compensation(o.request).kind # "dcg.fence.admitted"
        BY <2>1, EntriesOfRequests DEF Compensation
      <3>2. log' = Append(log, Compensation(o.request))
        BY <2>6 DEF Log!AddNote
      <3>3. QED
        BY <2>3, <3>1, <3>2
    <2>7. QED
      BY <1>6, <2>3, <2>4, <2>5, <2>6 DEF OrphanEnds, Log!AddNote
  <1>7. QED
    BY <1>1, <1>2, <1>3, <1>4, <1>5, <1>6 DEF Next

LEMMA TurnInit == ASSUME Init PROVE TurnInv
  BY DEF Init, Log!Init, TurnInv, OneAtATime, CheckedAreNewer, CheckedCalls, FencesRise

\* What a process or an orphan has checked stays true until it is recorded, as
\* long as no other write to the resource is at work.
THEOREM TurnInvariant == Spec => []TurnInv
  <1>1. Init => TurnInv
    BY TurnInit
  <1>2. DcgInv /\ TurnInv /\ [Next]_vars => TurnInv'
    BY TurnStep
  <1>3. QED
    BY <1>1, <1>2, DcgInvariant, PTL DEF Spec

\* lib.rs:13: while the writes to a resource come one at a time, the fences it
\* records rise strictly, whatever fails, is killed or ends late.
THEOREM TurnTheorem == Spec => []FencesRiseInTurn
  <1>1. TurnInv => FencesRiseInTurn
    BY DEF TurnInv, FencesRiseInTurn
  <1>2. QED
    BY <1>1, TurnInvariant, PTL

----------------------------------------------------------------------------
(* Composition: a step of the admissions is one of the sidecar's log or none *)

LEMMA AdmitIsOfLog ==
  ASSUME NEW q \in Requests, Admit(q)
  PROVE  Log!Next
  <1>1. q.trace \in Traces /\ q.body \in {r.body : r \in Requests} /\ FALSE \in BOOLEAN
    BY DEF Traces
  <1> QED
    BY <1>1 DEF Admit, Log!Next

LEMMA NoteIsOfLog ==
  ASSUME NEW q \in Requests, Log!AddNote(FenceNote(q)) \/ Log!AddNote(Compensation(q)) \/ Log!AddNote(Perceived)
  PROVE  Log!Next
  BY DEF Log!Next

LEMMA AdmissionStepsLog ==
  ASSUME TypeOK, Next
  PROVE  Log!Next \/ UNCHANGED spineVars
  <1>1. ASSUME NEW p \in Processes, Submit(p) \/ SubmitFails(p) PROVE Log!Next \/ UNCHANGED spineVars
    <2>1. job[p] \in Requests
      BY <1>1 DEF TypeOK, Submit, SubmitFails
    <2> QED
      BY <1>1, <2>1, AdmitIsOfLog DEF Submit, SubmitFails, spineVars
  <1>2. ASSUME NEW p \in Processes, RecordFence(p) \/ RecordFails(p) \/ Compensate(p)
        PROVE  Log!Next \/ UNCHANGED spineVars
    <2>1. job[p] \in Requests
      BY <1>2 DEF TypeOK, RecordFence, RecordFails, Compensate
    <2> QED
      BY <1>2, <2>1, NoteIsOfLog DEF RecordFence, RecordFails, Compensate
  <1>3. ASSUME NEW p \in Processes, Step(p),
               ~(Submit(p) \/ SubmitFails(p) \/ RecordFence(p) \/ RecordFails(p) \/ Compensate(p))
        PROVE  UNCHANGED spineVars
    BY <1>3 DEF Step, Start, ReadArmed, NotArmed, CheckFence, CheckSeq, ReadFails, SubmitConflicts,
                SubmitRefused, TakeTicket, Crash, spineVars
  <1>4. ASSUME NEW o \in orphans, OrphanEnds(o) PROVE Log!Next \/ UNCHANGED spineVars
    <2>1. o.request \in Requests
      BY DEF TypeOK
    <2> QED
      BY <1>4, <2>1, AdmitIsOfLog, NoteIsOfLog DEF OrphanEnds, spineVars
  <1>5. CASE ToggleArming
    BY <1>5 DEF ToggleArming, spineVars
  <1>6. CASE OtherEvent
    BY <1>6 DEF OtherEvent, Log!Next
  <1> QED
    BY <1>1, <1>2, <1>3, <1>4, <1>5, <1>6 DEF Next

\* admit_write, its orphans and the other writers do to the log only what the
\* sidecar promises of it (EventLog), which is what Spine implements.
THEOREM AdmissionUsesLog == Spec => Log!Spec
  <1>1. Init => Log!Init
    BY DEF Init
  <1>2. TypeOK /\ [Next]_vars => [Log!Next]_Log!logVars
    BY AdmissionStepsLog DEF vars, spineVars, Log!logVars
  <1> QED
    BY <1>1, <1>2, DcgTypeCorrect, PTL DEF Spec, Log!Spec
============================================================================
