--------------------------- MODULE SnapshotReader ---------------------------
(***************************************************************************)
(* `orch-kernelctl snapshot`: one read after the other, each of what is    *)
(* committed at that moment, with no transaction around them, while tasks  *)
(* and perception passes are committed (EventLog).  What a read returns is *)
(* worked out from the log, with which the tables change in one commit.    *)
(* A row edited in place (`altered`) is noticed by verify_chain and by     *)
(* nothing else.  A failing read ends the command (Plugin), except that of *)
(* verify_chain, which then says that the chain is not well.               *)
(***************************************************************************)
EXTENDS EventLog, FiniteSets, SequencesExt

CONSTANTS EdgeLimit  \* edge rows in a snapshot

VARIABLE altered  \* some committed row was edited

PerceiveNote == [kind |-> "perceive.snapshot", about |-> "body"]

LastOf(entries, kind) ==
  LET places == {i \in DOMAIN entries : entries[i].kind = kind}
  IN IF places = {} THEN 0 ELSE CHOOSE i \in places : \A j \in places : j <= i

CountOf(entries, kind) == Cardinality({i \in DOMAIN entries : entries[i].kind = kind})

\* The edges an event brings with it.
EdgesOf(entry) ==
  CASE entry.kind = "TASK_INGESTED" -> <<"submit_to_event", "event_to_warrant">>
    [] entry.kind = "RECIPE_RUN_STARTED" -> <<"warrant_to_run">>
    [] entry.kind = "RESULT_VERIFIED" -> <<"run_to_result", "result_to_replay_dashboard">>
    [] OTHER -> <<>>

\* The newest edge rows. Each is taken to be observed in a millisecond of its own;
\* the code breaks a tie by the edge's name.
NewestEdges(entries) ==
  LET rows == FlattenSeq([i \in DOMAIN entries |-> EdgesOf(entries[i])])
  IN ToSet(SubSeq(rows, IF Len(rows) > EdgeLimit THEN Len(rows) - EdgeLimit + 1 ELSE 1, Len(rows)))

\* Fault: the last sequence number is read before the events are counted.
HeadFirst == <<"last_seq", "event_count", "verify_chain_ok", "latest_perceive", "edges", "warrant_count">>

\* The reads in their order.
Reads == <<"event_count", "last_seq", "verify_chain_ok", "latest_perceive", "edges", "warrant_count">>

\* What the log answers when `entries` are committed.
ReadAt(field, entries) ==
  CASE field = "event_count" -> Len(entries)
    [] field = "last_seq" -> Len(entries)
    [] field = "latest_perceive" -> LastOf(entries, "perceive.snapshot")
    [] field = "edges" -> NewestEdges(entries)
    [] field = "warrant_count" -> CountOf(entries, "TASK_INGESTED")

\* What a read may return: verify_chain_ok is false of an edited row, and also
\* when verify_chain itself fails, of which no error is kept.
ReadsOf(field, mayFail) ==
  IF field = "verify_chain_ok" THEN {~altered, ~altered /\ ~mayFail} ELSE {ReadAt(field, log)}

\* What a reader that has got so far may read next.
NextReads(got, mayFail) == ReadsOf(Reads[Len(got) + 1], mayFail)

Complete(got) == Len(got) = Len(Reads)

\* What is printed in the end.
Snapshot(got) == [f \in ToSet(Reads) |-> got[CHOOSE i \in DOMAIN Reads : Reads[i] = f]]

AlterRow ==
  /\ ~altered
  /\ log # <<>>
  /\ altered' = TRUE
  /\ UNCHANGED logVars

Before(n) == SubSeq(log, 1, n)

\* A snapshot is a forward cut of the log: each field is what the log once said,
\* and no field is of an earlier moment than one read before it.  So event_count
\* may lag behind last_seq and latest_perceive may be newer than both, never the
\* other way round (EventLog::snapshot, separate statements).
ForwardCut(s) ==
  \E counted \in 0..Len(log) : \E head \in counted..Len(log) : \E seen \in head..Len(log) :
  \E linked \in seen..Len(log) : \E warranted \in linked..Len(log) :
    /\ s.event_count = counted
    /\ s.last_seq = head
    /\ s.latest_perceive = ReadAt("latest_perceive", Before(seen))
    /\ s.edges = ReadAt("edges", Before(linked))
    /\ s.warrant_count = ReadAt("warrant_count", Before(warranted))
=============================================================================
