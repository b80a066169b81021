------------------------------ MODULE EventLog ------------------------------
(***************************************************************************)
(* What the sidecar promises of its event log, with no SQLite transaction, *)
(* hash or process in it: the log only grows; a task enters it once per    *)
(* idempotency key, in one step with its receipt and, when it asked for    *)
(* one, with both events of its verify_chain run and nothing in between.   *)
(***************************************************************************)
EXTENDS Naturals, Sequences

CONSTANTS Keys,    \* idempotency keys
          Hashes,  \* canonical request hashes
          Notes    \* entries that reach the log by orch-kernelctl append

VARIABLES log,      \* entries [kind, about], oldest first
          receipts  \* rows [key, request]: what each key was first used for

logVars == <<log, receipts>>

Ingested(k) == [kind |-> "TASK_INGESTED", about |-> k]

RunOf(k) == <<[kind |-> "RECIPE_RUN_STARTED", about |-> k],
              [kind |-> "RESULT_VERIFIED", about |-> k]>>

Admitted(k) == \E r \in receipts : r.key = k

Init ==
  /\ log = <<>>
  /\ receipts = {}

Admit(k, h, run) ==
  /\ ~Admitted(k)
  /\ log' = log \o <<Ingested(k)>> \o (IF run THEN RunOf(k) ELSE <<>>)
  /\ receipts' = receipts \cup {[key |-> k, request |-> h]}

AddNote(note) ==
  /\ log' = Append(log, note)
  /\ UNCHANGED receipts

Next ==
  \/ \E k \in Keys, h \in Hashes, run \in BOOLEAN : Admit(k, h, run)
  \/ \E note \in Notes : AddNote(note)

Spec == Init /\ [][Next]_logVars
============================================================================
