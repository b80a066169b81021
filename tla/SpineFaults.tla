---------------------------- MODULE SpineFaults ----------------------------
(***************************************************************************)
(* The spine on a machine that loses power, and under an operator who      *)
(* edits the database file.  EventLog::initialize asks for WAL with        *)
(* synchronous = NORMAL: a commit is written but not synced, a checkpoint  *)
(* syncs.  A power cut therefore brings back some committed database since *)
(* the last checkpoint, never a torn one.  A killed process, by contrast,  *)
(* is an action of Spine and loses no commit.                              *)
(***************************************************************************)
EXTENDS Spine

CONSTANT MaxFaults  \* bound: power cuts and edits in a behaviour

ASSUME BoundIsNat == MaxFaults \in Nat

VARIABLES past,      \* committed databases a power cut may bring back
          faults,    \* power cuts and edits so far
          alteredAt  \* length of the log when a row of it was edited, 0 if none

faultVars == <<vars, past, faults, alteredAt>>

FaultInit ==
  /\ Init
  /\ past = {}
  /\ faults = 0
  /\ alteredAt = 0

\* A step of a process; a commit leaves the database before it on the disk.
ProcessStep ==
  /\ Next
  /\ past' = IF db' = db THEN past ELSE past \cup {db}
  /\ UNCHANGED <<faults, alteredAt>>

\* By size, or when the last connection closes, which is after the reply.
Checkpoint ==
  /\ past # {}
  /\ past' = {}
  /\ UNCHANGED <<vars, faults, alteredAt>>

PowerCut ==
  /\ faults < MaxFaults
  /\ faults' = faults + 1
  /\ \E survivor \in past \cup {db} :
       /\ db' = survivor
       /\ tx' = survivor
       /\ alteredAt' = IF VerifyChain(survivor.log) THEN 0 ELSE alteredAt
  /\ past' = {}
  /\ writer' = {}
  /\ pc' = [p \in Processes |-> "idle"]
  /\ job' = [p \in Processes |-> NoJob]
  /\ reply' = [p \in Processes |-> NoReply]
  /\ UNCHANGED told

\* An UPDATE of a stored event, by sqlite3 and not by the sidecar.
AlterRow(i, topic) ==
  /\ alteredAt = 0
  /\ faults < MaxFaults
  /\ faults' = faults + 1
  /\ writer = {}
  /\ db.log[i].about # topic
  /\ db' = [db EXCEPT !.log[i].about = topic]
  /\ tx' = db'
  /\ past' = past \cup {db}
  /\ alteredAt' = Len(db.log)
  /\ UNCHANGED <<writer, pc, job, reply, told>>

FaultNext ==
  \/ ProcessStep
  \/ Checkpoint
  \/ PowerCut
  \/ \E i \in DOMAIN db.log, topic \in Topics : AlterRow(i, topic)

FaultSpec == FaultInit /\ [][FaultNext]_faultVars

----------------------------------------------------------------------------
FaultTypeOK ==
  /\ TypeOK
  /\ past \in SUBSET Databases
  /\ faults \in 0..MaxFaults
  /\ alteredAt \in Nat

\* Whatever a power cut takes away, it takes whole: as long as no row is edited,
\* the chain verifies, and tasks and runs are in the log entirely or not at all.
PowerCutIsClean ==
  alteredAt = 0 => ChainVerifies /\ OneIngestPerKey /\ AdmissionIsWhole /\ RunsAreWhole

\* Once a row was edited, no later verify_chain run calls the chain good, and
\* later appends do not heal it.
AlterationIsNoticed ==
  alteredAt # 0 =>
    \A j \in (alteredAt + 1)..Len(db.log) : db.log[j].kind = "RESULT_VERIFIED" =>
      \A m \in db.messages : m.key = db.log[j].about => m.integration = "FAILED"
============================================================================
