---------------------------- MODULE FifoPermits ----------------------------
(***************************************************************************)
(* What crates/dcg-admit promises of its fair semaphore, with no lock, no  *)
(* condvar and no hand-off in it: at most Total permits are out, requests  *)
(* are served in the order they arrived, and a returned permit goes to the *)
(* oldest request in the same step.                                        *)
(***************************************************************************)
EXTENDS Naturals, Sequences, FiniteSets

CONSTANTS Threads,  \* callers of FairSemaphore::acquire
          Total     \* MaxInflight, the hard capacity

VARIABLES queue,    \* requests not yet served, oldest first
          holders   \* threads to which a permit has been assigned

permitVars == <<queue, holders>>

Waiting == {queue[i] : i \in DOMAIN queue}

Init ==
  /\ queue = <<>>
  /\ holders = {}

\* A request is served at once when there is room and nobody is ahead of it.
Arrive(t) ==
  /\ t \notin holders \cup Waiting
  /\ \/ /\ queue = <<>>
        /\ Cardinality(holders) < Total
        /\ holders' = holders \cup {t}
        /\ UNCHANGED queue
     \/ /\ Cardinality(holders) = Total
        /\ queue' = Append(queue, t)
        /\ UNCHANGED holders

\* A returned permit is handed to the oldest request.
Leave(t) ==
  /\ t \in holders
  /\ \/ /\ queue = <<>>
        /\ holders' = holders \ {t}
        /\ UNCHANGED queue
     \/ /\ queue # <<>>
        /\ holders' = (holders \ {t}) \cup {Head(queue)}
        /\ queue' = Tail(queue)

Next == \E t \in Threads : Arrive(t) \/ Leave(t)

Spec == Init /\ [][Next]_permitVars
============================================================================
