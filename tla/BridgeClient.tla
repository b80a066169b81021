---------------------------- MODULE BridgeClient ----------------------------
(***************************************************************************)
(* The scheduler of the dashboard's polls (habitat-bridge-client): the     *)
(* first poll of every endpoint is staggered, one per timer, and only then *)
(* do intervals count.  A poll starts a host command and never waits for   *)
(* it; commands end in any order, and nothing in an answer says which poll *)
(* it belongs to.  Seconds are whole and last_poll is kept as its distance *)
(* from `elapsed`, which is all the code compares.                         *)
(***************************************************************************)
EXTENDS Naturals, Sequences, FiniteSets, SequencesExt

CONSTANT PollSecs  \* seconds between two timers

ASSUME PollSecsAssumption == PollSecs \in Nat \ {0}

VARIABLES endpoints,        \* [tag, interval], in the order of registration
          age,              \* seconds since the last poll of each endpoint
          staggerIdx,       \* endpoints polled for the first time so far
          staggerComplete,
          running           \* commands unanswered, by endpoint: what each has done so far

clientVars == <<endpoints, age, staggerIdx, staggerComplete, running>>

Indices == DOMAIN endpoints

\* Every module has registered its sources; nothing has been polled.
NewClient(eps) ==
  [endpoints |-> eps, age |-> [i \in DOMAIN eps |-> 0], running |-> [i \in DOMAIN eps |-> <<>>]]

ClientInit(eps) ==
  /\ endpoints = NewClient(eps).endpoints
  /\ age = NewClient(eps).age
  /\ running = NewClient(eps).running
  /\ staggerIdx = 0
  /\ staggerComplete = FALSE

ClientLoads(eps) ==
  /\ endpoints' = NewClient(eps).endpoints
  /\ age' = NewClient(eps).age
  /\ running' = NewClient(eps).running
  /\ staggerIdx' = 0
  /\ staggerComplete' = FALSE

\* Fault: every endpoint is stamped, polled or not.
StampAll(polled, secs) ==
  /\ age' = [i \in Indices |-> 0]
  /\ running' = [i \in Indices |-> IF i \in polled THEN Append(running[i], <<>>) ELSE running[i]]
  /\ UNCHANGED endpoints

\* `secs` pass, and a command is started for each endpoint in `polled`.
Poll(polled, secs) ==
  /\ age' = [i \in Indices |-> IF i \in polled THEN 0 ELSE age[i] + secs]
  /\ running' = [i \in Indices |-> IF i \in polled THEN Append(running[i], <<>>) ELSE running[i]]
  /\ UNCHANGED endpoints

\* The first round: the next endpoint and no other, however overdue.
StaggerPoll(secs) ==
  /\ ~staggerComplete
  /\ Poll({staggerIdx + 1} \cap Indices, secs)
  /\ staggerIdx' = IF staggerIdx < Len(endpoints) THEN staggerIdx + 1 ELSE staggerIdx
  /\ staggerComplete' = (staggerIdx' >= Len(endpoints))

\* Fault: an endpoint whose interval has just passed waits for the next timer.
Overdue(secs) == {i \in Indices : age[i] + secs > endpoints[i].interval}

Due(secs) == {i \in Indices : age[i] + secs >= endpoints[i].interval}

IntervalPoll(secs) ==
  /\ staggerComplete
  /\ Poll(Due(secs), secs)
  /\ UNCHANGED <<staggerIdx, staggerComplete>>

PollDue(secs) == StaggerPoll(secs) \/ IntervalPoll(secs)

\* The p-th of endpoint i's commands ends, and leaves the others running.
Ends(i, p) ==
  /\ i \in Indices
  /\ p \in DOMAIN running[i]
  /\ running' = [running EXCEPT ![i] = RemoveAt(@, p)]
  /\ UNCHANGED <<endpoints, age, staggerIdx, staggerComplete>>

\* The p-th of endpoint i's commands has done one more thing.
Advances(i, p, done) ==
  /\ running' = [running EXCEPT ![i][p] = Append(@, done)]
  /\ UNCHANGED <<endpoints, age, staggerIdx, staggerComplete>>

\* The event an answer becomes. Text that is not JSON is data that no module decodes.
HandleResult(tag, result) ==
  IF result.exit # 0 \/ result.out = "empty"
    THEN [type |-> "BridgeError", tag |-> tag]
    ELSE [type |-> "BridgeData", tag |-> tag, payload |-> result]

Endpoints == [tag : STRING, interval : Nat \ {0}]

ClientTypeOK ==
  /\ endpoints \in Seq(Endpoints)
  /\ age \in [Indices -> Nat]
  /\ staggerIdx \in 0..Len(endpoints)
  /\ staggerComplete \in BOOLEAN
  /\ DOMAIN running = Indices

\* The time between two polls of an endpoint is bounded by its interval or, in
\* the first round, by one timer for each other endpoint: the stagger, the
\* intervals and the r key together never leave one out (poll_due; a shared
\* index, a shared clock and one last_poll each).
PolledInTime ==
  \A i \in Indices : age[i] < endpoints[i].interval \/ age[i] <= (Len(endpoints) - 1) * PollSecs
============================================================================
