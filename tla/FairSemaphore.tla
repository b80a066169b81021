--------------------------- MODULE FairSemaphore ---------------------------
(***************************************************************************)
(* FairSemaphore of crates/dcg-admit/src/governor.rs: a counting semaphore *)
(* whose blocked callers sit in a FIFO queue, each on a condvar of its     *)
(* own.  A release that finds a waiter never touches the free count: it    *)
(* pops the head, counts the permit as already in flight for it, and only  *)
(* after the mutex is unlocked sets that waiter's flag.                    *)
(*                                                                         *)
(* One action is one critical section of the state mutex, or one access    *)
(* to a waiter's own (Mutex<bool>, Condvar) pair.  wait_while absorbs      *)
(* spurious wake-ups, which therefore change nothing here.                 *)
(***************************************************************************)
EXTENDS Naturals, Sequences, FiniteSets

CONSTANTS Threads,   \* threads that call the semaphore
          Total      \* MaxInflight: the u8 capacity, never zero

ASSUME ThreadsFinite == IsFiniteSet(Threads)
ASSUME TotalIsMaxInflight == Total \in 1..255

VARIABLES available, \* SemState.available
          inFlight,  \* SemState.in_flight
          waiters,   \* SemState.waiters, oldest first
          ready,     \* threads whose condvar flag is TRUE
          at,        \* where each thread is in acquire / drop
          granted    \* the waiter a releasing thread has popped but not signalled

semVars == <<available, inFlight, waiters, ready, at, granted>>

U8Max == 255

\* u8::saturating_sub(1) and u8::saturating_add(1).
SatDec(n) == IF n = 0 THEN 0 ELSE n - 1
SatInc(n) == IF n = U8Max THEN U8Max ELSE n + 1

Where == {"out", "waiting", "holding", "signalling"}

Queued == {waiters[i] : i \in DOMAIN waiters}

SemInit ==
  /\ available = Total
  /\ inFlight = 0
  /\ waiters = <<>>
  /\ ready = {}
  /\ at = [t \in Threads |-> "out"]
  /\ granted = [t \in Threads |-> t]   \* read only while "signalling"

\* Fault: the last free permit is never given out.
LastPermitKept == available > 1 /\ waiters = <<>>

FastPath == available > 0 /\ waiters = <<>>

\* acquire_permit, fast path: a free permit and nobody ahead.
AcquireFast(t) ==
  /\ at[t] = "out"
  /\ FastPath
  /\ available' = available - 1
  /\ inFlight' = inFlight + 1
  /\ at' = [at EXCEPT ![t] = "holding"]
  /\ UNCHANGED <<waiters, ready, granted>>

\* acquire_permit, slow path: join the queue with a fresh, unset flag.
Enqueue(t) ==
  /\ at[t] = "out"
  /\ ~FastPath
  /\ waiters' = Append(waiters, t)
  /\ ready' = ready \ {t}
  /\ at' = [at EXCEPT ![t] = "waiting"]
  /\ UNCHANGED <<available, inFlight, granted>>

\* wait_while returns once the flag is set, and the pair is dropped; the permit
\* was counted already.
Wake(t) ==
  /\ at[t] = "waiting"
  /\ t \in ready
  /\ ready' = ready \ {t}
  /\ at' = [at EXCEPT ![t] = "holding"]
  /\ UNCHANGED <<available, inFlight, waiters, granted>>

\* release_one with an empty queue: the permit becomes free.
ReleaseFree(t) ==
  /\ at[t] = "holding"
  /\ waiters = <<>>
  /\ inFlight' = SatDec(inFlight)
  /\ available' = SatInc(available)
  /\ at' = [at EXCEPT ![t] = "out"]
  /\ UNCHANGED <<waiters, ready, granted>>

\* Faults of the hand-off: the newest waiter served, the permit also returned to
\* the free count, the permit not counted as in flight for its new owner.
ServeNewest(t) ==
  /\ at[t] = "holding"
  /\ waiters # <<>>
  /\ inFlight' = SatDec(inFlight) + 1
  /\ waiters' = SubSeq(waiters, 1, Len(waiters) - 1)
  /\ granted' = [granted EXCEPT ![t] = waiters[Len(waiters)]]
  /\ at' = [at EXCEPT ![t] = "signalling"]
  /\ UNCHANGED <<available, ready>>

FreeAndHandOff(t) ==
  /\ at[t] = "holding"
  /\ waiters # <<>>
  /\ inFlight' = SatDec(inFlight) + 1
  /\ available' = SatInc(available)
  /\ waiters' = Tail(waiters)
  /\ granted' = [granted EXCEPT ![t] = Head(waiters)]
  /\ at' = [at EXCEPT ![t] = "signalling"]
  /\ UNCHANGED ready

UncountedHandOff(t) ==
  /\ at[t] = "holding"
  /\ waiters # <<>>
  /\ inFlight' = SatDec(inFlight)
  /\ waiters' = Tail(waiters)
  /\ granted' = [granted EXCEPT ![t] = Head(waiters)]
  /\ at' = [at EXCEPT ![t] = "signalling"]
  /\ UNCHANGED <<available, ready>>

\* release_one with a waiter: the permit moves to the head of the queue.
ReleaseHandOff(t) ==
  /\ at[t] = "holding"
  /\ waiters # <<>>
  /\ inFlight' = SatDec(inFlight) + 1
  /\ waiters' = Tail(waiters)
  /\ granted' = [granted EXCEPT ![t] = Head(waiters)]
  /\ at' = [at EXCEPT ![t] = "signalling"]
  /\ UNCHANGED <<available, ready>>

\* Fault: the waiter is notified but its flag is left unset.
NotifyOnly(t) ==
  /\ at[t] = "signalling"
  /\ granted' = [granted EXCEPT ![t] = t]
  /\ at' = [at EXCEPT ![t] = "out"]
  /\ UNCHANGED <<available, inFlight, waiters, ready>>

\* The rest of release_one, outside the state mutex: set the flag and notify.
Signal(t) ==
  /\ at[t] = "signalling"
  /\ ready' = ready \cup {granted[t]}
  /\ granted' = [granted EXCEPT ![t] = t]
  /\ at' = [at EXCEPT ![t] = "out"]
  /\ UNCHANGED <<available, inFlight, waiters>>

Release(t) == ReleaseFree(t) \/ ReleaseHandOff(t)

SemNext ==
  \E t \in Threads :
    \/ AcquireFast(t)
    \/ Enqueue(t)
    \/ Wake(t)
    \/ Release(t)
    \/ Signal(t)

SemSpec == SemInit /\ [][SemNext]_semVars

\* A thread inside acquire or drop is scheduled, and an operation under a
\* permit ends: run_with_retry makes boundedly many attempts and the permit is
\* dropped on return and on unwinding.  Nobody is obliged to call acquire.
SemFairness ==
  \A t \in Threads : WF_semVars(Wake(t) \/ Release(t) \/ Signal(t))

FairSemSpec == SemSpec /\ SemFairness

----------------------------------------------------------------------------
\* Threads popped from the queue whose flag nobody has set yet, or that have
\* not yet seen it: a permit is counted for them while they still block.
InTransit == {t \in Threads : at[t] = "waiting" /\ t \notin Queued}
Holding   == {t \in Threads : at[t] = "holding"}
Assigned  == Holding \cup InTransit

\* The counts stay within the capacity and no thread is in the queue twice.
SemTypeOK ==
  /\ available \in 0..Total
  /\ inFlight \in 0..Total
  /\ waiters \in Seq(Threads)
  /\ \A i, j \in DOMAIN waiters : waiters[i] = waiters[j] => i = j
  /\ ready \in SUBSET Threads
  /\ at \in [Threads -> Where]
  /\ granted \in [Threads -> Threads]

\* governor.rs:7 "bounds the number of concurrently in-flight admissions":
\* the threads that run an operation never outnumber MaxInflight, even while
\* permits are travelling from a release to a popped waiter.
MaxInflightRespected == Cardinality(Holding) <= Total

\* No permit is lost or minted: the free ones and the assigned ones, those in
\* transit between two threads included, always add up to the capacity.
PermitsConserved ==
  /\ inFlight = Cardinality(Assigned)
  /\ available + inFlight = Total

\* A caller never sleeps in the queue while a permit is free.
NoIdlePermit == waiters # <<>> => available = 0

\* A popped waiter is owed exactly one wake-up: its flag is set, or exactly
\* one releasing thread is still on its way to set it.
NoLostWakeup ==
  \A t \in InTransit :
    \/ t \in ready
    \/ \E s \in Threads : /\ at[s] = "signalling"
                          /\ granted[s] = t
                          /\ \A u \in Threads : (at[u] = "signalling" /\ granted[u] = t) => u = s

\* governor.rs:483 "later arrivals cannot bypass an earlier waiter": a step
\* that assigns a permit to b while a stays queued finds b ahead of a.
NoOvertaking ==
  [][\A a, b \in Threads :
       (a \in Queued /\ a \in Queued' /\ b \notin Assigned /\ b \in Assigned')
         => \E i, j \in DOMAIN waiters : i < j /\ waiters[i] = b /\ waiters[j] = a]_semVars

\* governor.rs:9 "No waiter can be starved": every blocked caller is let in.
EveryWaiterServed == \A t \in Threads : at[t] = "waiting" ~> at[t] = "holding"

\* The promise: the detailed semaphore implements the abstract FIFO permits.
Permits == INSTANCE FifoPermits WITH queue <- waiters, holders <- Assigned
RefinesFifoPermits == Permits!Spec
============================================================================
