------------------------------ MODULE Governor ------------------------------
(***************************************************************************)
(* Governor::govern of crates/dcg-admit/src/governor.rs, called by several *)
(* threads at once: per-agent budget, congestion throttle, circuit         *)
(* breaker, AIMD soft cap, fair semaphore, retried operation, and the      *)
(* report of its outcome.  Each governor has a mutex of its own, so one    *)
(* action below is one critical section, and other threads run between any *)
(* two of them.                                                            *)
(*                                                                         *)
(* Data kept abstract: an operation's value and error are "ok", "refused"  *)
(* (a non-transient DcgError) and "exhausted" (the last transient one);    *)
(* the clock is one bit, whether the half-open timeout has run out since   *)
(* the breaker was last stamped; backoff sleeps are steps without effect.  *)
(***************************************************************************)
EXTENDS FairSemaphore, Integers

CONSTANTS Agents,            \* agent ids charged by govern
          Costs,             \* CostUnit values callers pass
          BudgetLimit,       \* BudgetLimit
          CostMax,           \* u64::MAX, where a charge saturates
          MaxRetries,        \* MaxRetries, a u8
          FailureThreshold,  \* FailureThreshold
          FailureMax,        \* u32::MAX, where the failure count saturates
          IncreaseStep,      \* aimd_increase_step
          FactorNum,         \* aimd_decrease_factor = FactorNum / FactorDen,
          FactorDen          \*   clamped into (0, 1] by AimdController::new

ASSUME BudgetAssumption ==
  /\ Costs \subseteq Nat
  /\ CostMax \in Nat
  /\ BudgetLimit \in 0..CostMax
ASSUME BreakerAssumption ==
  /\ FailureMax \in Nat
  /\ FailureThreshold \in 1..FailureMax
ASSUME RetryAssumption == MaxRetries \in 0..U8Max
ASSUME AimdAssumption ==
  /\ IncreaseStep \in 0..U8Max
  /\ FactorDen \in Nat \ {0}
  /\ FactorNum \in 1..FactorDen

VARIABLES pc,        \* the step of govern each thread is about to take
          spent,     \* AgentBudget.costs
          width,     \* AimdController.effective_width
          seen,      \* current_in_flight, read before the AIMD lock is taken
          breaker,   \* CircuitBreaker.state
          timedOut,  \* the clock is half_open_timeout_ms past opened_at_ms
          failures,  \* CircuitBreaker.consecutive_failures
          attempt,   \* attempts of op made by the current run_with_retry
          result     \* what run_with_retry returned

govVars == <<pc, spent, width, seen, breaker, timedOut, failures, attempt, result>>
vars == <<semVars, govVars>>

Steps == {"idle", "throttle", "check", "inflight", "softcap", "permit", "run",
          "adapt", "settle", "drop"}
Results == {"none", "ok", "refused", "exhausted"}

Capped(n, limit) == IF n > limit THEN limit ELSE n

\* Fault: the decrease without its floor of one.
Unfloored(w) == (w * FactorNum) \div FactorDen

\* AimdController::increase and decrease.
Increased(w) == Capped(Capped(w + IncreaseStep, U8Max), Total)
Decreased(w) == IF (w * FactorNum) \div FactorDen <= 1 THEN 1
                ELSE (w * FactorNum) \div FactorDen

\* Fault: the first attempt counted as a retry.
RetriesOnly == MaxRetries

\* run_with_retry: attempts = max_retries.saturating_add(1), in a u8.
Attempts == Capped(MaxRetries + 1, U8Max)

Init ==
  /\ SemInit
  /\ pc = [t \in Threads |-> "idle"]
  /\ spent = [a \in Agents |-> 0]
  /\ width = Total
  /\ seen = [t \in Threads |-> 0]
  /\ breaker = "Closed"
  /\ timedOut = FALSE
  /\ failures = 0
  /\ attempt = [t \in Threads |-> 0]
  /\ result = [t \in Threads |-> "none"]

Goto(t, step) == pc' = [pc EXCEPT ![t] = step]

----------------------------------------------------------------------------
\* Step 1: AgentBudget::charge.  The cost stays charged whatever happens next.
Charge(t, a, cost) ==
  LET next == Capped(spent[a] + cost, CostMax)
  IN  /\ pc[t] = "idle" /\ at[t] = "out"
      /\ next <= BudgetLimit
      /\ spent' = [spent EXCEPT ![a] = next]
      /\ Goto(t, "throttle")
      /\ UNCHANGED <<semVars, width, seen, breaker, timedOut, failures, attempt, result>>

\* Step 2: a queue depth at or above the threshold shrinks the width.
Throttle(t, congested) ==
  /\ pc[t] = "throttle"
  /\ width' = IF congested THEN Decreased(width) ELSE width
  /\ Goto(t, "check")
  /\ UNCHANGED <<semVars, spent, seen, breaker, timedOut, failures, attempt, result>>

\* Step 3: CircuitBreaker::check lets the call pass: closed, or the probe.
CheckClosed(t) ==
  /\ pc[t] = "check"
  /\ breaker = "Closed"
  /\ Goto(t, "inflight")
  /\ UNCHANGED <<semVars, spent, width, seen, breaker, timedOut, failures, attempt, result>>

\* Fault: the probe starts from a clean failure count.
CleanProbe(t) ==
  /\ pc[t] = "check"
  /\ breaker = "Open" /\ timedOut
  /\ breaker' = "HalfOpen"
  /\ failures' = 0
  /\ Goto(t, "inflight")
  /\ UNCHANGED <<semVars, spent, width, seen, timedOut, attempt, result>>

CheckProbe(t) ==
  /\ pc[t] = "check"
  /\ breaker = "Open" /\ timedOut
  /\ breaker' = "HalfOpen"
  /\ Goto(t, "inflight")
  /\ UNCHANGED <<semVars, spent, width, seen, timedOut, failures, attempt, result>>

\* Step 3, denied: "circuit open".
CheckDenied(t) ==
  /\ pc[t] = "check"
  /\ breaker = "HalfOpen" \/ (breaker = "Open" /\ ~timedOut)
  /\ Goto(t, "idle")
  /\ UNCHANGED <<semVars, spent, width, seen, breaker, timedOut, failures, attempt, result>>

\* Step 4 reads in_flight under the semaphore's mutex ...
ReadInFlight(t) ==
  /\ pc[t] = "inflight"
  /\ seen' = [seen EXCEPT ![t] = inFlight]
  /\ Goto(t, "softcap")
  /\ UNCHANGED <<semVars, spent, width, breaker, timedOut, failures, attempt, result>>

\* ... and compares it with the width under the AIMD mutex.
SoftCapPassed(t) ==
  /\ pc[t] = "softcap"
  /\ seen[t] < width
  /\ seen' = [seen EXCEPT ![t] = 0]
  /\ Goto(t, "permit")
  /\ UNCHANGED <<semVars, spent, width, breaker, timedOut, failures, attempt, result>>

\* "aimd backpressure": govern returns, and nothing tells the breaker that the
\* call it let through never ran.
SoftCapDenied(t) ==
  /\ pc[t] = "softcap"
  /\ seen[t] >= width
  /\ seen' = [seen EXCEPT ![t] = 0]
  /\ Goto(t, "idle")
  /\ UNCHANGED <<semVars, spent, width, breaker, timedOut, failures, attempt, result>>

\* Step 5: FairSemaphore::acquire, in three ways to get on.
StartRun(t) ==
  /\ Goto(t, "run")
  /\ UNCHANGED <<spent, width, seen, breaker, timedOut, failures, attempt, result>>

TakePermit(t)  == pc[t] = "permit" /\ AcquireFast(t) /\ StartRun(t)
AwaitPermit(t) == pc[t] = "permit" /\ Enqueue(t) /\ UNCHANGED govVars
GetPermit(t)   == pc[t] = "permit" /\ Wake(t) /\ StartRun(t)

\* Step 6: one attempt of op, and what run_with_retry makes of it.
Returned(t, r) ==
  /\ result' = [result EXCEPT ![t] = r]
  /\ Goto(t, "adapt")

OpSucceeds(t) ==
  /\ pc[t] = "run"
  /\ attempt' = [attempt EXCEPT ![t] = @ + 1]
  /\ Returned(t, "ok")
  /\ UNCHANGED <<semVars, spent, width, seen, breaker, timedOut, failures>>

OpRefused(t) ==
  /\ pc[t] = "run"
  /\ attempt' = [attempt EXCEPT ![t] = @ + 1]
  /\ Returned(t, "refused")
  /\ UNCHANGED <<semVars, spent, width, seen, breaker, timedOut, failures>>

OpTransient(t) ==
  /\ pc[t] = "run"
  /\ attempt' = [attempt EXCEPT ![t] = @ + 1]
  /\ \/ attempt[t] + 1 < Attempts /\ UNCHANGED <<result, pc>>
     \/ attempt[t] + 1 >= Attempts /\ Returned(t, "exhausted")
  /\ UNCHANGED <<semVars, spent, width, seen, breaker, timedOut, failures>>

\* Step 7, first half: AIMD.
Adapt(t) ==
  /\ pc[t] = "adapt"
  /\ width' = IF result[t] = "ok" THEN Increased(width) ELSE Decreased(width)
  /\ Goto(t, "settle")
  /\ UNCHANGED <<semVars, spent, seen, breaker, timedOut, failures, attempt, result>>

\* Locals of a call that is over are back at their initial values.
Forget(t) ==
  /\ attempt' = [attempt EXCEPT ![t] = 0]
  /\ result' = [result EXCEPT ![t] = "none"]

\* Step 7, second half: record_success closes the breaker whatever its state.
RecordSuccess(t) ==
  /\ pc[t] = "settle"
  /\ result[t] = "ok"
  /\ failures' = 0
  /\ breaker' = "Closed"
  /\ timedOut' = FALSE
  /\ Forget(t)
  /\ Goto(t, "drop")
  /\ UNCHANGED <<semVars, spent, width, seen>>

\* record_failure: at the threshold the breaker opens, or is stamped again.
RecordFailure(t) ==
  LET n == Capped(failures + 1, FailureMax)
  IN  /\ pc[t] = "settle"
      /\ result[t] # "ok"
      /\ failures' = n
      /\ \/ n >= FailureThreshold /\ breaker' = "Open" /\ timedOut' = FALSE
         \/ n < FailureThreshold /\ UNCHANGED <<breaker, timedOut>>
      /\ Forget(t)
      /\ Goto(t, "drop")
      /\ UNCHANGED <<semVars, spent, width, seen>>

\* Step 8: the permit is dropped, which may leave a waiter still to signal.
DropPermit(t) ==
  /\ pc[t] = "drop"
  /\ Release(t)
  /\ Goto(t, "idle")
  /\ UNCHANGED <<spent, width, seen, breaker, timedOut, failures, attempt, result>>

SignalWaiter(t) == Signal(t) /\ UNCHANGED govVars

\* The clock passes opened_at_ms + half_open_timeout_ms.
TimeoutElapses ==
  /\ breaker = "Open" /\ ~timedOut
  /\ timedOut' = TRUE
  /\ UNCHANGED <<semVars, pc, spent, width, seen, breaker, failures, attempt, result>>

----------------------------------------------------------------------------
\* What a thread inside govern does of its own accord.
Proceed(t) ==
  \/ \E congested \in BOOLEAN : Throttle(t, congested)
  \/ CheckClosed(t) \/ CheckProbe(t) \/ CheckDenied(t)
  \/ ReadInFlight(t)
  \/ SoftCapPassed(t) \/ SoftCapDenied(t)
  \/ TakePermit(t) \/ AwaitPermit(t) \/ GetPermit(t)
  \/ OpSucceeds(t) \/ OpRefused(t) \/ OpTransient(t)
  \/ Adapt(t)
  \/ RecordSuccess(t) \/ RecordFailure(t)
  \/ DropPermit(t) \/ SignalWaiter(t)

Call(t) == \E a \in Agents, cost \in Costs : Charge(t, a, cost)

Next ==
  \/ \E t \in Threads : Call(t) \/ Proceed(t)
  \/ TimeoutElapses

Spec == Init /\ [][Next]_vars

\* Threads inside govern are scheduled and every attempt of op returns; time
\* passes.  Nothing obliges a thread to call govern.
Fairness ==
  /\ \A t \in Threads : WF_vars(Proceed(t))
  /\ WF_vars(TimeoutElapses)

FairSpec == Spec /\ Fairness

\* Callers that keep coming, as fence holders that retry a denied write do.
BusySpec == FairSpec /\ \A t \in Threads : WF_vars(Call(t))

----------------------------------------------------------------------------
TypeOK ==
  /\ SemTypeOK
  /\ pc \in [Threads -> Steps]
  /\ spent \in [Agents -> 0..BudgetLimit]
  /\ width \in 1..Total
  /\ seen \in [Threads -> 0..Total]
  /\ breaker \in {"Closed", "Open", "HalfOpen"}
  /\ timedOut \in BOOLEAN
  /\ failures \in 0..FailureMax
  /\ attempt \in [Threads -> 0..Attempts]
  /\ result \in [Threads -> Results]

\* governor.rs:34 "failure re-opens it": while the breaker is not closed the
\* failure count is still at the threshold, so that one more failure, the
\* probe's, opens it again although record_failure never looks at HalfOpen.
ProbeFailureReopens == breaker # "Closed" => failures >= FailureThreshold

\* governor.rs:7 "bounds the number of concurrently in-flight admissions": the
\* calls between acquire and the drop of their permit never outnumber
\* MaxInflight, although the soft cap let any number of them through.
AdmissionsBounded ==
  Cardinality({t \in Threads : pc[t] \in {"run", "adapt", "settle", "drop"}}) <= Total

\* governor.rs:14: a call is reported as a transient failure only after the
\* first attempt and all MaxRetries retries, and a non-transient error ends it.
RetriesExhausted ==
  \A t \in Threads : result[t] = "exhausted" => attempt[t] = MaxRetries + 1

\* No call hangs: lost wake-ups, permits that are not handed on or retries
\* without end would each leave one inside govern.
EveryCallReturns == \A t \in Threads : pc[t] # "idle" ~> pc[t] = "idle"

\* governor.rs:33 "a single probe is allowed; success closes the breaker;
\* failure re-opens it": a half-open breaker is eventually settled.
HalfOpenSettles == breaker = "HalfOpen" ~> breaker # "HalfOpen"
==============================================================================
