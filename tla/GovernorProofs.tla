--------------------------- MODULE GovernorProofs ---------------------------
(***************************************************************************)
(* Governor::govern for any number of threads and agents and every         *)
(* configuration: types and bounds, permits held exactly while running,    *)
(* the failure count behind a half-open breaker, and the fair semaphore's  *)
(* guarantees carried over to the composed system.                         *)
(***************************************************************************)
EXTENDS Governor, FairSemaphoreProofs

GovTyped ==
  /\ pc \in [Threads -> Steps]
  /\ spent \in [Agents -> 0..BudgetLimit]
  /\ width \in 1..Total
  /\ seen \in [Threads -> 0..Total]
  /\ breaker \in {"Closed", "Open", "HalfOpen"}
  /\ timedOut \in BOOLEAN
  /\ failures \in 0..FailureMax
  /\ attempt \in [Threads -> 0..Attempts]
  /\ result \in [Threads -> Results]

\* Where a thread is in run_with_retry: attempts left while it runs, an outcome
\* once it has returned, nothing at all before and after.
RetryInv ==
  \A t \in Threads :
    /\ pc[t] = "run" => attempt[t] < Attempts /\ result[t] = "none"
    /\ pc[t] \notin {"run", "adapt", "settle"} => attempt[t] = 0 /\ result[t] = "none"
    /\ result[t] = "exhausted" => attempt[t] = Attempts

\* A permit is held exactly between acquire and its drop at the end of govern.
PermitScope ==
  \A t \in Threads : at[t] = "holding" <=> pc[t] \in {"run", "adapt", "settle", "drop"}

\* The part of the invariant that is about the governors alone.
SoftInv == GovTyped /\ ProbeFailureReopens /\ RetryInv

\* The inductive invariant.
GovInv == SemInv /\ SoftInv /\ PermitScope

----------------------------------------------------------------------------
(* Arithmetic of the soft governors *)

LEMMA AttemptsType == Attempts \in 1..U8Max
  BY RetryAssumption DEF Attempts, Capped, U8Max

\* AimdController::increase stays within the hard capacity.
LEMMA IncreasedType ==
  ASSUME NEW w \in 1..Total
  PROVE  Increased(w) \in 1..Total
  BY TotalIsMaxInflight, AimdAssumption DEF Increased, Capped, U8Max

\* AimdController::decrease never reaches zero and never grows.
LEMMA DecreasedType ==
  ASSUME NEW w \in 1..Total
  PROVE  Decreased(w) \in 1..w
  <1> DEFINE q == (w * FactorNum) \div FactorDen
  <1>1. w \in Nat /\ w >= 1 /\ FactorNum \in Nat /\ FactorDen \in Nat /\ FactorDen > 0
        /\ FactorNum <= FactorDen
    BY TotalIsMaxInflight, AimdAssumption
  <1>2. w * FactorNum \in Nat /\ w * FactorDen \in Nat /\ w * FactorNum <= w * FactorDen
    BY <1>1
  <1>3. q \in Int /\ q * FactorDen <= w * FactorNum
    BY <1>1, <1>2
  <1>4. q <= w
    BY <1>1, <1>2, <1>3
  <1>5. QED
    BY <1>1, <1>3, <1>4 DEF Decreased

----------------------------------------------------------------------------
(* The soft part of the invariant, one lemma per action *)

LEMMA ChargeKeepsSoft ==
  ASSUME SoftInv, NEW t \in Threads, NEW a \in Agents, NEW cost \in Costs, Charge(t, a, cost)
  PROVE  SoftInv'
  <1> DEFINE next == Capped(spent[a] + cost, CostMax)
  <1>1. next \in 0..BudgetLimit
    BY BudgetAssumption DEF SoftInv, GovTyped, Charge, Capped
  <1>2. spent' \in [Agents -> 0..BudgetLimit]
    BY <1>1 DEF SoftInv, GovTyped, Charge
  <1>3. QED
    BY <1>2 DEF SoftInv, GovTyped, ProbeFailureReopens, RetryInv, Charge, Goto, Steps

LEMMA ThrottleKeepsSoft ==
  ASSUME SoftInv, NEW t \in Threads, NEW congested \in BOOLEAN, Throttle(t, congested)
  PROVE  SoftInv'
  <1>1. width' \in 1..Total
    BY DecreasedType, TotalIsMaxInflight DEF SoftInv, GovTyped, Throttle
  <1>2. QED
    BY <1>1 DEF SoftInv, GovTyped, ProbeFailureReopens, RetryInv, Throttle, Goto, Steps

LEMMA CheckKeepsSoft ==
  ASSUME SoftInv, NEW t \in Threads, CheckClosed(t) \/ CheckProbe(t) \/ CheckDenied(t)
  PROVE  SoftInv'
  BY DEF SoftInv, GovTyped, ProbeFailureReopens, RetryInv, CheckClosed, CheckProbe,
         CheckDenied, Goto, Steps

LEMMA SoftCapKeepsSoft ==
  ASSUME SemInv, SoftInv, NEW t \in Threads,
         ReadInFlight(t) \/ SoftCapPassed(t) \/ SoftCapDenied(t)
  PROVE  SoftInv'
  <1>1. inFlight \in 0..Total
    BY TotalIsMaxInflight DEF SemInv, Typed, PermitsConserved
  <1>2. seen' \in [Threads -> 0..Total]
    BY <1>1, TotalIsMaxInflight
       DEF SoftInv, GovTyped, ReadInFlight, SoftCapPassed, SoftCapDenied
  <1>3. QED
    BY <1>2 DEF SoftInv, GovTyped, ProbeFailureReopens, RetryInv, ReadInFlight,
                SoftCapPassed, SoftCapDenied, Goto, Steps

LEMMA PermitKeepsSoft ==
  ASSUME SoftInv, NEW t \in Threads,
         TakePermit(t) \/ AwaitPermit(t) \/ GetPermit(t) \/ SignalWaiter(t)
  PROVE  SoftInv'
  <1>1. CASE UNCHANGED govVars
    BY <1>1 DEF SoftInv, GovTyped, ProbeFailureReopens, RetryInv, govVars
  <1>2. CASE pc[t] = "permit" /\ StartRun(t)
    BY <1>2, AttemptsType
       DEF SoftInv, GovTyped, ProbeFailureReopens, RetryInv, StartRun, Goto, Steps, U8Max
  <1>3. QED
    BY <1>1, <1>2 DEF TakePermit, AwaitPermit, GetPermit, SignalWaiter

LEMMA OpKeepsSoft ==
  ASSUME SoftInv, NEW t \in Threads, OpSucceeds(t) \/ OpRefused(t) \/ OpTransient(t)
  PROVE  SoftInv'
  <1>1. attempt[t] \in Nat /\ attempt[t] < Attempts /\ Attempts \in Nat /\ pc[t] = "run"
    BY AttemptsType DEF SoftInv, GovTyped, RetryInv, OpSucceeds, OpRefused, OpTransient, U8Max
  <1>2. GovTyped'
    BY <1>1 DEF SoftInv, GovTyped, OpSucceeds, OpRefused, OpTransient, Returned, Goto,
                Steps, Results
  <1>3. ProbeFailureReopens'
    BY DEF SoftInv, ProbeFailureReopens, OpSucceeds, OpRefused, OpTransient
  <1>4. RetryInv'
    <2>1. CASE OpSucceeds(t) \/ OpRefused(t)
      BY <1>1, <2>1 DEF SoftInv, GovTyped, RetryInv, OpSucceeds, OpRefused, Returned, Goto
    <2>2. CASE OpTransient(t) /\ attempt[t] + 1 < Attempts
      BY <1>1, <2>2 DEF SoftInv, GovTyped, RetryInv, OpTransient
    <2>3. CASE OpTransient(t) /\ attempt[t] + 1 >= Attempts
      <3>1. attempt[t] + 1 = Attempts
        BY <1>1, <2>3
      <3>2. QED
        BY <1>1, <2>3, <3>1 DEF SoftInv, GovTyped, RetryInv, OpTransient, Returned, Goto
    <2>4. QED
      BY <1>1, <2>1, <2>2, <2>3
  <1>5. QED
    BY <1>2, <1>3, <1>4 DEF SoftInv

LEMMA AdaptKeepsSoft ==
  ASSUME SoftInv, NEW t \in Threads, Adapt(t)
  PROVE  SoftInv'
  <1>1. width' \in 1..Total
    BY IncreasedType, DecreasedType, TotalIsMaxInflight DEF SoftInv, GovTyped, Adapt
  <1>2. QED
    BY <1>1 DEF SoftInv, GovTyped, ProbeFailureReopens, RetryInv, Adapt, Goto, Steps

LEMMA RecordKeepsSoft ==
  ASSUME SoftInv, NEW t \in Threads, RecordSuccess(t) \/ RecordFailure(t)
  PROVE  SoftInv'
  <1>1. attempt' = [attempt EXCEPT ![t] = 0] /\ result' = [result EXCEPT ![t] = "none"]
        /\ pc' = [pc EXCEPT ![t] = "drop"]
        /\ UNCHANGED <<spent, width, seen>>
    BY DEF RecordSuccess, RecordFailure, Forget, Goto
  <1>2. /\ failures' \in 0..FailureMax
        /\ breaker' \in {"Closed", "Open", "HalfOpen"}
        /\ timedOut' \in BOOLEAN
        /\ ProbeFailureReopens'
    <2>1. CASE RecordSuccess(t)
      <3>1. failures' = 0 /\ breaker' = "Closed" /\ timedOut' = FALSE
        BY <2>1 DEF RecordSuccess
      <3>2. 0 \in 0..FailureMax
        BY BreakerAssumption
      <3>3. QED
        BY <3>1, <3>2 DEF ProbeFailureReopens
    \* The count never goes down here, so a breaker left as it was stays above
    \* the threshold, and one that opens has just reached it.
    <2>2. CASE RecordFailure(t)
      <3>1. failures' = Capped(failures + 1, FailureMax)
        BY <2>2 DEF RecordFailure
      <3>2. failures' \in 0..FailureMax /\ failures' >= failures
        BY <3>1, BreakerAssumption DEF SoftInv, GovTyped, Capped
      <3>3. CASE failures' >= FailureThreshold /\ breaker' = "Open" /\ timedOut' = FALSE
        BY <3>2, <3>3 DEF ProbeFailureReopens
      <3>4. CASE failures' < FailureThreshold /\ UNCHANGED <<breaker, timedOut>>
        <4>1. ~(failures >= FailureThreshold)
          BY <3>2, <3>4, BreakerAssumption DEF SoftInv, GovTyped
        <4>2. breaker = "Closed"
          BY <4>1 DEF SoftInv, ProbeFailureReopens
        <4>3. QED
          BY <3>2, <3>4, <4>2 DEF SoftInv, GovTyped, ProbeFailureReopens
      <3>5. QED
        BY <2>2, <3>1, <3>3, <3>4 DEF RecordFailure
    <2>3. QED
      BY <2>1, <2>2
  <1>3. GovTyped'
    BY <1>1, <1>2, AttemptsType DEF SoftInv, GovTyped, Steps, Results, U8Max
  <1>4. RetryInv'
    BY <1>1 DEF SoftInv, GovTyped, RetryInv
  <1>5. QED
    BY <1>2, <1>3, <1>4 DEF SoftInv

LEMMA DropKeepsSoft ==
  ASSUME SoftInv, NEW t \in Threads, DropPermit(t)
  PROVE  SoftInv'
  BY DEF SoftInv, GovTyped, ProbeFailureReopens, RetryInv, DropPermit, Goto, Steps

LEMMA TimeoutKeepsSoft ==
  ASSUME SoftInv, TimeoutElapses
  PROVE  SoftInv'
  BY DEF SoftInv, GovTyped, ProbeFailureReopens, RetryInv, TimeoutElapses

----------------------------------------------------------------------------
(* Composition: a step of the governor is a step of the semaphore or none *)

LEMMA GovernorStepsSemaphore == Next => [SemNext]_semVars
  <1> SUFFICES ASSUME Next PROVE SemNext \/ UNCHANGED semVars
    OBVIOUS
  <1>1. CASE TimeoutElapses
    BY <1>1 DEF TimeoutElapses
  <1>2. ASSUME NEW t \in Threads, Call(t) PROVE UNCHANGED semVars
    BY <1>2 DEF Call, Charge
  <1>3. ASSUME NEW t \in Threads, Proceed(t) PROVE SemNext \/ UNCHANGED semVars
    <2>1. CASE TakePermit(t) \/ AwaitPermit(t) \/ GetPermit(t) \/ DropPermit(t) \/ SignalWaiter(t)
      BY <2>1 DEF TakePermit, AwaitPermit, GetPermit, DropPermit, SignalWaiter, SemNext
    <2>2. CASE \/ \E congested \in BOOLEAN : Throttle(t, congested)
               \/ CheckClosed(t) \/ CheckProbe(t) \/ CheckDenied(t)
               \/ ReadInFlight(t) \/ SoftCapPassed(t) \/ SoftCapDenied(t)
               \/ OpSucceeds(t) \/ OpRefused(t) \/ OpTransient(t) \/ Adapt(t)
               \/ RecordSuccess(t) \/ RecordFailure(t)
      BY <2>2 DEF Throttle, CheckClosed, CheckProbe, CheckDenied, ReadInFlight,
                  SoftCapPassed, SoftCapDenied, OpSucceeds, OpRefused, OpTransient,
                  Adapt, RecordSuccess, RecordFailure
    <2>3. QED
      BY <1>3, <2>1, <2>2 DEF Proceed
  <1>4. QED
    BY <1>1, <1>2, <1>3 DEF Next

\* govern composes the semaphore without touching its state on the side.
THEOREM GovernorUsesSemaphore == Spec => SemSpec
  <1>1. Init => SemInit
    BY DEF Init
  <1>2. [Next]_vars => [SemNext]_semVars
    BY GovernorStepsSemaphore DEF vars
  <1>3. QED
    BY <1>1, <1>2, PTL DEF Spec, SemSpec

\* Under the whole governor, too, at most MaxInflight operations run at once.
THEOREM GovernorMaxInflight == Spec => []MaxInflightRespected
  BY GovernorUsesSemaphore, MaxInflightTheorem, PTL

----------------------------------------------------------------------------
(* The inductive invariant *)

LEMMA InitGovInv == Init => GovInv
  <1> SUFFICES ASSUME Init PROVE GovInv
    OBVIOUS
  <1>1. SemInv
    BY InitSemInv DEF Init
  <1>2. SoftInv
    <2>1. GovTyped
      <3>1. /\ 0 \in 0..BudgetLimit /\ 0 \in 0..FailureMax /\ 0 \in 0..Total
            /\ 0 \in 0..Attempts /\ Total \in 1..Total
        BY AttemptsType, TotalIsMaxInflight, BudgetAssumption, BreakerAssumption DEF U8Max
      <3>2. QED
        BY <3>1 DEF Init, GovTyped, Steps, Results
    <2>2. ProbeFailureReopens /\ RetryInv
      BY DEF Init, ProbeFailureReopens, RetryInv
    <2>3. QED
      BY <2>1, <2>2 DEF SoftInv
  <1>3. PermitScope
    BY DEF Init, SemInit, PermitScope
  <1>4. QED
    BY <1>1, <1>2, <1>3 DEF GovInv

LEMMA NextKeepsSoft == GovInv /\ Next => SoftInv'
  <1> SUFFICES ASSUME SemInv, SoftInv, Next PROVE SoftInv'
    BY DEF GovInv
  <1>1. ASSUME NEW t \in Threads, Call(t) PROVE SoftInv'
    BY <1>1, ChargeKeepsSoft DEF Call
  <1>2. ASSUME NEW t \in Threads, Proceed(t) PROVE SoftInv'
    BY <1>2, ThrottleKeepsSoft, CheckKeepsSoft, SoftCapKeepsSoft, PermitKeepsSoft,
       OpKeepsSoft, AdaptKeepsSoft, RecordKeepsSoft, DropKeepsSoft DEF Proceed
  <1>3. CASE TimeoutElapses
    BY <1>3, TimeoutKeepsSoft
  <1>4. QED
    BY <1>1, <1>2, <1>3 DEF Next

LEMMA NextKeepsPermit == GovInv /\ Next => PermitScope'
  <1> SUFFICES ASSUME SemInv, SoftInv, PermitScope, Next
               PROVE  PermitScope'
    BY DEF GovInv
  <1> USE DEF PermitScope, SemInv, Typed, SoftInv, GovTyped, semVars, Goto
  <1>1. CASE TimeoutElapses
    BY <1>1 DEF TimeoutElapses
  <1>2. ASSUME NEW t \in Threads, Call(t) PROVE PermitScope'
    BY <1>2 DEF Call, Charge
  <1>3. ASSUME NEW t \in Threads, Proceed(t) PROVE PermitScope'
    <2>1. CASE \/ \E congested \in BOOLEAN : Throttle(t, congested)
               \/ CheckClosed(t) \/ CheckProbe(t) \/ CheckDenied(t)
      BY <2>1 DEF Throttle, CheckClosed, CheckProbe, CheckDenied
    <2>2. CASE ReadInFlight(t) \/ SoftCapPassed(t) \/ SoftCapDenied(t)
      BY <2>2 DEF ReadInFlight, SoftCapPassed, SoftCapDenied
    <2>3. CASE TakePermit(t) \/ GetPermit(t)
      BY <2>3 DEF TakePermit, GetPermit, AcquireFast, Wake, StartRun
    <2>4. CASE AwaitPermit(t) \/ SignalWaiter(t)
      BY <2>4 DEF AwaitPermit, SignalWaiter, Enqueue, Signal, govVars
    <2>5. CASE OpSucceeds(t) \/ OpRefused(t) \/ OpTransient(t) \/ Adapt(t)
      BY <2>5 DEF OpSucceeds, OpRefused, OpTransient, Adapt, Returned
    <2>6. CASE RecordSuccess(t) \/ RecordFailure(t)
      BY <2>6 DEF RecordSuccess, RecordFailure
    <2>7. CASE DropPermit(t)
      BY <2>7 DEF DropPermit, Release, ReleaseFree, ReleaseHandOff
    <2>8. QED
      BY <1>3, <2>1, <2>2, <2>3, <2>4, <2>5, <2>6, <2>7 DEF Proceed
  <1>4. QED
    BY <1>1, <1>2, <1>3 DEF Next

LEMMA NextKeepsGovInv == GovInv /\ [Next]_vars => GovInv'
  <1>1. CASE Next
    BY <1>1, NextKeepsSoft, NextKeepsPermit, GovernorStepsSemaphore, NextKeepsInv DEF GovInv
  <1>2. CASE UNCHANGED vars
    <2>1. SemInv => SemInv'
      BY <1>2, StutterKeepsInv DEF vars
    <2>2. SoftInv /\ PermitScope => SoftInv' /\ PermitScope'
      BY <1>2 DEF vars, semVars, govVars, SoftInv, GovTyped, ProbeFailureReopens, RetryInv,
                  PermitScope
    <2>3. QED
      BY <2>1, <2>2 DEF GovInv
  <1>3. QED
    BY <1>1, <1>2

----------------------------------------------------------------------------
(* The theorems *)

THEOREM GovInvariant == Spec => []GovInv
  BY InitGovInv, NextKeepsGovInv, PTL DEF Spec

\* Types and bounds of the composed governor: the effective width stays in
\* [1, MaxInflight], and no agent is ever charged past its limit.
THEOREM GovernorTypeCorrect == Spec => []TypeOK
  <1>1. SemInv => SemTypeOK
    BY TotalIsMaxInflight DEF SemInv, Typed, QueueInv, PermitsConserved, SemTypeOK
  <1>2. GovInv => TypeOK
    BY <1>1 DEF GovInv, SoftInv, GovTyped, TypeOK
  <1>3. QED
    BY <1>2, GovInvariant, PTL

\* A breaker that is not closed has its failure count at the threshold: the
\* probe's failure re-opens it in every configuration.
THEOREM ProbeFailureTheorem == Spec => []ProbeFailureReopens
  <1>1. GovInv => ProbeFailureReopens
    BY DEF GovInv, SoftInv
  <1>2. QED
    BY <1>1, GovInvariant, PTL

\* The calls past acquire are exactly the holders of a permit, so the hard cap
\* bounds them, whatever the soft cap let through: for every number of threads
\* and every MaxInflight.
THEOREM AdmissionsTheorem == Spec => []AdmissionsBounded
  <1>1. GovInv /\ MaxInflightRespected => AdmissionsBounded
    <2> SUFFICES ASSUME GovInv, MaxInflightRespected PROVE AdmissionsBounded
      OBVIOUS
    <2>1. {t \in Threads : pc[t] \in {"run", "adapt", "settle", "drop"}} = Holding
      BY DEF GovInv, PermitScope, Holding
    <2>2. QED
      BY <2>1 DEF MaxInflightRespected, AdmissionsBounded
  <1>2. QED
    BY <1>1, GovInvariant, GovernorMaxInflight, PTL

\* A transient failure surfaces only after every retry was made, for each
\* MaxRetries below the u8 limit.  At 255 the saturated attempt count drops
\* the last retry, which is why the theorem excludes it.
THEOREM RetryTheorem == ASSUME MaxRetries < U8Max PROVE Spec => []RetriesExhausted
  <1>1. GovInv => RetriesExhausted
    BY RetryAssumption DEF GovInv, SoftInv, RetryInv, RetriesExhausted, Attempts, Capped, U8Max
  <1>2. QED
    BY <1>1, GovInvariant, PTL
============================================================================
