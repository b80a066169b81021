------------------------ MODULE FairSemaphoreProofs ------------------------
(***************************************************************************)
(* The fair semaphore for every set of threads and every capacity: its     *)
(* inductive invariant, the bound on in-flight admissions, the FIFO order  *)
(* and the refinement of FifoPermits.                                      *)
(***************************************************************************)
EXTENDS FairSemaphore, FiniteSetTheorems, TLAPS

\* Each waiter is queued once, is blocked, and its flag is still unset.
QueueInv ==
  /\ \A i, j \in DOMAIN waiters : waiters[i] = waiters[j] => i = j
  /\ \A t \in Queued : at[t] = "waiting" /\ t \notin ready

\* A releasing thread that still has to signal owes it to one popped waiter,
\* whose flag is unset and whom nobody else will signal.
SignalInv ==
  \A s \in Threads : at[s] = "signalling" =>
    /\ granted[s] \in InTransit \ ready
    /\ \A u \in Threads : (at[u] = "signalling" /\ granted[u] = granted[s]) => u = s

Typed ==
  /\ available \in Nat
  /\ inFlight \in Nat
  /\ waiters \in Seq(Threads)
  /\ ready \in SUBSET Threads
  /\ at \in [Threads -> Where]
  /\ granted \in [Threads -> Threads]

\* The inductive invariant.  PermitsConserved alone is not inductive: a wake-up
\* keeps it only because a thread with its flag set is no longer queued.
SemInv ==
  /\ Typed
  /\ QueueInv
  /\ SignalInv
  /\ PermitsConserved
  /\ NoIdlePermit
  /\ NoLostWakeup

----------------------------------------------------------------------------
(* Queues as sets *)

LEMMA QueuedAppend ==
  ASSUME NEW S, NEW q \in Seq(S), NEW t \in S
  PROVE  /\ Append(q, t) \in Seq(S)
         /\ DOMAIN Append(q, t) = (DOMAIN q) \cup {Len(q) + 1}
         /\ Len(q) + 1 \notin DOMAIN q
         /\ \A i \in DOMAIN q : Append(q, t)[i] = q[i]
         /\ Append(q, t)[Len(q) + 1] = t
  OBVIOUS

LEMMA QueuedTail ==
  ASSUME NEW S, NEW q \in Seq(S), q # <<>>
  PROVE  /\ Tail(q) \in Seq(S)
         /\ Head(q) \in S
         /\ Head(q) = q[1]
         /\ 1 \in DOMAIN q
         /\ \A i \in DOMAIN Tail(q) : i + 1 \in DOMAIN q /\ Tail(q)[i] = q[i + 1]
         /\ \A i \in DOMAIN q : i # 1 => i - 1 \in DOMAIN Tail(q) /\ Tail(q)[i - 1] = q[i]
         /\ DOMAIN q \subseteq Nat \ {0}
         /\ DOMAIN Tail(q) \subseteq Nat \ {0}
  OBVIOUS

\* Joining the queue keeps it free of duplicates.
LEMMA JoinQueue ==
  ASSUME SemInv, NEW t \in Threads, Enqueue(t)
  PROVE  /\ Queued' = Queued \cup {t}
         /\ t \notin Queued
         /\ \A i, j \in DOMAIN waiters' : waiters'[i] = waiters'[j] => i = j
         /\ waiters' \in Seq(Threads)
  <1>1. t \notin Queued
    BY DEF SemInv, QueueInv, Enqueue
  <1>2. waiters' = Append(waiters, t) /\ waiters \in Seq(Threads)
    BY DEF SemInv, Typed, Enqueue
  <1>3. Queued' = Queued \cup {t}
    BY <1>2, QueuedAppend DEF Queued
  <1>4. \A i, j \in DOMAIN waiters' : waiters'[i] = waiters'[j] => i = j
    <2> SUFFICES ASSUME NEW i \in DOMAIN waiters', NEW j \in DOMAIN waiters',
                        waiters'[i] = waiters'[j]
                 PROVE  i = j
      OBVIOUS
    <2>1. \A k \in DOMAIN waiters : waiters[k] # t
      BY <1>1 DEF Queued
    <2>2. QED
      BY <2>1, <1>2, QueuedAppend DEF SemInv, QueueInv
  <1>5. QED
    BY <1>1, <1>2, <1>3, <1>4, QueuedAppend

\* Popping the head removes exactly that thread from the queue.
LEMMA PopQueue ==
  ASSUME SemInv, NEW t \in Threads, ReleaseHandOff(t)
  PROVE  /\ Queued' = Queued \ {Head(waiters)}
         /\ Head(waiters) \in Queued
         /\ \A i, j \in DOMAIN waiters' : waiters'[i] = waiters'[j] => i = j
         /\ waiters' \in Seq(Threads)
  <1>1. waiters' = Tail(waiters) /\ waiters \in Seq(Threads) /\ waiters # <<>>
    BY DEF SemInv, Typed, ReleaseHandOff
  <1>2. \A i, j \in DOMAIN waiters : waiters[i] = waiters[j] => i = j
    BY DEF SemInv, QueueInv
  <1>3. Head(waiters) \in Queued
    BY <1>1, QueuedTail DEF Queued
  <1>4. Queued' = Queued \ {Head(waiters)}
    <2>1. ASSUME NEW x \in Queued' PROVE x \in Queued \ {Head(waiters)}
      <3>1. PICK i \in DOMAIN Tail(waiters) : x = Tail(waiters)[i]
        BY <2>1, <1>1 DEF Queued
      <3>2. i \in Nat \ {0} /\ i + 1 \in DOMAIN waiters /\ x = waiters[i + 1]
        BY <3>1, <1>1, QueuedTail
      <3>3. x # waiters[1]
        BY <3>2, <1>1, <1>2, QueuedTail
      <3>4. QED
        BY <3>2, <3>3, <1>1, QueuedTail DEF Queued
    <2>2. ASSUME NEW x \in Queued \ {Head(waiters)} PROVE x \in Queued'
      <3>1. PICK i \in DOMAIN waiters : x = waiters[i]
        BY <2>2 DEF Queued
      <3>2. i # 1
        BY <3>1, <2>2, <1>1, QueuedTail
      <3>3. i - 1 \in DOMAIN Tail(waiters) /\ Tail(waiters)[i - 1] = x
        BY <3>1, <3>2, <1>1, QueuedTail
      <3>4. QED
        BY <3>3, <1>1 DEF Queued
    <2>3. QED
      BY <2>1, <2>2
  <1>5. \A i, j \in DOMAIN waiters' : waiters'[i] = waiters'[j] => i = j
    <2> SUFFICES ASSUME NEW i \in DOMAIN Tail(waiters), NEW j \in DOMAIN Tail(waiters),
                        Tail(waiters)[i] = Tail(waiters)[j]
                 PROVE  i = j
      BY <1>1
    <2>1. i \in Nat /\ j \in Nat /\ i + 1 \in DOMAIN waiters /\ j + 1 \in DOMAIN waiters
      BY <1>1, QueuedTail
    <2>2. waiters[i + 1] = waiters[j + 1]
      BY <1>1, QueuedTail
    <2>3. i + 1 = j + 1
      BY <2>1, <2>2, <1>2
    <2>4. QED
      BY <2>1, <2>3
  <1>6. QED
    BY <1>1, <1>3, <1>4, <1>5, QueuedTail

----------------------------------------------------------------------------
(* What each action does to the set of assigned permits *)

LEMMA AssignedFast ==
  ASSUME SemInv, NEW t \in Threads, AcquireFast(t)
  PROVE  t \notin Assigned /\ Assigned' = Assigned \cup {t}
  BY DEF SemInv, Typed, Where, AcquireFast, Assigned, Holding, InTransit, Queued

LEMMA AssignedEnqueue ==
  ASSUME SemInv, NEW t \in Threads, Enqueue(t)
  PROVE  Assigned' = Assigned /\ InTransit' = InTransit
  BY JoinQueue DEF SemInv, Typed, Where, Enqueue, Assigned, Holding, InTransit

LEMMA AssignedWake ==
  ASSUME SemInv, NEW t \in Threads, Wake(t)
  PROVE  /\ t \notin Queued
         /\ Assigned' = Assigned
         /\ InTransit' = InTransit \ {t}
         /\ Queued' = Queued
  BY DEF SemInv, Typed, QueueInv, Where, Wake, Assigned, Holding, InTransit, Queued

LEMMA AssignedFree ==
  ASSUME SemInv, NEW t \in Threads, ReleaseFree(t)
  PROVE  t \in Assigned /\ Assigned' = Assigned \ {t} /\ InTransit' = InTransit
  BY DEF SemInv, Typed, Where, ReleaseFree, Assigned, Holding, InTransit, Queued

LEMMA AssignedHandOff ==
  ASSUME SemInv, NEW t \in Threads, ReleaseHandOff(t)
  PROVE  /\ t \in Assigned
         /\ Head(waiters) \in Threads
         /\ Head(waiters) \notin Assigned
         /\ at[Head(waiters)] = "waiting"
         /\ Assigned' = (Assigned \ {t}) \cup {Head(waiters)}
         /\ InTransit' = InTransit \cup {Head(waiters)}
  <1>1. /\ Head(waiters) \in Threads
        /\ at[Head(waiters)] = "waiting"
    BY PopQueue, QueuedTail DEF SemInv, Typed, QueueInv, ReleaseHandOff
  <1>2. Head(waiters) \notin Assigned
    BY <1>1, PopQueue DEF Assigned, Holding, InTransit
  <1>3. InTransit' = InTransit \cup {Head(waiters)}
    BY ZenonT(40), <1>1, PopQueue DEF SemInv, Typed, ReleaseHandOff, InTransit, Where
  <1>4. Holding' = Holding \ {t} /\ t \in Holding /\ t \notin InTransit
    BY DEF SemInv, Typed, ReleaseHandOff, Holding, InTransit, Where
  <1>5. QED
    BY <1>1, <1>2, <1>3, <1>4 DEF Assigned

LEMMA AssignedSignal ==
  ASSUME SemInv, NEW t \in Threads, Signal(t)
  PROVE  Assigned' = Assigned /\ InTransit' = InTransit /\ Queued' = Queued
  BY DEF SemInv, Typed, Where, Signal, Assigned, Holding, InTransit, Queued

LEMMA AssignedFinite ==
  Assigned \subseteq Threads /\ IsFiniteSet(Assigned) /\ Cardinality(Assigned) \in Nat
  BY ThreadsFinite, FS_Subset, FS_CardinalityType DEF Assigned, Holding, InTransit

----------------------------------------------------------------------------
(* The inductive invariant, one lemma per action *)

LEMMA InitSemInv == SemInit => SemInv
  <1> SUFFICES ASSUME SemInit PROVE SemInv
    OBVIOUS
  <1>1. Assigned = {} /\ Queued = {} /\ InTransit = {}
    BY DEF SemInit, Assigned, Holding, InTransit, Queued
  <1>2. Cardinality({}) = 0
    BY FS_EmptySet
  <1>3. QED
    BY <1>1, <1>2, TotalIsMaxInflight
       DEF SemInit, SemInv, Typed, Where, QueueInv, SignalInv, PermitsConserved,
           NoIdlePermit, NoLostWakeup

LEMMA FastKeepsInv ==
  ASSUME SemInv, NEW t \in Threads, AcquireFast(t)
  PROVE  SemInv'
  <1>1. /\ t \notin Assigned
        /\ Assigned' = Assigned \cup {t}
        /\ InTransit' = InTransit
        /\ Queued' = Queued
    BY AssignedFast
       DEF SemInv, Typed, Where, AcquireFast, InTransit, Queued
  <1>2. Cardinality(Assigned') = Cardinality(Assigned) + 1
    BY <1>1, AssignedFinite, FS_AddElement
  <1>3. Typed'
    BY DEF SemInv, Typed, Where, AcquireFast, FastPath
  <1>4. QueueInv'
    BY <1>1 DEF SemInv, Typed, QueueInv, AcquireFast, Where
  <1>5. SignalInv'
    BY <1>1 DEF SemInv, Typed, SignalInv, AcquireFast, Where
  <1>6. PermitsConserved'
    BY <1>2 DEF SemInv, Typed, PermitsConserved, AcquireFast, FastPath
  <1>7. NoIdlePermit'
    BY DEF AcquireFast, FastPath, NoIdlePermit
  <1>8. NoLostWakeup'
    BY <1>1 DEF SemInv, Typed, NoLostWakeup, AcquireFast, Where
  <1>9. QED
    BY <1>3, <1>4, <1>5, <1>6, <1>7, <1>8 DEF SemInv

LEMMA EnqueueKeepsInv ==
  ASSUME SemInv, NEW t \in Threads, Enqueue(t)
  PROVE  SemInv'
  <1>1. Assigned' = Assigned /\ InTransit' = InTransit /\ t \notin InTransit
    BY AssignedEnqueue DEF Enqueue, InTransit
  <1>2. Queued' = Queued \cup {t}
    BY JoinQueue
  <1>3. Typed'
    BY JoinQueue DEF SemInv, Typed, Where, Enqueue
  <1>4. QueueInv'
    <2>1. \A i, j \in DOMAIN waiters' : waiters'[i] = waiters'[j] => i = j
      BY JoinQueue
    <2>2. \A u \in Queued' : at'[u] = "waiting" /\ u \notin ready'
      BY <1>2 DEF SemInv, Typed, QueueInv, Enqueue
    <2>3. QED
      BY <2>1, <2>2 DEF QueueInv
  <1>5. SignalInv'
    BY <1>1 DEF SemInv, Typed, SignalInv, Enqueue, Where
  <1>6. PermitsConserved'
    BY <1>1 DEF SemInv, PermitsConserved, Enqueue
  <1>7. NoIdlePermit'
    BY DEF SemInv, Typed, Enqueue, FastPath, NoIdlePermit
  <1>8. NoLostWakeup'
    BY <1>1 DEF SemInv, Typed, NoLostWakeup, Enqueue, Where
  <1>9. QED
    BY <1>3, <1>4, <1>5, <1>6, <1>7, <1>8 DEF SemInv

LEMMA WakeKeepsInv ==
  ASSUME SemInv, NEW t \in Threads, Wake(t)
  PROVE  SemInv'
  <1>1. /\ Assigned' = Assigned
        /\ InTransit' = InTransit \ {t}
        /\ Queued' = Queued
        /\ t \notin Queued
    BY AssignedWake
  <1>2. Typed'
    BY DEF SemInv, Typed, Where, Wake
  <1>3. QueueInv'
    BY <1>1 DEF SemInv, Typed, QueueInv, Wake, Where
  <1>4. SignalInv'
    BY <1>1 DEF SemInv, Typed, SignalInv, Wake, Where
  <1>5. PermitsConserved'
    BY <1>1 DEF SemInv, PermitsConserved, Wake
  <1>6. NoIdlePermit'
    BY DEF SemInv, Wake, NoIdlePermit
  <1>7. NoLostWakeup'
    BY <1>1 DEF SemInv, Typed, NoLostWakeup, Wake, Where
  <1>8. QED
    BY <1>2, <1>3, <1>4, <1>5, <1>6, <1>7 DEF SemInv

LEMMA FreeKeepsInv ==
  ASSUME SemInv, NEW t \in Threads, ReleaseFree(t)
  PROVE  SemInv'
  <1>1. t \in Assigned /\ Assigned' = Assigned \ {t} /\ InTransit' = InTransit
    BY AssignedFree
  <1>2. Queued' = Queued
    BY DEF ReleaseFree, Queued
  <1>3. Cardinality(Assigned') = Cardinality(Assigned) - 1
    BY <1>1, AssignedFinite, FS_RemoveElement
  \* Neither saturating operation saturates here.
  <1>4. inFlight' = inFlight - 1 /\ inFlight > 0 /\ available' = available + 1
    <2>1. Cardinality(Assigned) > 0
      BY <1>1, AssignedFinite, FS_EmptySet
    <2>2. inFlight > 0 /\ available < 255 /\ available \in Nat /\ inFlight \in Nat
      BY <2>1, AssignedFinite, TotalIsMaxInflight DEF SemInv, Typed, PermitsConserved
    <2>3. QED
      BY <2>2 DEF ReleaseFree, SatDec, SatInc, U8Max
  <1>5. Typed'
    BY <1>4 DEF SemInv, Typed, Where, ReleaseFree
  <1>6. QueueInv'
    BY <1>2 DEF SemInv, Typed, QueueInv, ReleaseFree, Where
  <1>7. SignalInv'
    BY <1>1 DEF SemInv, Typed, SignalInv, ReleaseFree, Where
  <1>8. PermitsConserved'
    BY <1>3, <1>4 DEF SemInv, Typed, PermitsConserved
  <1>9. NoIdlePermit'
    BY DEF ReleaseFree, NoIdlePermit
  <1>10. NoLostWakeup'
    BY <1>1 DEF SemInv, Typed, NoLostWakeup, ReleaseFree, Where
  <1>11. QED
    BY <1>5, <1>6, <1>7, <1>8, <1>9, <1>10 DEF SemInv

LEMMA HandOffKeepsInv ==
  ASSUME SemInv, NEW t \in Threads, ReleaseHandOff(t)
  PROVE  SemInv'
  <1> DEFINE w == Head(waiters)
  <1>1. /\ t \in Assigned
        /\ w \in Threads
        /\ w \notin Assigned
        /\ at[w] = "waiting"
        /\ Assigned' = (Assigned \ {t}) \cup {w}
        /\ InTransit' = InTransit \cup {w}
    BY AssignedHandOff
  <1>2. Queued' = Queued \ {w} /\ w \in Queued /\ w \notin InTransit
    BY PopQueue DEF InTransit
  <1>3. Cardinality(Assigned') = Cardinality(Assigned)
    <2>1. Cardinality(Assigned \ {t}) = Cardinality(Assigned) - 1 /\ IsFiniteSet(Assigned \ {t})
      BY <1>1, AssignedFinite, FS_RemoveElement
    <2>2. Cardinality((Assigned \ {t}) \cup {w}) = Cardinality(Assigned \ {t}) + 1
      BY <1>1, <2>1, FS_AddElement
    <2>3. QED
      BY <1>1, <2>1, <2>2, AssignedFinite
  <1>4. inFlight' = inFlight
    <2>1. Cardinality(Assigned) > 0
      BY <1>1, AssignedFinite, FS_EmptySet
    <2>2. inFlight > 0 /\ inFlight \in Nat
      BY <2>1, AssignedFinite DEF SemInv, Typed, PermitsConserved
    <2>3. QED
      BY <2>2 DEF ReleaseHandOff, SatDec
  <1>5. Typed'
    BY <1>1, <1>4, PopQueue DEF SemInv, Typed, Where, ReleaseHandOff
  <1>6. QueueInv'
    BY <1>1, <1>2, PopQueue DEF SemInv, Typed, QueueInv, ReleaseHandOff, Where
  <1>7. SignalInv'
    <2> SUFFICES ASSUME NEW s \in Threads, at'[s] = "signalling"
                 PROVE  /\ granted'[s] \in InTransit' \ ready'
                        /\ \A u \in Threads :
                             (at'[u] = "signalling" /\ granted'[u] = granted'[s]) => u = s
      BY DEF SignalInv
    <2>1. /\ at' = [at EXCEPT ![t] = "signalling"]
          /\ granted' = [granted EXCEPT ![t] = w]
          /\ ready' = ready
          /\ at \in [Threads -> Where]
          /\ granted \in [Threads -> Threads]
      BY DEF ReleaseHandOff, SemInv, Typed
    <2>2. w \notin ready
      BY <1>2 DEF SemInv, QueueInv
    <2>3. \A u \in Threads : at[u] = "signalling" =>
             granted[u] \in InTransit \ ready /\ granted[u] # w
      BY <1>2 DEF SemInv, SignalInv
    <2>4. CASE s = t
      BY <2>1, <2>2, <2>3, <2>4, <1>1
    <2>5. CASE s # t
      BY <2>1, <2>3, <2>5, <1>1 DEF SemInv, SignalInv
    <2>6. QED
      BY <2>4, <2>5
  <1>8. PermitsConserved'
    BY <1>3, <1>4 DEF SemInv, PermitsConserved, ReleaseHandOff
  <1>9. NoIdlePermit'
    BY DEF SemInv, ReleaseHandOff, NoIdlePermit
  <1>10. NoLostWakeup'
    <2> SUFFICES ASSUME NEW x \in InTransit', x \notin ready'
                 PROVE  \E s \in Threads :
                          /\ at'[s] = "signalling"
                          /\ granted'[s] = x
                          /\ \A u \in Threads : (at'[u] = "signalling" /\ granted'[u] = x) => u = s
      BY DEF NoLostWakeup
    <2>1. /\ at' = [at EXCEPT ![t] = "signalling"]
          /\ granted' = [granted EXCEPT ![t] = w]
          /\ ready' = ready
          /\ at[t] = "holding"
          /\ at \in [Threads -> Where]
          /\ granted \in [Threads -> Threads]
      BY DEF ReleaseHandOff, SemInv, Typed
    <2>2. CASE x = w
      <3>1. \A u \in Threads : at[u] = "signalling" => granted[u] # w
        BY <1>2 DEF SemInv, SignalInv
      <3>2. QED
        BY <2>1, <2>2, <3>1
    <2>3. CASE x # w
      <3>1. x \in InTransit /\ x \notin ready
        BY <1>1, <2>1, <2>3
      <3>2. PICK s \in Threads :
               /\ at[s] = "signalling"
               /\ granted[s] = x
               /\ \A u \in Threads : (at[u] = "signalling" /\ granted[u] = x) => u = s
        BY <3>1 DEF SemInv, NoLostWakeup
      <3>3. s # t
        BY <2>1, <3>2
      <3>4. QED
        BY <2>1, <2>3, <3>2, <3>3
    <2>4. QED
      BY <2>2, <2>3
  <1>11. QED
    BY <1>5, <1>6, <1>7, <1>8, <1>9, <1>10 DEF SemInv

LEMMA SignalKeepsInv ==
  ASSUME SemInv, NEW t \in Threads, Signal(t)
  PROVE  SemInv'
  <1>1. Assigned' = Assigned /\ InTransit' = InTransit /\ Queued' = Queued
    BY AssignedSignal
  <1>2. granted[t] \in InTransit \ ready
    BY DEF SemInv, SignalInv, Signal
  <1>3. \A u \in Threads : (at[u] = "signalling" /\ granted[u] = granted[t]) => u = t
    BY DEF SemInv, SignalInv, Signal
  <1>4. Typed'
    BY DEF SemInv, Typed, Where, Signal
  <1>5. QueueInv'
    BY <1>1, <1>2 DEF SemInv, Typed, QueueInv, Signal, Where, InTransit
  <1>6. SignalInv'
    BY <1>1, <1>3 DEF SemInv, Typed, SignalInv, Signal, Where
  <1>7. PermitsConserved'
    BY <1>1 DEF SemInv, PermitsConserved, Signal
  <1>8. NoIdlePermit'
    BY DEF SemInv, Signal, NoIdlePermit
  <1>9. NoLostWakeup'
    BY <1>1 DEF SemInv, Typed, NoLostWakeup, Signal, Where
  <1>10. QED
    BY <1>4, <1>5, <1>6, <1>7, <1>8, <1>9 DEF SemInv

LEMMA StutterKeepsInv ==
  ASSUME SemInv, UNCHANGED semVars
  PROVE  SemInv'
  BY DEF SemInv, semVars, Typed, QueueInv, SignalInv, PermitsConserved, NoIdlePermit,
         NoLostWakeup, Queued, InTransit, Holding, Assigned

LEMMA NextKeepsInv == SemInv /\ [SemNext]_semVars => SemInv'
  <1> SUFFICES ASSUME SemInv, [SemNext]_semVars PROVE SemInv'
    OBVIOUS
  <1>1. CASE UNCHANGED semVars
    BY <1>1, StutterKeepsInv
  <1>2. ASSUME NEW t \in Threads,
               \/ AcquireFast(t) \/ Enqueue(t) \/ Wake(t) \/ Release(t) \/ Signal(t)
        PROVE  SemInv'
    BY <1>2, FastKeepsInv, EnqueueKeepsInv, WakeKeepsInv, FreeKeepsInv,
       HandOffKeepsInv, SignalKeepsInv DEF Release
  <1>3. QED
    BY <1>1, <1>2 DEF SemNext

----------------------------------------------------------------------------
(* The theorems *)

\* SemInv holds in every reachable state of the semaphore: no permit lost or
\* minted (release_one, acquire_permit), no wake-up lost, no idle permit.
THEOREM SemInvariant == SemSpec => []SemInv
  BY InitSemInv, NextKeepsInv, PTL DEF SemSpec

\* Types, with the counters within the capacity: neither the += 1 of a u8 nor
\* a saturating_add / saturating_sub ever meets its limit.
THEOREM SemTypeCorrect == SemSpec => []SemTypeOK
  <1>1. SemInv => SemTypeOK
    BY TotalIsMaxInflight DEF SemInv, Typed, QueueInv, PermitsConserved, SemTypeOK
  <1>2. QED
    BY <1>1, SemInvariant, PTL

\* governor.rs:7: at most MaxInflight callers run at once, for every capacity
\* and however many threads call.
THEOREM MaxInflightTheorem == SemSpec => []MaxInflightRespected
  <1>1. SemInv => MaxInflightRespected
    <2> SUFFICES ASSUME SemInv PROVE MaxInflightRespected
      OBVIOUS
    <2>1. Holding \subseteq Assigned
      BY DEF Assigned
    <2>2. Cardinality(Holding) <= Cardinality(Assigned) /\ Cardinality(Holding) \in Nat
      BY <2>1, AssignedFinite, FS_Subset, FS_CardinalityType
    <2>3. Cardinality(Assigned) <= Total
      BY AssignedFinite, TotalIsMaxInflight DEF SemInv, Typed, PermitsConserved
    <2>4. QED
      BY <2>2, <2>3, AssignedFinite, TotalIsMaxInflight DEF MaxInflightRespected
  <1>2. QED
    BY <1>1, SemInvariant, PTL

\* The free and the assigned permits always add up to the capacity.
THEOREM PermitTheorem == SemSpec => []PermitsConserved
  <1>1. SemInv => PermitsConserved
    BY DEF SemInv
  <1>2. QED
    BY <1>1, SemInvariant, PTL

\* No caller sleeps while a permit is free: whoever releases one hands it on.
THEOREM IdlePermitTheorem == SemSpec => []NoIdlePermit
  <1>1. SemInv => NoIdlePermit
    BY DEF SemInv
  <1>2. QED
    BY <1>1, SemInvariant, PTL

\* governor.rs: the flag of a popped waiter is set, or exactly one releasing
\* thread is still about to set it.
THEOREM WakeupTheorem == SemSpec => []NoLostWakeup
  <1>1. SemInv => NoLostWakeup
    BY DEF SemInv
  <1>2. QED
    BY <1>1, SemInvariant, PTL

----------------------------------------------------------------------------
(* The semaphore implements FIFO permits *)

LEMMA FreeRoom ==
  ASSUME SemInv
  PROVE  /\ available > 0 <=> Cardinality(Assigned) < Total
         /\ available = 0 <=> Cardinality(Assigned) = Total
  BY AssignedFinite, TotalIsMaxInflight DEF SemInv, Typed, PermitsConserved

LEMMA SameCardinality == \A S : Permits!Cardinality(S) = Cardinality(S)
  BY DEF Permits!Cardinality, Cardinality

LEMMA InitRefines == SemInit => Permits!Init
  BY DEF SemInit, Permits!Init, Assigned, Holding, InTransit

LEMMA StepRefines == SemInv /\ [SemNext]_semVars => [Permits!Next]_(Permits!permitVars)
  <1> SUFFICES ASSUME SemInv, [SemNext]_semVars
               PROVE  Permits!Next \/ UNCHANGED <<waiters, Assigned>>
    BY DEF Permits!permitVars
  <1>1. CASE UNCHANGED semVars
    BY <1>1 DEF semVars, Assigned, Holding, InTransit, Queued
  <1>2. ASSUME NEW t \in Threads, AcquireFast(t) PROVE Permits!Arrive(t)
    <2>1. t \notin Assigned /\ Assigned' = Assigned \cup {t} /\ waiters = <<>>
      BY <1>2, AssignedFast DEF AcquireFast, FastPath
    <2>2. Cardinality(Assigned) < Total
      BY <1>2, FreeRoom DEF AcquireFast, FastPath
    <2>3. UNCHANGED waiters /\ Permits!Waiting = {}
      BY <1>2, <2>1 DEF AcquireFast, Permits!Waiting
    <2>4. QED
      BY <2>1, <2>2, <2>3, SameCardinality DEF Permits!Arrive
  <1>3. ASSUME NEW t \in Threads, Enqueue(t) PROVE Permits!Arrive(t)
    <2>1. t \notin Assigned /\ Assigned' = Assigned /\ t \notin Permits!Waiting
      BY <1>3, AssignedEnqueue, JoinQueue
         DEF Enqueue, Assigned, Holding, InTransit, Permits!Waiting, Queued
    <2>2. Cardinality(Assigned) = Total
      BY <1>3, FreeRoom DEF Enqueue, FastPath, SemInv, NoIdlePermit, Typed
    <2>3. QED
      BY <1>3, <2>1, <2>2, SameCardinality DEF Permits!Arrive, Enqueue
  <1>4. ASSUME NEW t \in Threads, Wake(t) PROVE UNCHANGED <<waiters, Assigned>>
    BY <1>4, AssignedWake DEF Wake
  <1>5. ASSUME NEW t \in Threads, Release(t) PROVE Permits!Leave(t)
    BY <1>5, AssignedFree, AssignedHandOff
       DEF Release, ReleaseFree, ReleaseHandOff, Permits!Leave
  <1>6. ASSUME NEW t \in Threads, Signal(t) PROVE UNCHANGED <<waiters, Assigned>>
    BY <1>6, AssignedSignal DEF Signal
  <1>7. QED
    BY <1>1, <1>2, <1>3, <1>4, <1>5, <1>6 DEF SemNext, Permits!Next

\* Every behaviour of the condvar semaphore is one of the abstract FIFO
\* permits: granting and counting happen in one step, in arrival order, and
\* waking up is invisible.
THEOREM Refinement == SemSpec => RefinesFifoPermits
  BY InitRefines, StepRefines, SemInvariant, PTL DEF SemSpec, Permits!Spec, RefinesFifoPermits

\* No permit is assigned to a thread that is behind, or not in, the queue
\* while an earlier one waits (governor.rs:483).
THEOREM FifoOrder == SemSpec => NoOvertaking
  <1>1. ASSUME SemInv, [SemNext]_semVars, NEW a \in Threads, NEW b \in Threads,
               a \in Queued, a \in Queued', b \notin Assigned, b \in Assigned'
        PROVE  \E i, j \in DOMAIN waiters : i < j /\ waiters[i] = b /\ waiters[j] = a
    <2>1. PICK t \in Threads :
             \/ AcquireFast(t) \/ Enqueue(t) \/ Wake(t) \/ Release(t) \/ Signal(t)
      BY <1>1 DEF SemNext, semVars, Assigned, Holding, InTransit, Queued
    <2>2. ReleaseHandOff(t) /\ b = Head(waiters)
      <3>1. ~AcquireFast(t)
        BY <1>1 DEF AcquireFast, FastPath, Queued
      <3>2. QED
        BY <1>1, <2>1, <3>1, AssignedEnqueue, AssignedWake, AssignedFree,
           AssignedHandOff, AssignedSignal DEF Release
    <2>3. waiters \in Seq(Threads) /\ waiters # <<>>
      BY <1>1, <2>2 DEF SemInv, Typed, ReleaseHandOff
    <2>4. PICK j \in DOMAIN waiters : waiters[j] = a
      BY <1>1 DEF Queued
    <2>5. a # b
      BY <1>1, <2>2, PopQueue
    <2>6. 1 \in DOMAIN waiters /\ waiters[1] = b /\ j # 1 /\ j \in Nat \ {0}
      BY <2>2, <2>3, <2>4, <2>5, QueuedTail
    <2>7. QED
      BY <2>4, <2>6
  <1>2. SemInv /\ [SemNext]_semVars =>
          [\A a, b \in Threads :
             (a \in Queued /\ a \in Queued' /\ b \notin Assigned /\ b \in Assigned')
               => \E i, j \in DOMAIN waiters : i < j /\ waiters[i] = b /\ waiters[j] = a]_semVars
    BY <1>1
  <1>3. QED
    BY <1>2, SemInvariant, PTL DEF SemSpec, NoOvertaking
============================================================================
