-------------------------- MODULE SessionLockProofs --------------------------
(* Proofs that the session lock excludes timely handlers, for any number of *)
(* handlers and cores and any lock_ttl_s, extend_s and retry.               *)
EXTENDS SessionLock, TLAPS

\* A running watchdog belongs to a working handler, and a timely handler's key
\* has at least LockTtl - age ticks to live.
WatchdogWorks == \A h \in Handlers : watchdog[h] = "on" => pc[h] = "working"
TimelyTtl == \A h \in Handlers : Timely(h) => lock = h /\ ttl >= LockTtl - age[h]

IInv == TypeOK /\ WatchdogWorks /\ TimelyTtl

USE HandlersAssumption, CoreOfAssumption, TimingAssumption

LEMMA OlderType == \A n \in 0..AgeCap : Older(n) \in 0..AgeCap
BY DEF Older, AgeCap

LEMMA InitIInv == Init => IInv
BY DEF Init, IInv, TypeOK, WatchdogWorks, TimelyTtl, Timely, Stages, AgeCap

\* One step of the code, whichever it is, keeps every variable in its type.
LEMMA StepTypeOK == TypeOK /\ [Next]_vars => TypeOK'
<1> SUFFICES ASSUME TypeOK, [Next]_vars PROVE TypeOK'
    OBVIOUS
<1> USE DEF TypeOK, Stages
<1>1. ASSUME NEW h \in Handlers, Acquire(h) PROVE TypeOK'
    BY <1>1 DEF Acquire, SetNx, NxAllows, AcquireTtl, AgeCap
<1>2. ASSUME NEW h \in Handlers, AcquireBusy(h) PROVE TypeOK'
    BY <1>2 DEF AcquireBusy
<1>3. ASSUME NEW h \in Handlers, AcquireError(h) PROVE TypeOK'
    BY <1>3 DEF AcquireError, SetNx, NxAllows, AcquireTtl, AgeCap
<1>4. ASSUME NEW h \in Handlers, FinishWork(h) PROVE TypeOK'
    BY <1>4 DEF FinishWork
<1>5. ASSUME NEW h \in Handlers, Release(h) PROVE TypeOK'
    BY <1>5 DEF Release
<1>6. ASSUME NEW h \in Handlers, ReleaseError(h) PROVE TypeOK'
    BY <1>6 DEF ReleaseError
<1>7. ASSUME NEW h \in Handlers, Extend(h) PROVE TypeOK'
    BY <1>7 DEF Extend, AgeCap
<1>8. ASSUME NEW h \in Handlers, ExtendError(h) PROVE TypeOK'
    BY <1>8 DEF ExtendError
<1>9. ASSUME NEW c \in Cores, Crash(c) PROVE TypeOK'
    BY <1>9 DEF Crash
<1>10. ASSUME Tick PROVE TypeOK'
  <2>1. age' \in [Handlers -> 0..AgeCap]
      BY <1>10, OlderType DEF Tick
  <2>2. QED
      BY <1>10, <2>1 DEF Tick
<1>11. CASE UNCHANGED vars
    BY <1>11 DEF vars
<1>12. QED
    BY <1>1, <1>2, <1>3, <1>4, <1>5, <1>6, <1>7, <1>8, <1>9, <1>10, <1>11
    DEF Next, HandlerStep

LEMMA StepIInv == IInv /\ [Next]_vars => IInv'
<1> SUFFICES ASSUME IInv, [Next]_vars PROVE IInv'
    OBVIOUS
<1>0. TypeOK'
    BY StepTypeOK DEF IInv
<1> USE <1>0 DEF IInv, TypeOK, WatchdogWorks, TimelyTtl, Timely
<1>1. ASSUME NEW h \in Handlers, Acquire(h) PROVE IInv'
    BY <1>1 DEF Acquire, SetNx, NxAllows, AcquireTtl
<1>2. ASSUME NEW h \in Handlers, AcquireBusy(h) PROVE IInv'
    BY <1>2 DEF AcquireBusy
<1>3. ASSUME NEW h \in Handlers, AcquireError(h) PROVE IInv'
  <2>1. CASE SetNx(h)
      BY <1>3, <2>1 DEF AcquireError, SetNx, NxAllows, AcquireTtl
  <2>2. CASE UNCHANGED <<lock, ttl, age>>
      BY <1>3, <2>2 DEF AcquireError
  <2>3. QED
      BY <1>3, <2>1, <2>2 DEF AcquireError
<1>4. ASSUME NEW h \in Handlers, FinishWork(h) PROVE IInv'
    BY <1>4 DEF FinishWork
<1>5. ASSUME NEW h \in Handlers, Release(h) PROVE IInv'
    BY <1>5 DEF Release, ReleaseHolds
<1>6. ASSUME NEW h \in Handlers, ReleaseError(h) PROVE IInv'
    BY <1>6 DEF ReleaseError
<1>7. ASSUME NEW h \in Handlers, Extend(h) PROVE IInv'
    BY <1>7 DEF Extend, RenewHolds
<1>8. ASSUME NEW h \in Handlers, ExtendError(h) PROVE IInv'
    BY <1>8 DEF ExtendError, RenewHolds
<1>9. ASSUME NEW c \in Cores, Crash(c) PROVE IInv'
    BY <1>9 DEF Crash
<1>10. ASSUME Tick PROVE IInv'
  <2>1. ASSUME NEW h \in Handlers, Timely(h)' PROVE lock' = h /\ ttl' >= LockTtl - age'[h]
    <3>1. Timely(h) /\ age'[h] = age[h] + 1
        BY <1>10, <2>1 DEF Tick, Older, AgeCap
    <3>2. lock = h /\ ttl >= LockTtl - age[h] /\ age[h] + 1 <= ExtendS + MaxLate
        BY <3>1, <2>1
    <3>3. ttl > 1
        BY <3>2
    <3>4. QED
        BY <1>10, <3>1, <3>2, <3>3 DEF Tick
  <2>2. WatchdogWorks'
      BY <1>10 DEF Tick
  <2>3. QED
      BY <2>1, <2>2
<1>11. CASE UNCHANGED vars
    BY <1>11 DEF vars
<1>12. QED
    BY <1>1, <1>2, <1>3, <1>4, <1>5, <1>6, <1>7, <1>8, <1>9, <1>10, <1>11
    DEF Next, HandlerStep

\* Every variable keeps its type in every behaviour.
THEOREM TypeCorrect == Spec => []TypeOK
<1>1. Init => TypeOK
    BY InitIInv DEF IInv
<1>2. QED
    BY <1>1, StepTypeOK, PTL DEF Spec

LEMMA IInvAlways == Spec => []IInv
BY InitIInv, StepIInv, PTL DEF Spec

\* Mutual exclusion of timely handlers (the NX of acquire, the fenced renew and
\* release scripts and lock_ttl_s > extend_s): a handler that works and whose
\* watchdog is on time owns the key.
THEOREM TimelyExclusion == Spec => []TimelyHoldsLock
<1>1. IInv => TimelyHoldsLock
    BY DEF IInv, TypeOK, TimelyTtl, TimelyHoldsLock, Timely, AgeCap
<1>2. QED
    BY IInvAlways, <1>1, PTL

\* No handler starts to work on the session beside a timely one, whatever
\* crashes, errors and stalls the others meet.
THEOREM NoOverlap == Spec => NoOverlapWithTimely
<1>1. ASSUME IInv, [Next]_vars, NEW h \in Handlers, NEW g \in Handlers,
             Timely(h), h # g, pc[g] = "trying"
      PROVE  pc'[g] # "working"
  <2>1. lock = h
      BY <1>1 DEF IInv, TimelyTtl
  <2>2. \A x \in Handlers : ~Acquire(x)
      BY <2>1 DEF Acquire, SetNx, NxAllows
  <2>3. ASSUME NEW x \in Handlers, HandlerStep(x) PROVE pc'[g] # "working"
      BY <1>1, <2>2, <2>3
      DEF HandlerStep, AcquireBusy, AcquireError, FinishWork, Release, ReleaseError,
          Extend, ExtendError, IInv, TypeOK
  <2>4. ASSUME NEW c \in Cores, Crash(c) PROVE pc'[g] # "working"
      BY <1>1, <2>4 DEF Crash
  <2>5. CASE Tick
      BY <1>1, <2>5 DEF Tick
  <2>6. CASE UNCHANGED vars
      BY <1>1, <2>6 DEF vars
  <2>7. QED
      BY <1>1, <2>3, <2>4, <2>5, <2>6 DEF Next
<1>2. IInv /\ [Next]_vars =>
        [\A h, g \in Handlers :
           (Timely(h) /\ h # g /\ pc[g] = "trying") => pc'[g] # "working"]_vars
    BY <1>1
<1>3. QED
    BY IInvAlways, <1>2, PTL DEF Spec, NoOverlapWithTimely

\* Fencing: the key of a handler disappears only by its own TTL or by its own
\* release, whichever handlers release, renew, fail or crash late.
THEOREM Fencing == Spec => OnlyHolderDeletes
<1>1. ASSUME IInv, [Next]_vars, NEW h \in Handlers, lock = h, lock' # h, ttl # 1
      PROVE  pc[h] = "releasing" /\ pc'[h] = "done"
  <2>1. ~NxAllows
      BY <1>1, HandlersAssumption DEF NxAllows
  <2>2. ASSUME NEW x \in Handlers, HandlerStep(x)
        PROVE  Release(x) /\ ReleaseHolds(x)
      BY <1>1, <2>1, <2>2
      DEF HandlerStep, Acquire, AcquireBusy, AcquireError, SetNx, FinishWork, Release,
          ReleaseError, Extend, ExtendError
  <2>3. ASSUME NEW x \in Handlers, HandlerStep(x)
        PROVE  pc[h] = "releasing" /\ pc'[h] = "done"
    <3>1. Release(x) /\ x = h
        BY <1>1, <2>2, <2>3 DEF ReleaseHolds
    <3>2. QED
        BY <1>1, <3>1 DEF Release, IInv, TypeOK
  <2>4. \A c \in Cores : ~Crash(c)
      BY <1>1 DEF Crash
  <2>5. ~Tick /\ ~UNCHANGED vars
      BY <1>1 DEF Tick, vars
  <2>6. QED
      BY <1>1, <2>3, <2>4, <2>5 DEF Next
<1>2. IInv /\ [Next]_vars =>
        [\A h \in Handlers :
           lock = h /\ lock' # h => \/ ttl = 1
                                    \/ pc[h] = "releasing" /\ pc'[h] = "done"]_vars
    BY <1>1
<1>3. QED
    BY IInvAlways, <1>2, PTL DEF Spec, OnlyHolderDeletes

\* A step leaves the key alone, frees it, or takes it when it is free.
LEMMA LockPassesThroughFree ==
    ASSUME TypeOK, [Next]_vars
    PROVE  \/ lock' = lock \/ lock' = NoToken
           \/ lock = NoToken /\ lock' \in Handlers
<1>1. ASSUME NEW h \in Handlers, HandlerStep(h)
      PROVE  \/ lock' = lock \/ lock' = NoToken
             \/ lock = NoToken /\ lock' \in Handlers
    BY <1>1
    DEF HandlerStep, Acquire, AcquireBusy, AcquireError, SetNx, NxAllows, FinishWork,
        Release, ReleaseError, Extend, ExtendError
<1>2. QED
    BY <1>1 DEF Next, Crash, Tick, vars

\* The session lock implements the lease contract (acquire, the watchdog and the
\* release script against LeaseContract.tla).
THEOREM LockContract == Spec => ImplementsContract
<1>1. Init => Contract!Init
    BY DEF Init, Contract!Init, LockRelies, Timely
<1>2. ASSUME IInv, IInv', [Next]_vars
      PROVE  Contract!Next
  <2>1. lock' \in Handlers \cup {NoToken}
      BY <1>2 DEF IInv, TypeOK
  <2>2. ASSUME NEW r \in LockRelies' PROVE r \in Handlers \X {"session"} /\ lock' = r[1]
      BY <1>2, <2>2 DEF LockRelies, IInv, TimelyTtl
  <2>3. Contract!Keeps("session") \/ Contract!Grants("session") \/ Contract!Frees("session")
    <3>1. CASE lock' = NoToken
        BY <2>2, <3>1 DEF Contract!Frees
    <3>2. CASE lock' # NoToken
        BY <1>2, <3>2, LockPassesThroughFree DEF IInv, Contract!Keeps, Contract!Grants
    <3>3. QED
        BY <3>1, <3>2
  <2>4. QED
      BY <2>1, <2>2, <2>3 DEF Contract!Next, Contract!Claims
<1>3. IInv /\ IInv' /\ [Next]_vars =>
        [Contract!Next]_<<[k \in {"session"} |-> lock], LockRelies>>
    BY <1>2
<1>4. QED
    BY IInvAlways, <1>1, <1>3, PTL DEF Spec, ImplementsContract, Contract!Spec
=============================================================================
