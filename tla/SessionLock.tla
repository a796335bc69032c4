---------------------------- MODULE SessionLock ----------------------------
(***************************************************************************)
(* The distributed session lock of the agent core                          *)
(* (agent/ai-platform/backend/src/cluster/session_lock.py): one Redis key  *)
(* `aip:session:{sid}:lock`, taken with SET NX PX, extended by a watchdog  *)
(* task and deleted by a fenced script.  The locks of two sessions share   *)
(* no state, so the module models one key.                                 *)
(*                                                                         *)
(* A handler is one call of acquire(); its fencing token is unique, so the *)
(* handler itself stands for the token.  Time is a count of ticks: `ttl`   *)
(* is what PTTL would answer and `age[h]` is how long ago handler h's last *)
(* successful SET or PEXPIRE reached Redis.  Nothing forces the watchdog   *)
(* to run on time: the event loop may stall and a round trip may be slow.  *)
(***************************************************************************)
EXTENDS Integers, FiniteSets

CONSTANTS
    Handlers,   \* the calls of acquire() on this session
    Cores,      \* the processes they run in
    CoreOf,     \* [Handlers -> Cores]
    NoToken,    \* the value of a missing key
    LockTtl,    \* lock_ttl_s, in ticks
    ExtendS,    \* extend_s, in ticks
    MaxLate,    \* the lateness of a watchdog that is still called timely
    Retry       \* retry

ASSUME HandlersAssumption == NoToken \notin Handlers
ASSUME CoreOfAssumption == CoreOf \in [Handlers -> Cores]
ASSUME TimingAssumption ==
    /\ LockTtl \in Nat /\ ExtendS \in Nat /\ MaxLate \in Nat /\ Retry \in Nat
    /\ ExtendS > 0
    /\ ExtendS + MaxLate < LockTtl

VARIABLES
    lock,       \* the token stored under the key, or NoToken
    ttl,        \* ticks left before Redis expires the key
    pc,         \* where each handler is
    tries,      \* SET NX calls each handler has made
    watchdog,   \* "on" while the handler's _extend_loop keeps extending
    age         \* ticks since the handler's last SET or PEXPIRE took effect

vars == <<lock, ttl, pc, tries, watchdog, age>>

\* Ages above this are indistinguishable to every guard and property.
AgeCap == ExtendS + MaxLate + 1

Stages == {"trying", "working", "releasing", "done", "gaveUp", "failed", "crashed"}

TypeOK ==
    /\ lock \in Handlers \cup {NoToken}
    /\ ttl \in 0..LockTtl
    /\ pc \in [Handlers -> Stages]
    /\ tries \in [Handlers -> 0..Retry]
    /\ watchdog \in [Handlers -> {"on", "off"}]
    /\ age \in [Handlers -> 0..AgeCap]

Init ==
    /\ lock = NoToken
    /\ ttl = 0
    /\ pc = [h \in Handlers |-> "trying"]
    /\ tries = [h \in Handlers |-> 0]
    /\ watchdog = [h \in Handlers |-> "off"]
    /\ age = [h \in Handlers |-> 0]

-----------------------------------------------------------------------------
(* The Redis commands *)

\* Operators whose names start with Mut are the bugs the properties are
\* checked to catch; the specification does not use them.

\* The PX argument of SET.
MutTtlScaledTwice == LockTtl * 1000
MutTtlMissing == 0
AcquireTtl == LockTtl

\* GET KEYS[1] == ARGV[1] in the release script.
MutReleaseUnfenced(h) == TRUE
ReleaseHolds(h) == lock = h

\* GET KEYS[1] == ARGV[1] in the renew script.
MutRenewUnfenced(h) == TRUE
RenewHolds(h) == lock = h

\* The value of a free key; SET key token NX PX ttl succeeds only on one.
MutNxMissing == TRUE
NxAllows == lock = NoToken

SetNx(h) ==
    /\ NxAllows
    /\ lock' = h
    /\ ttl' = AcquireTtl
    /\ age' = [age EXCEPT ![h] = 0]

-----------------------------------------------------------------------------
(* acquire() *)

\* SET NX succeeds: the watchdog starts and the body runs.
Acquire(h) ==
    /\ pc[h] = "trying"
    /\ SetNx(h)
    /\ pc' = [pc EXCEPT ![h] = "working"]
    /\ watchdog' = [watchdog EXCEPT ![h] = "on"]
    /\ UNCHANGED tries

\* SET NX finds the key: sleep and try again, or yield locked=False after
\* Retry + 1 attempts.
AcquireBusy(h) ==
    /\ pc[h] = "trying"
    /\ ~NxAllows
    /\ IF tries[h] < Retry
         THEN /\ tries' = [tries EXCEPT ![h] = @ + 1]
              /\ UNCHANGED pc
         ELSE /\ pc' = [pc EXCEPT ![h] = "gaveUp"]
              /\ UNCHANGED tries
    /\ UNCHANGED <<lock, ttl, watchdog, age>>

\* The SET raises (socket timeout, connection reset): acquire() propagates the
\* exception.  The command may have taken effect all the same, and then the key
\* holds a token nobody will ever release.
AcquireError(h) ==
    /\ pc[h] = "trying"
    /\ pc' = [pc EXCEPT ![h] = "failed"]
    /\ SetNx(h) \/ UNCHANGED <<lock, ttl, age>>
    /\ UNCHANGED <<tries, watchdog>>

\* The body ends or raises: the watchdog is cancelled before the release.
FinishWork(h) ==
    /\ pc[h] = "working"
    /\ pc' = [pc EXCEPT ![h] = "releasing"]
    /\ watchdog' = [watchdog EXCEPT ![h] = "off"]
    /\ UNCHANGED <<lock, ttl, tries, age>>

\* _release_if_owner: DEL if the token is still this handler's.
Release(h) ==
    /\ pc[h] = "releasing"
    /\ pc' = [pc EXCEPT ![h] = "done"]
    /\ IF ReleaseHolds(h)
         THEN lock' = NoToken /\ ttl' = 0
         ELSE UNCHANGED <<lock, ttl>>
    /\ UNCHANGED <<tries, watchdog, age>>

\* The release script never reaches Redis: the error is logged, the key stays.
ReleaseError(h) ==
    /\ pc[h] = "releasing"
    /\ pc' = [pc EXCEPT ![h] = "done"]
    /\ UNCHANGED <<lock, ttl, tries, watchdog, age>>

-----------------------------------------------------------------------------
(* _extend_loop(): the watchdog *)

\* PEXPIRE if the token is still this handler's; otherwise the loop ends, and
\* the body runs on without the lock.
Extend(h) ==
    /\ watchdog[h] = "on"
    /\ age[h] >= ExtendS
    /\ IF RenewHolds(h)
         THEN /\ ttl' = LockTtl
              /\ age' = [age EXCEPT ![h] = 0]
              /\ UNCHANGED watchdog
         ELSE /\ watchdog' = [watchdog EXCEPT ![h] = "off"]
              /\ UNCHANGED <<ttl, age>>
    /\ UNCHANGED <<lock, pc, tries>>

\* The renew script raises, before or after it took effect: the loop ends.
ExtendError(h) ==
    /\ watchdog[h] = "on"
    /\ age[h] >= ExtendS
    /\ watchdog' = [watchdog EXCEPT ![h] = "off"]
    /\ ttl' = ttl \/ (RenewHolds(h) /\ ttl' = LockTtl)
    /\ UNCHANGED <<lock, pc, tries, age>>

-----------------------------------------------------------------------------
(* The environment *)

\* A core dies: its handlers and their watchdogs stop where they are.
Crash(c) ==
    LET mine == {h \in Handlers : CoreOf[h] = c /\ pc[h] \in {"trying", "working", "releasing"}}
    IN  /\ mine # {}
        /\ pc' = [h \in Handlers |-> IF h \in mine THEN "crashed" ELSE pc[h]]
        /\ watchdog' = [h \in Handlers |-> IF h \in mine THEN "off" ELSE watchdog[h]]
        /\ UNCHANGED <<lock, ttl, tries, age>>

Older(n) == IF n < AgeCap THEN n + 1 ELSE n

\* One tick passes.  A key with a TTL of 0 ticks would never expire.
Tick ==
    /\ ttl' = IF ttl > 0 THEN ttl - 1 ELSE 0
    /\ lock' = IF ttl = 1 THEN NoToken ELSE lock
    /\ age' = [h \in Handlers |-> IF watchdog[h] = "on" THEN Older(age[h]) ELSE age[h]]
    /\ UNCHANGED <<pc, tries, watchdog>>

HandlerStep(h) ==
    \/ Acquire(h) \/ AcquireBusy(h) \/ AcquireError(h)
    \/ FinishWork(h) \/ Release(h) \/ ReleaseError(h)
    \/ Extend(h) \/ ExtendError(h)

Next ==
    \/ \E h \in Handlers : HandlerStep(h)
    \/ \E c \in Cores : Crash(c)
    \/ Tick

Spec == Init /\ [][Next]_vars

\* Time passes; nothing is assumed of the handlers, who may hang or die.
FairSpec == Spec /\ WF_vars(Tick)

-----------------------------------------------------------------------------
(* Properties *)

\* A handler whose watchdog is running and has not been late.
Timely(h) == pc[h] = "working" /\ watchdog[h] = "on" /\ age[h] <= ExtendS + MaxLate

\* Mutual exclusion, as far as the code can give it: a working handler whose
\* watchdog is timely owns the key, so no two of them work at once and a
\* second worker on the session means that the first has lost its watchdog.
TimelyHoldsLock == \A h \in Handlers : Timely(h) => lock = h /\ ttl > 0

\* A handler never starts to work on the session beside a timely one.
NoOverlapWithTimely ==
    [][\A h, g \in Handlers :
          (Timely(h) /\ h # g /\ pc[g] = "trying") => pc'[g] # "working"]_vars

\* Fencing (the release and renew scripts): a key disappears only when its own
\* TTL runs out or its own handler releases it, whoever else is finishing.
OnlyHolderDeletes ==
    [][\A h \in Handlers :
          lock = h /\ lock' # h => \/ ttl = 1
                                   \/ pc[h] = "releasing" /\ pc'[h] = "done"]_vars

\* The lock is a lease on one key, on which timely handlers rely.
LockRelies == {<<h, "session">> : h \in {g \in Handlers : Timely(g)}}
Contract == INSTANCE LeaseContract WITH
                Clients <- Handlers, Keys <- {"session"}, Nobody <- NoToken,
                holder <- [k \in {"session"} |-> lock], relies <- LockRelies

\* The session lock implements the lease contract: the key passes from handler
\* to handler only by being free, and a timely handler never loses it.
ImplementsContract == Contract!Spec

\* A lock whose handler died, failed after the SET took effect or could not
\* release it is freed by its TTL: no session is locked for ever.
OrphanLockExpires ==
    \A h \in Handlers :
        (lock = h /\ pc[h] \in {"crashed", "failed", "done"}) ~> (lock # h)
=============================================================================
