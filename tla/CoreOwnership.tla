--------------------------- MODULE CoreOwnership ---------------------------
(***************************************************************************)
(* Agent leases of the agent cores                                         *)
(* (agent/ai-platform/backend/src/cluster/core_ownership.py).              *)
(*                                                                         *)
(* Every agent has one owner key in Redis.  In a core, two asyncio tasks   *)
(* use the keys at the same time: the resync task claims, the heartbeat    *)
(* renews; at shutdown the resync task is cancelled and the leases are     *)
(* released while the heartbeat still runs (main.py).  A command and the   *)
(* handling of its answer are separate steps: in between, `inflight` holds *)
(* the answer and every other task, here and in other cores, may run.      *)
(*                                                                         *)
(* Time is counted in ticks.  `ttl` is what PTTL would answer and          *)
(* `age[c][a]` is how long ago core c's last successful claim or renewal   *)
(* of a took effect in Redis.  A heartbeat may be arbitrarily late.        *)
(***************************************************************************)
EXTENDS Integers, FiniteSets, Lease

CONSTANTS
    Cores,      \* core ids (stable across restarts)
    Agents,     \* agent ids
    LeaseTtl,   \* lease_ttl_s, in ticks
    HeartbeatS, \* heartbeat_s, in ticks
    MaxLate,    \* the lateness of a renewal that is still called timely
    MaxFaults   \* bound: commands that raise and restarts in one behaviour

ASSUME OwnersAssumption == NoOwner \notin Cores
ASSUME TimingAssumption ==
    /\ LeaseTtl \in Nat /\ HeartbeatS \in Nat /\ MaxLate \in Nat /\ MaxFaults \in Nat
    /\ HeartbeatS > 0
    /\ HeartbeatS + MaxLate < LeaseTtl

VARIABLES
    lease,      \* value of each owner key
    ttl,        \* ticks left of each owner key
    age,        \* ticks since a core's last effective claim or renewal
    stage,      \* "up", "stopping" or "down"
    owned,      \* CoreOwnership._owned of each core
    todo,       \* agents the running heartbeat round has yet to renew
    slept,      \* ticks since the last heartbeat round ended
    inflight,   \* answers of Redis that a task has not yet handled
    faults      \* commands that raised and restarts so far

vars == <<lease, ttl, age, stage, owned, todo, slept, inflight, faults>>

AgeCap == HeartbeatS + MaxLate + 1
Answers == [core : Cores, op : {"claim", "renew", "release"}, agent : Agents, ok : BOOLEAN]

TypeOK ==
    /\ lease \in [Agents -> Cores \cup {NoOwner}]
    /\ ttl \in [Agents -> 0..LeaseTtl]
    /\ age \in [Cores -> [Agents -> 0..AgeCap]]
    /\ stage \in [Cores -> {"up", "stopping", "down"}]
    /\ owned \in [Cores -> SUBSET Agents]
    /\ todo \in [Cores -> SUBSET Agents]
    /\ slept \in [Cores -> 0..HeartbeatS]
    /\ inflight \subseteq Answers
    /\ faults \in 0..MaxFaults

Init ==
    /\ lease = [a \in Agents |-> NoOwner]
    /\ ttl = [a \in Agents |-> 0]
    /\ age = [c \in Cores |-> [a \in Agents |-> AgeCap]]
    /\ stage = [c \in Cores |-> "up"]
    /\ owned = [c \in Cores |-> {}]
    /\ todo = [c \in Cores |-> {}]
    /\ slept = [c \in Cores |-> 0]
    /\ inflight = {}
    /\ faults = 0

-----------------------------------------------------------------------------
(* Commands as Redis runs them *)

\* _lease_ttl_ms: the TTL is converted from seconds to milliseconds once.
MutGrantedTtl == 1000 * LeaseTtl
GrantedTtl == LeaseTtl

\* SET or PEXPIRE by core c: the key carries c for that long.
Take(c, a) ==
    /\ lease' = [lease EXCEPT ![a] = c]
    /\ ttl' = [ttl EXCEPT ![a] = GrantedTtl]
    /\ age' = [age EXCEPT ![c][a] = 0]

ClaimScript(c, a) ==
    IF ClaimGrants(lease[a], c) THEN Take(c, a) ELSE UNCHANGED <<lease, ttl, age>>

RenewScript(c, a) ==
    IF RenewGrants(lease[a], c) THEN Take(c, a) ELSE UNCHANGED <<lease, ttl, age>>

ReleaseScript(c, a) ==
    /\ IF ReleaseDeletes(lease[a], c)
         THEN lease' = [lease EXCEPT ![a] = NoOwner] /\ ttl' = [ttl EXCEPT ![a] = 0]
         ELSE UNCHANGED <<lease, ttl>>
    /\ UNCHANGED age

\* Each task awaits one command at a time.
Awaits(c, op) == \E r \in inflight : r.core = c /\ r.op = op
Answer(c, op, a, ok) == [core |-> c, op |-> op, agent |-> a, ok |-> ok]
Send(c, op, a, ok) == inflight' = inflight \cup {Answer(c, op, a, ok)}

Fault == faults < MaxFaults /\ faults' = faults + 1

-----------------------------------------------------------------------------
(* claim(), called by the resync task for every configured agent *)

ClaimEval(c, a) ==
    /\ stage[c] = "up" /\ ~Awaits(c, "claim")
    /\ ClaimScript(c, a)
    /\ Send(c, "claim", a, ClaimGrants(lease[a], c))
    /\ UNCHANGED <<stage, owned, todo, slept, faults>>

\* A claim that does not record its success.
MutOwnedAfterClaim(c, r) == owned[c] \ {r.agent}
OwnedAfterClaim(c, r) == IF r.ok THEN owned[c] \cup {r.agent} ELSE owned[c] \ {r.agent}

ClaimReturn(c, r) ==
    /\ r.core = c /\ r.op = "claim"
    /\ owned' = [owned EXCEPT ![c] = OwnedAfterClaim(c, r)]
    /\ inflight' = inflight \ {r}
    /\ UNCHANGED <<lease, ttl, age, stage, todo, slept, faults>>

\* The call raises, before or after the script ran: _owned is left as it was.
ClaimError(c, a) ==
    /\ stage[c] = "up" /\ ~Awaits(c, "claim")
    /\ Fault
    /\ ClaimScript(c, a) \/ UNCHANGED <<lease, ttl, age>>
    /\ UNCHANGED <<stage, owned, todo, slept, inflight>>

-----------------------------------------------------------------------------
(* _heartbeat_loop() and renew() *)

Beating(c) == stage[c] # "down" /\ ~Awaits(c, "renew")

\* The sleep ends and the round takes a snapshot of _owned.
RoundStart(c) ==
    /\ Beating(c) /\ todo[c] = {} /\ slept[c] = HeartbeatS
    /\ todo' = [todo EXCEPT ![c] = owned[c]]
    /\ slept' = [slept EXCEPT ![c] = 0]
    /\ UNCHANGED <<lease, ttl, age, stage, owned, inflight, faults>>

RenewEval(c, a) ==
    /\ Beating(c) /\ a \in todo[c]
    /\ todo' = [todo EXCEPT ![c] = @ \ {a}]
    /\ RenewScript(c, a)
    /\ Send(c, "renew", a, RenewGrants(lease[a], c))
    /\ UNCHANGED <<stage, owned, slept, faults>>

\* A lost lease leaves _owned; the on_lost callback is AgentCluster's concern.
MutOwnedAfterRenew(c, r) == owned[c]
OwnedAfterRenew(c, r) == IF r.ok THEN owned[c] ELSE owned[c] \ {r.agent}

RenewReturn(c, r) ==
    /\ r.core = c /\ r.op = "renew"
    /\ owned' = [owned EXCEPT ![c] = OwnedAfterRenew(c, r)]
    /\ inflight' = inflight \ {r}
    /\ UNCHANGED <<lease, ttl, age, stage, todo, slept, faults>>

\* The call raises, before or after the script ran: the loop treats the lease
\* as lost.
RenewError(c, a) ==
    /\ Beating(c) /\ a \in todo[c]
    /\ Fault
    /\ todo' = [todo EXCEPT ![c] = @ \ {a}]
    /\ owned' = [owned EXCEPT ![c] = @ \ {a}]
    /\ RenewScript(c, a) \/ UNCHANGED <<lease, ttl, age>>
    /\ UNCHANGED <<stage, slept, inflight>>

-----------------------------------------------------------------------------
(* Shutdown and process failures *)

\* The resync task is cancelled: the answer to a claim in flight is dropped.
ShutdownBegin(c) ==
    /\ stage[c] = "up"
    /\ stage' = [stage EXCEPT ![c] = "stopping"]
    /\ inflight' = {r \in inflight : ~(r.core = c /\ r.op = "claim")}
    /\ UNCHANGED <<lease, ttl, age, owned, todo, slept, faults>>

ReleaseEval(c, a) ==
    /\ stage[c] = "stopping" /\ ~Awaits(c, "release")
    /\ ReleaseScript(c, a)
    /\ Send(c, "release", a, ReleaseDeletes(lease[a], c))
    /\ UNCHANGED <<stage, owned, todo, slept, faults>>

ReleaseReturn(c, r) ==
    /\ r.core = c /\ r.op = "release"
    /\ owned' = [owned EXCEPT ![c] = @ \ {r.agent}]
    /\ inflight' = inflight \ {r}
    /\ UNCHANGED <<lease, ttl, age, stage, todo, slept, faults>>

\* Shutdown ends (stop_heartbeat) or the process dies: its memory is gone.
Down(c) ==
    /\ stage[c] # "down"
    /\ stage' = [stage EXCEPT ![c] = "down"]
    /\ owned' = [owned EXCEPT ![c] = {}]
    /\ todo' = [todo EXCEPT ![c] = {}]
    /\ inflight' = {r \in inflight : r.core # c}
    /\ UNCHANGED <<lease, ttl, age, slept, faults>>

\* A new process starts under the same core id.  A core that restarts for ever,
\* claiming each time, would keep its leases for ever: restarts are bounded.
Restart(c) ==
    /\ stage[c] = "down"
    /\ Fault
    /\ stage' = [stage EXCEPT ![c] = "up"]
    /\ age' = [age EXCEPT ![c] = [a \in Agents |-> AgeCap]]
    /\ slept' = [slept EXCEPT ![c] = 0]
    /\ UNCHANGED <<lease, ttl, owned, todo, inflight>>

Older(n) == IF n < AgeCap THEN n + 1 ELSE n

Tick ==
    /\ ttl' = [a \in Agents |-> IF ttl[a] > 0 THEN ttl[a] - 1 ELSE 0]
    /\ lease' = [a \in Agents |-> IF ttl[a] = 1 THEN NoOwner ELSE lease[a]]
    /\ age' = [c \in Cores |-> [a \in Agents |-> Older(age[c][a])]]
    /\ slept' = [c \in Cores |-> IF slept[c] < HeartbeatS /\ todo[c] = {}
                                   THEN slept[c] + 1 ELSE slept[c]]
    /\ UNCHANGED <<stage, owned, todo, inflight, faults>>

-----------------------------------------------------------------------------

Heartbeat(c) ==
    \/ RoundStart(c)
    \/ \E a \in Agents : RenewEval(c, a) \/ RenewError(c, a)
    \/ \E r \in inflight : RenewReturn(c, r)

Resync(c) ==
    \/ \E a \in Agents : ClaimEval(c, a) \/ ClaimError(c, a)
    \/ \E r \in inflight : ClaimReturn(c, r)

Shutdown(c) ==
    \/ ShutdownBegin(c)
    \/ \E a \in Agents : ReleaseEval(c, a)
    \/ \E r \in inflight : ReleaseReturn(c, r)

Next ==
    \/ \E c \in Cores : Heartbeat(c) \/ Resync(c) \/ Shutdown(c) \/ Down(c) \/ Restart(c)
    \/ Tick

Spec == Init /\ [][Next]_vars

\* Time passes, and the event loop of a core keeps running its tasks.
FairSpec ==
    /\ Spec
    /\ WF_vars(Tick)
    /\ \A c \in Cores :
          WF_vars(Heartbeat(c)) /\ WF_vars(\E r \in inflight : ClaimReturn(c, r))

-----------------------------------------------------------------------------
(* Properties *)

\* A core that is up, believes it owns a, and has claimed or renewed in time.
Fresh(c, a) ==
    /\ stage[c] = "up"
    /\ a \in owned[c]
    /\ age[c][a] <= HeartbeatS + MaxLate

\* The promise behind "at most one owner at any moment": whatever the other
\* cores claim, release or lose, a core's belief that it owns an agent is true
\* as long as its heartbeat is on time; so two cores never both believe it
\* unless one of them is late.
FreshOwnerHoldsLease == \A c \in Cores, a \in Agents : Fresh(c, a) => lease[a] = c

\* Claims, releases and crashes of others never end the lease of a core that
\* is up: only its own TTL does.
LeaseEndsByTtlOrOwner ==
    [][\A a \in Agents, c \in Cores :
          (lease[a] = c /\ lease'[a] # c) => (ttl[a] = 1 \/ stage[c] = "stopping")]_vars

\* The owner keys are leases, on which fresh cores rely.
LeaseRelies == {r \in Cores \X Agents : Fresh(r[1], r[2])}
Contract == INSTANCE LeaseContract WITH
                Clients <- Cores, Keys <- Agents, Nobody <- NoOwner,
                holder <- lease, relies <- LeaseRelies

\* The agent leases implement the lease contract: an agent passes from core to
\* core only by being free, and is never taken from a core whose belief to own
\* it is fresh.
ImplementsContract == Contract!Spec

\* A core that has lost a lease notices: the agent leaves _owned, or the core
\* regains the lease or goes down.
LossIsNoticed ==
    \A c \in Cores, a \in Agents :
        (a \in owned[c] /\ lease[a] # c) ~> (a \notin owned[c] \/ lease[a] = c)

\* A lease that its core does not track (a lost answer, a failed renewal, the
\* answer of a renewal overtaken by a claim, a crash) does not live for ever:
\* it expires or the core tracks it again.
UntrackedLeaseEnds ==
    \A c \in Cores, a \in Agents :
        (lease[a] = c /\ a \notin owned[c]) ~> (lease[a] # c \/ a \in owned[c])
=============================================================================
