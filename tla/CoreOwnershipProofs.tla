------------------------ MODULE CoreOwnershipProofs ------------------------
(* Proofs that a core with a timely heartbeat owns the leases it believes it *)
(* owns, for any number of cores and agents and any lease_ttl_s and          *)
(* heartbeat_s.                                                              *)
EXTENDS CoreOwnership, TLAPS

\* The claim that is inductive does not mention _owned at all: a command of a
\* running core that took effect recently still has its effect in Redis, with
\* at least LeaseTtl - age ticks to live.
RecentCommandHolds ==
    \A c \in Cores, a \in Agents :
        (stage[c] = "up" /\ age[c][a] <= HeartbeatS + MaxLate)
            => (lease[a] = c /\ ttl[a] >= LeaseTtl - age[c][a])

IInv == TypeOK /\ RecentCommandHolds

USE OwnersAssumption, TimingAssumption

LEMMA OlderType == \A n \in 0..AgeCap : Older(n) \in 0..AgeCap
BY DEF Older, AgeCap

LEMMA AnswerType ==
    ASSUME NEW c \in Cores, NEW a \in Agents, NEW ok \in BOOLEAN,
           NEW op \in {"claim", "renew", "release"}
    PROVE  Answer(c, op, a, ok) \in Answers
BY DEF Answer, Answers

\* A command that takes effect keeps the types and the claim: the lease was
\* free or the core's own, so no other running core has a recent command on it.
LEMMA TakeKeeps ==
    ASSUME TypeOK, RecentCommandHolds, NEW c \in Cores, NEW a \in Agents,
           lease[a] \in {c, NoOwner}, Take(c, a), UNCHANGED stage
    PROVE  /\ RecentCommandHolds'
           /\ lease' \in [Agents -> Cores \cup {NoOwner}]
           /\ ttl' \in [Agents -> 0..LeaseTtl]
           /\ age' \in [Cores -> [Agents -> 0..AgeCap]]
<1>1. /\ lease' \in [Agents -> Cores \cup {NoOwner}]
      /\ ttl' \in [Agents -> 0..LeaseTtl]
    BY DEF Take, GrantedTtl, TypeOK
<1>2. age' \in [Cores -> [Agents -> 0..AgeCap]]
  <2>1. [age[c] EXCEPT ![a] = 0] \in [Agents -> 0..AgeCap]
      BY DEF TypeOK, AgeCap
  <2>2. QED
      BY <2>1 DEF Take, TypeOK
<1>3. ASSUME NEW d \in Cores, NEW b \in Agents,
             stage[d] = "up", age'[d][b] <= HeartbeatS + MaxLate
      PROVE  lease'[b] = d /\ ttl'[b] >= LeaseTtl - age'[d][b]
  <2>1. CASE d = c /\ b = a
      BY <2>1 DEF Take, GrantedTtl, TypeOK
  <2>2. CASE ~(d = c /\ b = a)
    <3>1. age'[d][b] = age[d][b]
        BY <2>2 DEF Take, TypeOK
    <3>2. lease[b] = d /\ ttl[b] >= LeaseTtl - age[d][b]
        BY <1>3, <3>1 DEF RecentCommandHolds
    <3>3. b # a
        BY <2>2, <3>2
    <3>4. QED
        BY <3>1, <3>2, <3>3 DEF Take, TypeOK
  <2>3. QED
      BY <2>1, <2>2
<1>4. QED
    BY <1>1, <1>2, <1>3 DEF RecentCommandHolds

\* A renewal or a claim, whether or not it is granted.
LEMMA ScriptKeeps ==
    ASSUME IInv, NEW c \in Cores, NEW a \in Agents, UNCHANGED stage,
           \/ ClaimScript(c, a)
           \/ RenewScript(c, a)
           \/ UNCHANGED <<lease, ttl, age>>
    PROVE  /\ RecentCommandHolds'
           /\ lease' \in [Agents -> Cores \cup {NoOwner}]
           /\ ttl' \in [Agents -> 0..LeaseTtl]
           /\ age' \in [Cores -> [Agents -> 0..AgeCap]]
<1>1. CASE Take(c, a) /\ lease[a] \in {c, NoOwner}
    BY <1>1, TakeKeeps DEF IInv
<1>2. CASE UNCHANGED <<lease, ttl, age>>
    BY <1>2 DEF IInv, TypeOK, RecentCommandHolds
<1>3. QED
    BY <1>1, <1>2 DEF ClaimScript, RenewScript, ClaimGrants, RenewGrants

LEMMA InitIInv == Init => IInv
BY DEF Init, IInv, TypeOK, RecentCommandHolds, AgeCap

LEMMA StepIInv == IInv /\ [Next]_vars => IInv'
<1> SUFFICES ASSUME IInv, [Next]_vars PROVE IInv'
    OBVIOUS
<1> USE DEF IInv
<1>1. ASSUME NEW c \in Cores, NEW a \in Agents, ClaimEval(c, a) PROVE IInv'
  <2>1. UNCHANGED stage /\ ClaimScript(c, a)
      BY <1>1 DEF ClaimEval
  <2>2. ClaimGrants(lease[a], c) \in BOOLEAN
      BY DEF ClaimGrants
  <2>3. inflight' \subseteq Answers
      BY <1>1, <2>2, AnswerType DEF ClaimEval, Send, TypeOK
  <2>4. QED
      BY <1>1, <2>1, <2>3, ScriptKeeps DEF ClaimEval, TypeOK
<1>2. ASSUME NEW c \in Cores, NEW r \in inflight, ClaimReturn(c, r) PROVE IInv'
  <2>1. r.agent \in Agents
      BY DEF TypeOK, Answers
  <2>2. OwnedAfterClaim(c, r) \subseteq Agents
      BY <2>1 DEF OwnedAfterClaim, TypeOK
  <2>3. QED
      BY <1>2, <2>2 DEF ClaimReturn, TypeOK, RecentCommandHolds
<1>3. ASSUME NEW c \in Cores, NEW a \in Agents, ClaimError(c, a) PROVE IInv'
  <2>1. UNCHANGED stage /\ (ClaimScript(c, a) \/ UNCHANGED <<lease, ttl, age>>)
      BY <1>3 DEF ClaimError
  <2>2. faults' \in 0..MaxFaults
      BY <1>3 DEF ClaimError, Fault, TypeOK
  <2>3. QED
      BY <1>3, <2>1, <2>2, ScriptKeeps DEF ClaimError, TypeOK
<1>4. ASSUME NEW c \in Cores, RoundStart(c) PROVE IInv'
    BY <1>4 DEF RoundStart, TypeOK, RecentCommandHolds
<1>5. ASSUME NEW c \in Cores, NEW a \in Agents, RenewEval(c, a) PROVE IInv'
  <2>1. UNCHANGED stage /\ RenewScript(c, a)
      BY <1>5 DEF RenewEval
  <2>2. RenewGrants(lease[a], c) \in BOOLEAN
      BY DEF RenewGrants
  <2>3. inflight' \subseteq Answers
      BY <1>5, <2>2, AnswerType DEF RenewEval, Send, TypeOK
  <2>4. todo' \in [Cores -> SUBSET Agents]
      BY <1>5 DEF RenewEval, TypeOK
  <2>5. QED
      BY <1>5, <2>1, <2>3, <2>4, ScriptKeeps DEF RenewEval, TypeOK
<1>6. ASSUME NEW c \in Cores, NEW r \in inflight, RenewReturn(c, r) PROVE IInv'
  <2>1. OwnedAfterRenew(c, r) \subseteq Agents
      BY DEF OwnedAfterRenew, TypeOK
  <2>2. QED
      BY <1>6, <2>1 DEF RenewReturn, TypeOK, RecentCommandHolds
<1>7. ASSUME NEW c \in Cores, NEW a \in Agents, RenewError(c, a) PROVE IInv'
  <2>1. UNCHANGED stage /\ (RenewScript(c, a) \/ UNCHANGED <<lease, ttl, age>>)
      BY <1>7 DEF RenewError
  <2>2. faults' \in 0..MaxFaults
      BY <1>7 DEF RenewError, Fault, TypeOK
  <2>3. todo' \in [Cores -> SUBSET Agents] /\ owned' \in [Cores -> SUBSET Agents]
      BY <1>7 DEF RenewError, TypeOK
  <2>4. QED
      BY <1>7, <2>1, <2>2, <2>3, ScriptKeeps DEF RenewError, TypeOK
<1>8. ASSUME NEW c \in Cores, ShutdownBegin(c) PROVE IInv'
    BY <1>8 DEF ShutdownBegin, TypeOK, RecentCommandHolds
<1>9. ASSUME NEW c \in Cores, NEW a \in Agents, ReleaseEval(c, a) PROVE IInv'
  <2>1. ReleaseDeletes(lease[a], c) \in BOOLEAN
      BY DEF ReleaseDeletes
  <2>2. inflight' \subseteq Answers
      BY <1>9, <2>1, AnswerType DEF ReleaseEval, Send, TypeOK
  <2>3. CASE lease[a] = c
    \* The only core whose recent command is undone is stopping.
    <3>1. /\ stage[c] = "stopping" /\ UNCHANGED <<age, stage, owned, todo, slept, faults>>
          /\ lease' = [lease EXCEPT ![a] = NoOwner] /\ ttl' = [ttl EXCEPT ![a] = 0]
        BY <1>9, <2>3 DEF ReleaseEval, ReleaseScript, ReleaseDeletes
    <3>2. TypeOK'
        BY <2>2, <3>1 DEF TypeOK
    <3>3. ASSUME NEW d \in Cores, NEW b \in Agents,
                 stage[d] = "up", age[d][b] <= HeartbeatS + MaxLate
          PROVE  lease'[b] = d /\ ttl'[b] >= LeaseTtl - age[d][b]
      <4>1. lease[b] = d /\ ttl[b] >= LeaseTtl - age[d][b]
          BY <3>3 DEF RecentCommandHolds
      <4>2. b # a
          BY <2>3, <3>1, <3>3, <4>1
      <4>3. QED
          BY <3>1, <4>1, <4>2 DEF TypeOK
    <3>4. QED
        BY <3>1, <3>2, <3>3 DEF RecentCommandHolds
  <2>4. CASE lease[a] # c
      BY <1>9, <2>2, <2>4
      DEF ReleaseEval, ReleaseScript, ReleaseDeletes, TypeOK, RecentCommandHolds
  <2>5. QED
      BY <2>3, <2>4
<1>10. ASSUME NEW c \in Cores, NEW r \in inflight, ReleaseReturn(c, r) PROVE IInv'
    BY <1>10 DEF ReleaseReturn, TypeOK, RecentCommandHolds
<1>11. ASSUME NEW c \in Cores, Down(c) PROVE IInv'
    BY <1>11 DEF Down, TypeOK, RecentCommandHolds
<1>12. ASSUME NEW c \in Cores, Restart(c) PROVE IInv'
  <2>1. TypeOK'
      BY <1>12 DEF Restart, Fault, TypeOK, AgeCap
  <2>2. RecentCommandHolds'
      BY <1>12 DEF Restart, TypeOK, RecentCommandHolds, AgeCap
  <2>3. QED
      BY <2>1, <2>2
<1>13. ASSUME Tick PROVE IInv'
  <2>1. age' \in [Cores -> [Agents -> 0..AgeCap]]
      BY <1>13, OlderType DEF Tick, TypeOK
  <2>2. slept' \in [Cores -> 0..HeartbeatS]
      BY <1>13 DEF Tick, TypeOK
  <2>3. TypeOK'
      BY <1>13, <2>1, <2>2 DEF Tick, TypeOK
  <2>4. ASSUME NEW c \in Cores, NEW a \in Agents,
               stage[c] = "up", age'[c][a] <= HeartbeatS + MaxLate
        PROVE  lease'[a] = c /\ ttl'[a] >= LeaseTtl - age'[c][a]
    <3>1. age'[c][a] = Older(age[c][a]) /\ age[c][a] \in 0..AgeCap
        BY <1>13 DEF Tick, TypeOK
    <3>2. age'[c][a] = age[c][a] + 1
        BY <2>4, <3>1 DEF Older, AgeCap
    <3>3. lease[a] = c /\ ttl[a] >= LeaseTtl - age[c][a]
        BY <2>4, <3>1, <3>2 DEF RecentCommandHolds
    <3>4. ttl[a] \in 0..LeaseTtl /\ ttl[a] > 1
        BY <2>4, <3>1, <3>2, <3>3 DEF TypeOK
    <3>5. lease'[a] = lease[a] /\ ttl'[a] = ttl[a] - 1
        BY <1>13, <3>4 DEF Tick
    <3>6. QED
        BY <3>1, <3>2, <3>3, <3>4, <3>5
  <2>5. RecentCommandHolds'
      BY <1>13, <2>4 DEF RecentCommandHolds, Tick
  <2>6. QED
      BY <2>3, <2>5
<1>14. CASE UNCHANGED vars
    BY <1>14 DEF vars, TypeOK, RecentCommandHolds
<1>15. QED
    BY <1>1, <1>2, <1>3, <1>4, <1>5, <1>6, <1>7, <1>8, <1>9, <1>10, <1>11, <1>12,
       <1>13, <1>14
    DEF Next, Heartbeat, Resync, Shutdown

LEMMA IInvAlways == Spec => []IInv
BY InitIInv, StepIInv, PTL DEF Spec

\* Every variable keeps its type in every behaviour.
THEOREM TypeCorrect == Spec => []TypeOK
<1>1. IInv => TypeOK
    BY DEF IInv
<1>2. QED
    BY IInvAlways, <1>1, PTL

\* At most one core rightly believes it owns an agent (claim, renew and release
\* scripts, lease_ttl_s > heartbeat_s): a running core whose last claim or
\* renewal is recent owns the key, whatever happens to the others.
THEOREM FreshOwnership == Spec => []FreshOwnerHoldsLease
<1>1. IInv => FreshOwnerHoldsLease
    BY DEF IInv, RecentCommandHolds, FreshOwnerHoldsLease, Fresh
<1>2. QED
    BY IInvAlways, <1>1, PTL

\* A claim or a renewal never takes the lease from another core.
LEMMA ScriptNeverSteals ==
    ASSUME TypeOK, NEW c \in Cores, NEW a \in Agents, NEW d \in Cores, NEW b \in Agents,
           lease[b] = d,
           \/ ClaimScript(c, a)
           \/ RenewScript(c, a)
           \/ UNCHANGED <<lease, ttl, age>>
    PROVE  lease'[b] = d
BY DEF ClaimScript, RenewScript, ClaimGrants, RenewGrants, Take, TypeOK

\* The lease of a running core ends only with its TTL (the release script's
\* GET check, and the claim script's refusal of a key held by another).
THEOREM LeaseEnds == Spec => LeaseEndsByTtlOrOwner
<1>1. ASSUME IInv, [Next]_vars, NEW a \in Agents, NEW c \in Cores,
             lease[a] = c, ttl[a] # 1, stage[c] # "stopping"
      PROVE  lease'[a] = c
  <2>0. TypeOK
      BY <1>1 DEF IInv
  <2>1. ASSUME NEW d \in Cores, NEW b \in Agents,
               \/ ClaimEval(d, b) \/ ClaimError(d, b) \/ RenewEval(d, b) \/ RenewError(d, b)
        PROVE  lease'[a] = c
      BY <1>1, <2>0, <2>1, ScriptNeverSteals
      DEF ClaimEval, ClaimError, RenewEval, RenewError
  <2>2. ASSUME NEW d \in Cores, NEW b \in Agents, ReleaseEval(d, b) PROVE lease'[a] = c
      BY <1>1, <2>0, <2>2 DEF ReleaseEval, ReleaseScript, ReleaseDeletes, TypeOK
  <2>3. ASSUME NEW d \in Cores, NEW r \in inflight,
               ClaimReturn(d, r) \/ RenewReturn(d, r) \/ ReleaseReturn(d, r)
        PROVE  lease'[a] = c
      BY <1>1, <2>3 DEF ClaimReturn, RenewReturn, ReleaseReturn
  <2>4. ASSUME NEW d \in Cores, RoundStart(d) \/ ShutdownBegin(d) \/ Down(d) \/ Restart(d)
        PROVE  lease'[a] = c
      BY <1>1, <2>4 DEF RoundStart, ShutdownBegin, Down, Restart
  <2>5. CASE Tick
      BY <1>1, <2>5 DEF Tick
  <2>6. CASE UNCHANGED vars
      BY <1>1, <2>6 DEF vars
  <2>7. QED
      BY <1>1, <2>1, <2>2, <2>3, <2>4, <2>5, <2>6 DEF Next, Heartbeat, Resync, Shutdown
<1>2. IInv /\ [Next]_vars =>
        [\A a \in Agents, c \in Cores :
           (lease[a] = c /\ lease'[a] # c) => (ttl[a] = 1 \/ stage[c] = "stopping")]_vars
    BY <1>1
<1>3. QED
    BY IInvAlways, <1>2, PTL DEF Spec, LeaseEndsByTtlOrOwner

\* A command never passes a key directly from core to core.
LEMMA ScriptPassesThroughFree ==
    ASSUME TypeOK, NEW c \in Cores, NEW b \in Agents,
           \/ ClaimScript(c, b)
           \/ RenewScript(c, b)
           \/ UNCHANGED <<lease, ttl, age>>
    PROVE  \A a \in Agents : lease'[a] = lease[a] \/ lease[a] = NoOwner
BY DEF ClaimScript, RenewScript, ClaimGrants, RenewGrants, Take, TypeOK

\* Neither does any other step.
LEMMA LeasePassesThroughFree ==
    ASSUME TypeOK, [Next]_vars, NEW a \in Agents
    PROVE  lease'[a] = lease[a] \/ lease'[a] = NoOwner \/ lease[a] = NoOwner
<1>1. ASSUME NEW d \in Cores, NEW b \in Agents,
             \/ ClaimEval(d, b) \/ ClaimError(d, b) \/ RenewEval(d, b) \/ RenewError(d, b)
      PROVE  lease'[a] = lease[a] \/ lease[a] = NoOwner
    BY <1>1, ScriptPassesThroughFree DEF ClaimEval, ClaimError, RenewEval, RenewError
<1>2. ASSUME NEW d \in Cores, NEW b \in Agents, ReleaseEval(d, b)
      PROVE  lease'[a] = lease[a] \/ lease'[a] = NoOwner
    BY <1>2 DEF ReleaseEval, ReleaseScript, TypeOK
<1>3. ASSUME NEW d \in Cores, NEW r \in inflight,
             ClaimReturn(d, r) \/ RenewReturn(d, r) \/ ReleaseReturn(d, r)
      PROVE  lease'[a] = lease[a]
    BY <1>3 DEF ClaimReturn, RenewReturn, ReleaseReturn
<1>4. ASSUME NEW d \in Cores, RoundStart(d) \/ ShutdownBegin(d) \/ Down(d) \/ Restart(d)
      PROVE  lease'[a] = lease[a]
    BY <1>4 DEF RoundStart, ShutdownBegin, Down, Restart
<1>5. ASSUME Tick PROVE lease'[a] = lease[a] \/ lease'[a] = NoOwner
    BY <1>5 DEF Tick
<1>6. QED
    BY <1>1, <1>2, <1>3, <1>4, <1>5 DEF Next, Heartbeat, Resync, Shutdown, vars

\* The agent leases implement the lease contract (the claim, renew and release
\* scripts and the heartbeat against LeaseContract.tla).
THEOREM OwnershipContract == Spec => ImplementsContract
<1>1. Init => Contract!Init
    BY DEF Init, Contract!Init, LeaseRelies, Fresh
<1>2. ASSUME IInv, IInv', [Next]_vars
      PROVE  Contract!Next
  <2>1. lease' \in [Agents -> Cores \cup {NoOwner}]
      BY <1>2 DEF IInv, TypeOK
  <2>2. ASSUME NEW r \in LeaseRelies' PROVE r \in Cores \X Agents /\ lease'[r[2]] = r[1]
      BY <1>2, <2>2 DEF LeaseRelies, Fresh, IInv, RecentCommandHolds
  <2>3. ASSUME NEW a \in Agents
        PROVE  Contract!Keeps(a) \/ Contract!Grants(a) \/ Contract!Frees(a)
    <3>1. CASE lease'[a] = NoOwner
        BY <2>2, <3>1 DEF Contract!Frees
    <3>2. CASE lease'[a] # NoOwner
        BY <1>2, <2>1, <3>2, LeasePassesThroughFree DEF IInv, Contract!Keeps, Contract!Grants
    <3>3. QED
        BY <3>1, <3>2
  <2>4. QED
      BY <2>1, <2>2, <2>3 DEF Contract!Next, Contract!Claims
<1>3. IInv /\ IInv' /\ [Next]_vars => [Contract!Next]_<<lease, LeaseRelies>>
    BY <1>2
<1>4. QED
    BY IInvAlways, <1>1, <1>3, PTL DEF Spec, ImplementsContract, Contract!Spec
=============================================================================
