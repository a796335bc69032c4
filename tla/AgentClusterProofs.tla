------------------------- MODULE AgentClusterProofs -------------------------
(* Proofs about the agent runtimes of a cluster: at most one core has an     *)
(* active runtime of an agent, for any number of cores, agents, crashes and  *)
(* shutdowns, as long as heartbeats are on time, no command raises and no    *)
(* message starts an agent on demand.                                        *)
EXTENDS AgentCluster, TLAPS

\* A core that is not up has neither a resync nor a handler under way, one that is
\* down has lost its memory.
OthersRest ==
    \A c \in Cores :
        /\ stage[c] # "up" => sync[c] = Idle /\ req[c] = IdleReq
        /\ stage[c] = "down" => /\ owned[c] = {} /\ beat[c] = Idle
                                /\ \A a \in Agents : inst[c][a] = "none"

\* A task that is busy is busy with an agent.
TasksAtAgents ==
    \A c \in Cores :
        /\ sync[c].at \in {"claimed", "create", "write"} => sync[c].agent \in Agents
        /\ beat[c].at \in {"renewed", "lost", "read"} => beat[c].agent \in Agents
        /\ req[c].at # "idle" => req[c].agent \in Agents

\* Undisturbed, a core that tracks an agent, or was just granted it, has the lease ...
TrackedIsLeased ==
    \A c \in Cores :
        /\ \A a \in owned[c] : lease[a] = c
        /\ sync[c].at = "claimed" /\ sync[c].ok => lease[sync[c].agent] = c
        /\ sync[c].at = "claimed" /\ ~sync[c].ok => sync[c].agent \notin owned[c]

\* ... its heartbeat finds every lease in place while it is up ...
BeatsSucceed ==
    \A c \in Cores : stage[c] = "up" =>
        /\ beat[c].todo \subseteq owned[c] /\ beat[c].at \notin {"lost", "read"}
        /\ beat[c].at = "renewed" => beat[c].ok

\* ... and what runs, or is about to, is tracked.
RunsTracked ==
    \A c \in Cores :
        /\ \A a \in Agents : Running(c, a) => a \in owned[c]
        /\ sync[c].at = "create" => sync[c].agent \in owned[c]
        /\ req[c].at = "idle"

CalmInv == TrackedIsLeased /\ BeatsSucceed /\ RunsTracked

IInv == TypeOK /\ OthersRest /\ TasksAtAgents /\ (disturbed = {} => CalmInv)

SyncType == [at : {"idle", "next", "claimed", "create", "write", "refresh"},
             todo : SUBSET Agents, agent : Agents \cup {NoAgent}, ok : BOOLEAN]
BeatType == [at : {"idle", "next", "renewed", "lost", "read"},
             todo : SUBSET Agents, agent : Agents \cup {NoAgent}, ok : BOOLEAN]
ReqType == [at : {"idle", "ensure", "create"}, agent : Agents \cup {NoAgent}]
RestOK ==
    /\ lease \in [Agents -> Cores \cup {NoOwner}]
    /\ registry \in [Agents -> Cores \cup {NoOwner}]
    /\ stage \in [Cores -> {"up", "stopping", "down"}]
    /\ owned \in [Cores -> SUBSET Agents]
    /\ inst \in [Cores -> [Agents -> {"none", "running", "stopped"}]]
    /\ subs \in [Cores -> SUBSET Agents]
    /\ disturbed \subseteq Disturbances /\ downs \in 0..MaxDowns

\* Putting the runtime of one agent into another state, or leaving it alone.
LEMMA PutRuntime ==
    ASSUME RestOK, NEW c \in Cores, NEW a \in Agents,
           NEW v \in {"none", "running", "stopped"}, inst' = [inst EXCEPT ![c][a] = v]
    PROVE  /\ inst' \in [Cores -> [Agents -> {"none", "running", "stopped"}]]
           /\ \A d \in Cores, b \in Agents :
                 inst'[d][b] = IF d = c /\ b = a THEN v ELSE inst[d][b]
BY DEF RestOK

LEMMA StopRuntime ==
    ASSUME RestOK, NEW c \in Cores, NEW a \in Agents, inst' = StoppedLocal(c, a)
    PROVE  /\ inst' \in [Cores -> [Agents -> {"none", "running", "stopped"}]]
           /\ \A d \in Cores, b \in Agents :
                 inst'[d][b] = "running" => inst[d][b] = "running" /\ ~(d = c /\ b = a)
           /\ \A d \in Cores : d # c => inst'[d] = inst[d]
<1>1. CASE inst[c][a] = "running"
  <2>1. inst' = [inst EXCEPT ![c][a] = "stopped"]
      BY <1>1 DEF StoppedLocal
  <2>2. QED
      BY <2>1 DEF RestOK
<1>2. CASE inst[c][a] # "running"
    BY <1>2 DEF StoppedLocal, RestOK
<1>3. QED
    BY <1>1, <1>2

LEMMA InitIInv == Init => IInv
<1> SUFFICES ASSUME Init PROVE IInv
    OBVIOUS
<1>1. TypeOK
    BY SentinelAssumption, BoundAssumption DEF Init, TypeOK, Idle, IdleReq
<1>2. OthersRest /\ TasksAtAgents
    BY DEF Init, OthersRest, TasksAtAgents, Idle, IdleReq
<1>3. CalmInv
    BY DEF Init, CalmInv, TrackedIsLeased, BeatsSucceed, RunsTracked, Running, Idle, IdleReq
<1>4. QED
    BY <1>1, <1>2, <1>3 DEF IInv

LEMMA StepIInv == IInv /\ [Next]_vars => IInv'
<1> SUFFICES ASSUME IInv, [Next]_vars PROVE IInv'
    OBVIOUS
<1> USE SentinelAssumption, BoundAssumption DEF IInv
<1>t. /\ RestOK /\ Idle \in SyncType /\ Idle \in BeatType /\ IdleReq \in ReqType
      /\ sync \in [Cores -> SyncType] /\ beat \in [Cores -> BeatType] /\ req \in [Cores -> ReqType]
    BY DEF TypeOK, RestOK, SyncType, BeatType, ReqType, Idle, IdleReq
<1>q. ASSUME RestOK', sync' \in [Cores -> SyncType], beat' \in [Cores -> BeatType],
             req' \in [Cores -> ReqType]
      PROVE  TypeOK'
    BY <1>q DEF TypeOK, RestOK, SyncType, BeatType, ReqType
<1>i. Idle.at = "idle" /\ Idle.todo = {} /\ IdleReq.at = "idle"
    BY DEF Idle, IdleReq
<1>1. ASSUME NEW c \in Cores, SyncStart(c) PROVE IInv'
  <2>1. TypeOK'
    <3>1. sync' \in [Cores -> SyncType]
        BY <1>1, <1>t DEF SyncStart, SyncType, tasks
    <3>2. beat' \in [Cores -> BeatType] /\ req' \in [Cores -> ReqType]
        BY <1>1, <1>t DEF SyncStart, BeatType, ReqType, tasks
    <3>3. RestOK'
        BY <1>1, <1>t DEF SyncStart, RestOK, core, bounds
    <3>4. QED
        BY <1>q, <3>1, <3>2, <3>3
  <2>2. OthersRest' /\ TasksAtAgents'
      BY <1>1, <1>t, <1>i DEF SyncStart, OthersRest, TasksAtAgents, core, tasks, bounds, RestOK
  <2>3. disturbed' = {} => CalmInv'
      BY <1>1, <1>t, <1>i DEF SyncStart, OthersRest, TasksAtAgents, CalmInv, TrackedIsLeased,
         BeatsSucceed, RunsTracked, Running, core, tasks, bounds, RestOK
  <2>4. QED
      BY <2>1, <2>2, <2>3
<1>2. ASSUME NEW c \in Cores, NEW a \in Agents, SyncClaim(c, a) PROVE IInv'
  <2>1. TypeOK'
    <3>1. sync' \in [Cores -> SyncType]
        BY <1>2, <1>t DEF SyncClaim, AfterClaim, ClaimGrants, SyncType, tasks
    <3>2. beat' \in [Cores -> BeatType] /\ req' \in [Cores -> ReqType]
        BY <1>2, <1>t DEF SyncClaim, AfterClaim, ClaimGrants, BeatType, ReqType, tasks
    <3>3. RestOK'
        BY <1>2, <1>t DEF SyncClaim, AfterClaim, ClaimGrants, RestOK, core, bounds
    <3>4. QED
        BY <1>q, <3>1, <3>2, <3>3
  <2>2. OthersRest' /\ TasksAtAgents'
      BY <1>2, <1>t, <1>i DEF SyncClaim, AfterClaim, ClaimGrants, OthersRest, TasksAtAgents, core,
         tasks, bounds, RestOK
  <2>3. disturbed' = {} => CalmInv'
    <3>1. SUFFICES ASSUME disturbed' = {} PROVE CalmInv'
        OBVIOUS
    <3>2. CalmInv /\ sync[c].at = "next" /\ stage[c] = "up"
        BY <1>2, <1>t, <1>i, <3>1 DEF SyncClaim, bounds, OthersRest
    <3>3. /\ \A d \in Cores : d # c => sync'[d] = sync[d]
          /\ sync'[c].at = "claimed" /\ sync'[c].agent = a
          /\ UNCHANGED <<stage, owned, inst, beat, req>>
        BY <1>2, <1>t DEF SyncClaim, core
    <3>4. \A d \in Cores : owned[d] \subseteq Agents
        BY <1>t DEF RestOK
    <3>5. BeatsSucceed' /\ RunsTracked'
        BY <3>2, <3>3 DEF CalmInv, BeatsSucceed, RunsTracked, Running
    <3>6. CASE ClaimGrants(lease[a], c)
      <4>1. /\ lease'[a] = c /\ \A b \in Agents : b # a => lease'[b] = lease[b]
            /\ lease[a] \in {NoOwner, c}
          BY <1>2, <1>t, <3>6 DEF SyncClaim, AfterClaim, ClaimGrants, RestOK
      <4>2. ClaimGrants(lease[a], c) = TRUE
          BY <3>6 DEF ClaimGrants
      <4>3. sync'[c] = [at |-> "claimed", todo |-> sync[c].todo \ {a}, agent |-> a, ok |-> TRUE]
          BY <1>2, <1>t, <4>2 DEF SyncClaim
      <4>4. sync'[c].ok
          BY <4>3
      <4>5. TrackedIsLeased'
          BY <3>2, <3>3, <3>4, <4>1, <4>4 DEF CalmInv, TrackedIsLeased, TasksAtAgents
      <4>6. QED
          BY <3>5, <4>5 DEF CalmInv
    <3>7. CASE ~ClaimGrants(lease[a], c)
      <4>1. lease' = lease /\ lease[a] # c
          BY <1>2, <1>t, <3>7 DEF SyncClaim, AfterClaim, ClaimGrants, RestOK
      <4>2. ClaimGrants(lease[a], c) = FALSE
          BY <3>7 DEF ClaimGrants
      <4>3. sync'[c] = [at |-> "claimed", todo |-> sync[c].todo \ {a}, agent |-> a, ok |-> FALSE]
          BY <1>2, <1>t, <4>2 DEF SyncClaim
      <4>4. ~sync'[c].ok
          BY <4>3
      <4>5. TrackedIsLeased'
          BY <3>2, <3>3, <4>1, <4>4 DEF CalmInv, TrackedIsLeased
      <4>6. QED
          BY <3>5, <4>5 DEF CalmInv
    <3>8. QED
        BY <3>6, <3>7
  <2>4. QED
      BY <2>1, <2>2, <2>3
<1>3. ASSUME NEW c \in Cores, NEW a \in Agents, SyncClaimError(c, a) PROVE IInv'
  <2>1. TypeOK'
    <3>1. sync' \in [Cores -> SyncType]
        BY <1>3, <1>t DEF SyncClaimError, AfterClaim, ClaimGrants, Disturb, SyncType, tasks
    <3>2. beat' \in [Cores -> BeatType] /\ req' \in [Cores -> ReqType]
        BY <1>3, <1>t DEF SyncClaimError, AfterClaim, ClaimGrants, Disturb, BeatType, ReqType, tasks
    <3>3. RestOK'
        BY <1>3, <1>t DEF SyncClaimError, AfterClaim, ClaimGrants, Disturb, RestOK, core, bounds
    <3>4. QED
        BY <1>q, <3>1, <3>2, <3>3
  <2>2. OthersRest' /\ TasksAtAgents'
      BY <1>3, <1>t, <1>i DEF SyncClaimError, AfterClaim, ClaimGrants, Disturb, OthersRest,
         TasksAtAgents, core, tasks, bounds, RestOK
  <2>3. disturbed' = {} => CalmInv'
      BY <1>3, <1>t, <1>i DEF SyncClaimError, AfterClaim, ClaimGrants, Disturb, OthersRest,
         TasksAtAgents, CalmInv, TrackedIsLeased, BeatsSucceed, RunsTracked, Running, core, tasks,
         bounds, RestOK
  <2>4. QED
      BY <2>1, <2>2, <2>3
<1>4. ASSUME NEW c \in Cores, SyncRefused(c) PROVE IInv'
  <2>b. sync[c].agent \in Agents /\ stage[c] = "up" /\ sync[c].at = "claimed" /\ ~sync[c].ok
      BY <1>4, <1>i DEF SyncRefused, TasksAtAgents, OthersRest
  <2>u. /\ inst' \in [Cores -> [Agents -> {"none", "running", "stopped"}]]
        /\ \A d \in Cores, b \in Agents :
              inst'[d][b] = "running" => inst[d][b] = "running" /\ ~(d = c /\ b = sync[c].agent)
        /\ \A d \in Cores : d # c => inst'[d] = inst[d]
      BY <1>4, <1>t, <2>b, StopRuntime DEF SyncRefused, AfterRefusal
  <2>s. /\ sync' \in [Cores -> SyncType] /\ \A d \in Cores : d # c => sync'[d] = sync[d]
        /\ sync'[c].at = "next"
        /\ UNCHANGED <<lease, registry, stage, subs, beat, req, disturbed, downs>>
      BY <1>4, <1>t DEF SyncRefused, SyncType, bounds
  <2>o. /\ owned' \in [Cores -> SUBSET Agents] /\ \A d \in Cores : d # c => owned'[d] = owned[d]
        /\ owned'[c] = owned[c] \ {sync[c].agent}
      BY <1>4, <1>t DEF SyncRefused, RestOK
  <2>1. TypeOK'
    <3>1. RestOK'
        BY <1>4, <1>t, <2>s, <2>u, <2>o DEF SyncRefused, RestOK, core, bounds
    <3>2. QED
        BY <1>q, <1>t, <2>s, <3>1
  <2>2. OthersRest' /\ TasksAtAgents'
    <3>1. OthersRest /\ TasksAtAgents
        BY <1>i
    <3>2. \A d \in Cores : d # c => inst'[d] = inst[d] /\ sync'[d] = sync[d] /\ owned'[d] = owned[d]
        BY <2>u, <2>s, <2>o
    <3>3. OthersRest'
        BY <2>b, <2>s, <3>1, <3>2 DEF OthersRest
    <3>4. UNCHANGED <<beat, req>> /\ sync'[c].at = "next"
        BY <2>s
    <3>5. TasksAtAgents'
        BY <3>1, <3>2, <3>4 DEF TasksAtAgents
    <3>6. QED
        BY <3>3, <3>5
  <2>3. disturbed' = {} => CalmInv'
    <3>1. SUFFICES ASSUME disturbed' = {} PROVE CalmInv'
        OBVIOUS
    <3>2. CalmInv
        BY <2>s, <3>1
    <3>3. sync[c].agent \notin owned[c]
        BY <2>b, <3>2 DEF CalmInv, TrackedIsLeased
    <3>4. owned' = owned
        BY <1>4, <1>t, <3>3 DEF SyncRefused, RestOK
    <3>5. TrackedIsLeased' /\ BeatsSucceed'
        BY <2>s, <3>2, <3>4 DEF CalmInv, TrackedIsLeased, BeatsSucceed
    <3>6. RunsTracked'
        BY <2>s, <2>u, <3>2, <3>4 DEF CalmInv, RunsTracked, Running
    <3>7. QED
        BY <3>5, <3>6 DEF CalmInv
  <2>4. QED
      BY <2>1, <2>2, <2>3
<1>5. ASSUME NEW c \in Cores, SyncGranted(c) PROVE IInv'
  <2>b. sync[c].agent \in Agents /\ stage[c] = "up" /\ sync[c].at = "claimed" /\ sync[c].ok
      BY <1>5, <1>i DEF SyncGranted, TasksAtAgents, OthersRest
  <2>u. /\ inst' \in [Cores -> [Agents -> {"none", "running", "stopped"}]]
        /\ \A d \in Cores : d # c => inst'[d] = inst[d]
        /\ \A b \in Agents : b # sync[c].agent => inst'[c][b] = inst[c][b]
    <3>1. CASE inst' = inst
        BY <1>t, <3>1 DEF RestOK
    <3>2. CASE inst' = Started(c, sync[c].agent)
        BY <1>t, <2>b, <3>2 DEF Started, RestOK
    <3>3. QED
        BY <1>5, <3>1, <3>2 DEF SyncGranted
  <2>s. /\ sync' \in [Cores -> SyncType] /\ \A d \in Cores : d # c => sync'[d] = sync[d]
        /\ sync'[c].at \in {"create", "write"} /\ sync'[c].agent = sync[c].agent
        /\ UNCHANGED <<lease, registry, stage, subs, beat, req, disturbed, downs>>
      BY <1>5, <1>t DEF SyncGranted, SyncType, bounds
  <2>o. /\ owned' \in [Cores -> SUBSET Agents] /\ \A d \in Cores : d # c => owned'[d] = owned[d]
        /\ owned'[c] = owned[c] \cup {sync[c].agent}
      BY <1>5, <1>t, <2>b DEF SyncGranted, RestOK
  <2>1. TypeOK'
    <3>1. RestOK'
        BY <1>5, <1>t, <2>s, <2>u, <2>o DEF SyncGranted, RestOK, core, bounds
    <3>2. QED
        BY <1>q, <1>t, <2>s, <3>1
  <2>2. OthersRest' /\ TasksAtAgents'
    <3>1. OthersRest /\ TasksAtAgents
        BY <1>i
    <3>2. OthersRest'
        BY <2>b, <2>u, <2>s, <2>o, <3>1 DEF OthersRest
    <3>3. \A d \in Cores : d # c => sync'[d] = sync[d]
        BY <2>s
    <3>4. UNCHANGED <<beat, req>> /\ sync'[c].agent \in Agents
        BY <2>b, <2>s
    <3>5. TasksAtAgents'
        BY <3>1, <3>3, <3>4 DEF TasksAtAgents
    <3>6. QED
        BY <3>2, <3>5
  <2>3. disturbed' = {} => CalmInv'
    <3>1. SUFFICES ASSUME disturbed' = {} PROVE CalmInv'
        OBVIOUS
    <3>2. CalmInv
        BY <2>s, <3>1
    <3>3. lease[sync[c].agent] = c
        BY <2>b, <3>2 DEF CalmInv, TrackedIsLeased
    <3>4. TrackedIsLeased'
        BY <2>s, <2>o, <3>2, <3>3 DEF CalmInv, TrackedIsLeased
    <3>5. BeatsSucceed'
        BY <2>s, <2>o, <3>2 DEF CalmInv, BeatsSucceed
    <3>6. RunsTracked'
        BY <2>b, <2>s, <2>u, <2>o, <3>2 DEF CalmInv, RunsTracked, Running
    <3>7. QED
        BY <3>4, <3>5, <3>6 DEF CalmInv
  <2>4. QED
      BY <2>1, <2>2, <2>3
<1>6. ASSUME NEW c \in Cores, SyncCreated(c) PROVE IInv'
  <2>1. TypeOK'
    <3>1. sync' \in [Cores -> SyncType]
        BY <1>6, <1>t DEF SyncCreated, Started, SyncType, tasks
    <3>2. beat' \in [Cores -> BeatType] /\ req' \in [Cores -> ReqType]
        BY <1>6, <1>t DEF SyncCreated, Started, BeatType, ReqType, tasks
    <3>3. RestOK'
        BY <1>6, <1>t DEF SyncCreated, Started, RestOK, core, bounds
    <3>4. QED
        BY <1>q, <3>1, <3>2, <3>3
  <2>2. OthersRest' /\ TasksAtAgents'
      BY <1>6, <1>t, <1>i DEF SyncCreated, Started, OthersRest, TasksAtAgents, core, tasks,
         bounds, RestOK
  <2>3. disturbed' = {} => CalmInv'
      BY <1>6, <1>t, <1>i DEF SyncCreated, Started, OthersRest, TasksAtAgents, CalmInv,
         TrackedIsLeased, BeatsSucceed, RunsTracked, Running, core, tasks, bounds, RestOK
  <2>4. QED
      BY <2>1, <2>2, <2>3
<1>7. ASSUME NEW c \in Cores, SyncWrite(c) PROVE IInv'
  <2>1. TypeOK'
    <3>1. sync' \in [Cores -> SyncType]
        BY <1>7, <1>t DEF SyncWrite, SyncType, tasks
    <3>2. beat' \in [Cores -> BeatType] /\ req' \in [Cores -> ReqType]
        BY <1>7, <1>t DEF SyncWrite, BeatType, ReqType, tasks
    <3>3. RestOK'
        BY <1>7, <1>t DEF SyncWrite, RestOK, core, bounds
    <3>4. QED
        BY <1>q, <3>1, <3>2, <3>3
  <2>2. OthersRest' /\ TasksAtAgents'
      BY <1>7, <1>t, <1>i DEF SyncWrite, OthersRest, TasksAtAgents, core, tasks, bounds, RestOK
  <2>3. disturbed' = {} => CalmInv'
      BY <1>7, <1>t, <1>i DEF SyncWrite, OthersRest, TasksAtAgents, CalmInv, TrackedIsLeased,
         BeatsSucceed, RunsTracked, Running, core, tasks, bounds, RestOK
  <2>4. QED
      BY <2>1, <2>2, <2>3
<1>8. ASSUME NEW c \in Cores, SyncDone(c) PROVE IInv'
  <2>1. TypeOK'
    <3>1. sync' \in [Cores -> SyncType]
        BY <1>8, <1>t DEF SyncDone, SyncType, tasks
    <3>2. beat' \in [Cores -> BeatType] /\ req' \in [Cores -> ReqType]
        BY <1>8, <1>t DEF SyncDone, BeatType, ReqType, tasks
    <3>3. RestOK'
        BY <1>8, <1>t DEF SyncDone, RestOK, core, bounds
    <3>4. QED
        BY <1>q, <3>1, <3>2, <3>3
  <2>2. OthersRest' /\ TasksAtAgents'
      BY <1>8, <1>t, <1>i DEF SyncDone, OthersRest, TasksAtAgents, core, tasks, bounds, RestOK
  <2>3. disturbed' = {} => CalmInv'
      BY <1>8, <1>t, <1>i DEF SyncDone, OthersRest, TasksAtAgents, CalmInv, TrackedIsLeased,
         BeatsSucceed, RunsTracked, Running, core, tasks, bounds, RestOK
  <2>4. QED
      BY <2>1, <2>2, <2>3
<1>9. ASSUME NEW c \in Cores, Refresh(c) PROVE IInv'
  <2>1. TypeOK'
    <3>1. sync' \in [Cores -> SyncType]
        BY <1>9, <1>t DEF Refresh, Subscribed, SyncType, tasks
    <3>2. beat' \in [Cores -> BeatType] /\ req' \in [Cores -> ReqType]
        BY <1>9, <1>t DEF Refresh, Subscribed, BeatType, ReqType, tasks
    <3>3. RestOK'
        BY <1>9, <1>t DEF Refresh, Subscribed, RestOK, core, bounds
    <3>4. QED
        BY <1>q, <3>1, <3>2, <3>3
  <2>2. OthersRest' /\ TasksAtAgents'
      BY <1>9, <1>t, <1>i DEF Refresh, Subscribed, OthersRest, TasksAtAgents, core, tasks, bounds,
         RestOK
  <2>3. disturbed' = {} => CalmInv'
      BY <1>9, <1>t, <1>i DEF Refresh, Subscribed, OthersRest, TasksAtAgents, CalmInv,
         TrackedIsLeased, BeatsSucceed, RunsTracked, Running, core, tasks, bounds, RestOK
  <2>4. QED
      BY <2>1, <2>2, <2>3
<1>10. ASSUME NEW c \in Cores, NEW a \in Agents, RefreshError(c, a) PROVE IInv'
  <2>1. TypeOK'
    <3>1. sync' \in [Cores -> SyncType]
        BY <1>10, <1>t DEF RefreshError, Subscribed, Disturb, SyncType, tasks
    <3>2. beat' \in [Cores -> BeatType] /\ req' \in [Cores -> ReqType]
        BY <1>10, <1>t DEF RefreshError, Subscribed, Disturb, BeatType, ReqType, tasks
    <3>3. RestOK'
        BY <1>10, <1>t DEF RefreshError, Subscribed, Disturb, RestOK, core, bounds
    <3>4. QED
        BY <1>q, <3>1, <3>2, <3>3
  <2>2. OthersRest' /\ TasksAtAgents'
      BY <1>10, <1>t, <1>i DEF RefreshError, Subscribed, Disturb, OthersRest, TasksAtAgents, core,
         tasks, bounds, RestOK
  <2>3. disturbed' = {} => CalmInv'
      BY <1>10, <1>t, <1>i DEF RefreshError, Subscribed, Disturb, OthersRest, TasksAtAgents,
         CalmInv, TrackedIsLeased, BeatsSucceed, RunsTracked, Running, core, tasks, bounds, RestOK
  <2>4. QED
      BY <2>1, <2>2, <2>3
<1>11. ASSUME NEW c \in Cores, BeatStart(c) PROVE IInv'
  <2>1. TypeOK'
    <3>1. owned[c] \in SUBSET Agents
        BY <1>t DEF RestOK
    <3>2. beat' \in [Cores -> BeatType]
        BY <1>11, <1>t, <3>1 DEF BeatStart, BeatType
    <3>3. UNCHANGED <<lease, registry, stage, owned, inst, subs, sync, req, disturbed, downs>>
        BY <1>11 DEF BeatStart, core, bounds
    <3>4. QED
        BY <1>q, <1>t, <3>2, <3>3 DEF RestOK
  <2>2. OthersRest' /\ TasksAtAgents'
      BY <1>11, <1>t, <1>i DEF BeatStart, OthersRest, TasksAtAgents, core, tasks, bounds, RestOK
  <2>3. disturbed' = {} => CalmInv'
      BY <1>11, <1>t, <1>i DEF BeatStart, OthersRest, TasksAtAgents, CalmInv, TrackedIsLeased,
         BeatsSucceed, RunsTracked, Running, core, tasks, bounds, RestOK
  <2>4. QED
      BY <2>1, <2>2, <2>3
<1>12. ASSUME NEW c \in Cores, NEW a \in Agents, BeatRenew(c, a) PROVE IInv'
  <2>1. TypeOK'
    <3>1. sync' \in [Cores -> SyncType]
        BY <1>12, <1>t DEF BeatRenew, RenewGrants, SyncType, tasks
    <3>2. beat' \in [Cores -> BeatType] /\ req' \in [Cores -> ReqType]
        BY <1>12, <1>t DEF BeatRenew, RenewGrants, BeatType, ReqType, tasks
    <3>3. RestOK'
        BY <1>12, <1>t DEF BeatRenew, RenewGrants, RestOK, core, bounds
    <3>4. QED
        BY <1>q, <3>1, <3>2, <3>3
  <2>2. OthersRest' /\ TasksAtAgents'
      BY <1>12, <1>t, <1>i DEF BeatRenew, RenewGrants, OthersRest, TasksAtAgents, core, tasks,
         bounds, RestOK
  <2>3. disturbed' = {} => CalmInv'
    <3>1. SUFFICES ASSUME disturbed' = {} PROVE CalmInv'
        OBVIOUS
    <3>2. CalmInv /\ a \in beat[c].todo
        BY <1>12, <3>1 DEF BeatRenew, bounds
    <3>3. /\ \A d \in Cores : d # c => beat'[d] = beat[d]
          /\ beat'[c].at = "renewed" /\ beat'[c].todo = beat[c].todo \ {a}
          /\ UNCHANGED <<lease, stage, owned, inst, sync, req>>
        BY <1>12, <1>t DEF BeatRenew, core
    <3>4. ASSUME stage[c] = "up" PROVE beat'[c].ok
      <4>1. lease[a] = c
          BY <3>2, <3>4 DEF CalmInv, BeatsSucceed, TrackedIsLeased
      <4>2. RenewGrants(lease[a], c) = TRUE
          BY <4>1 DEF RenewGrants
      <4>3. beat'[c] = [at |-> "renewed", todo |-> beat[c].todo \ {a}, agent |-> a, ok |-> TRUE]
          BY <1>12, <1>t, <4>2 DEF BeatRenew
      <4>4. QED
          BY <4>3
    <3>5. BeatsSucceed'
        BY <3>2, <3>3, <3>4 DEF CalmInv, BeatsSucceed
    <3>6. QED
        BY <3>2, <3>3, <3>5 DEF CalmInv, TrackedIsLeased, RunsTracked, Running
  <2>4. QED
      BY <2>1, <2>2, <2>3
<1>13. ASSUME NEW c \in Cores, BeatRenewed(c) PROVE IInv'
  <2>s. /\ \A d \in Cores : d # c => beat'[d] = beat[d] /\ owned'[d] = owned[d]
        /\ beat'[c].at \in {"next", "lost"} /\ beat'[c].todo = beat[c].todo
        /\ beat'[c].at = "lost" => ~beat[c].ok /\ beat'[c].agent = beat[c].agent
        /\ beat[c].at = "renewed"
        /\ owned' \in [Cores -> SUBSET Agents]
        /\ UNCHANGED <<lease, stage, inst, sync, req, disturbed>>
    <3>1. CASE beat[c].ok
        BY <1>13, <1>t, <3>1 DEF BeatRenewed, BeatType, RestOK, bounds
    <3>2. CASE ~beat[c].ok
        BY <1>13, <1>t, <3>2 DEF BeatRenewed, BeatType, RestOK, bounds
    <3>3. QED
        BY <3>1, <3>2
  <2>1. TypeOK'
    <3>1. sync' \in [Cores -> SyncType]
        BY <1>13, <1>t DEF BeatRenewed, SyncType, tasks
    <3>2. beat' \in [Cores -> BeatType] /\ req' \in [Cores -> ReqType]
        BY SMTT(40), <1>13, <1>t DEF BeatRenewed, BeatType, ReqType, tasks
    <3>3. RestOK'
        BY <1>13, <1>t DEF BeatRenewed, RestOK, core, bounds
    <3>4. QED
        BY <1>q, <3>1, <3>2, <3>3
  <2>2. OthersRest' /\ TasksAtAgents'
    <3>1. stage[c] # "down" /\ beat[c].agent \in Agents
        BY <2>s, <1>i DEF OthersRest, TasksAtAgents
    <3>2. QED
        BY <2>s, <3>1 DEF OthersRest, TasksAtAgents
  <2>3. disturbed' = {} => CalmInv'
    <3>1. SUFFICES ASSUME disturbed' = {} PROVE CalmInv'
        OBVIOUS
    <3>2. CalmInv
        BY <2>s, <3>1
    <3>3. CASE beat[c].ok
      <4>1. owned' = owned
          BY <1>13, <3>3 DEF BeatRenewed
      <4>2. QED
          BY <2>s, <3>2, <3>3, <4>1
             DEF CalmInv, TrackedIsLeased, BeatsSucceed, RunsTracked, Running
    <3>4. CASE ~beat[c].ok
      <4>1. stage[c] # "up"
          BY <2>s, <3>2, <3>4 DEF CalmInv, BeatsSucceed
      <4>2. owned'[c] \subseteq owned[c]
          BY <1>13, <1>t, <3>4 DEF BeatRenewed, RestOK
      <4>3. sync[c].at = "idle"
          BY <4>1, <1>i DEF OthersRest
      <4>4. QED
          BY <2>s, <3>2, <4>1, <4>2, <4>3
             DEF CalmInv, TrackedIsLeased, BeatsSucceed, RunsTracked, Running
    <3>5. QED
        BY <3>3, <3>4
  <2>4. QED
      BY <2>1, <2>2, <2>3
<1>14. ASSUME NEW c \in Cores, NEW a \in Agents, BeatRenewError(c, a) PROVE IInv'
  <2>1. TypeOK'
    <3>1. sync' \in [Cores -> SyncType]
        BY <1>14, <1>t DEF BeatRenewError, Disturb, SyncType, tasks
    <3>2. beat' \in [Cores -> BeatType] /\ req' \in [Cores -> ReqType]
        BY <1>14, <1>t DEF BeatRenewError, Disturb, BeatType, ReqType, tasks
    <3>3. RestOK'
        BY <1>14, <1>t DEF BeatRenewError, Disturb, RestOK, core, bounds
    <3>4. QED
        BY <1>q, <3>1, <3>2, <3>3
  <2>2. OthersRest' /\ TasksAtAgents'
      BY <1>14, <1>t, <1>i DEF BeatRenewError, Disturb, OthersRest, TasksAtAgents, core, tasks,
         bounds, RestOK
  <2>3. disturbed' = {} => CalmInv'
      BY <1>14, <1>t, <1>i DEF BeatRenewError, Disturb, OthersRest, TasksAtAgents, CalmInv,
         TrackedIsLeased, BeatsSucceed, RunsTracked, Running, core, tasks, bounds, RestOK
  <2>4. QED
      BY <2>1, <2>2, <2>3
<1>15. ASSUME NEW c \in Cores, LostRead(c) PROVE IInv'
  <2>1. TypeOK'
    <3>1. sync' \in [Cores -> SyncType]
        BY <1>15, <1>t DEF LostRead, SyncType, tasks
    <3>2. beat' \in [Cores -> BeatType] /\ req' \in [Cores -> ReqType]
        BY <1>15, <1>t DEF LostRead, BeatType, ReqType, tasks
    <3>3. RestOK'
        BY <1>15, <1>t DEF LostRead, RestOK, core, bounds
    <3>4. QED
        BY <1>q, <3>1, <3>2, <3>3
  <2>2. OthersRest' /\ TasksAtAgents'
      BY <1>15, <1>t, <1>i DEF LostRead, OthersRest, TasksAtAgents, core, tasks, bounds, RestOK
  <2>3. disturbed' = {} => CalmInv'
      BY <1>15, <1>t, <1>i DEF LostRead, OthersRest, TasksAtAgents, CalmInv, TrackedIsLeased,
         BeatsSucceed, RunsTracked, Running, core, tasks, bounds, RestOK
  <2>4. QED
      BY <2>1, <2>2, <2>3
<1>16. ASSUME NEW c \in Cores, LostStop(c) PROVE IInv'
  <2>b. beat[c].agent \in Agents /\ beat[c].at = "read" /\ stage[c] # "down"
      BY <1>16, <1>i DEF LostStop, TasksAtAgents, OthersRest
  <2>u. /\ inst' \in [Cores -> [Agents -> {"none", "running", "stopped"}]]
        /\ \A d \in Cores, b \in Agents : inst'[d][b] = "running" => inst[d][b] = "running"
        /\ \A d \in Cores : d # c => inst'[d] = inst[d]
    <3>1. CASE beat[c].ok
        BY <1>16, <1>t, <3>1 DEF LostStop, RestOK
    <3>2. CASE ~beat[c].ok
        BY <1>16, <1>t, <2>b, <3>2, StopRuntime DEF LostStop
    <3>3. QED
        BY <3>1, <3>2
  <2>s. /\ beat' \in [Cores -> BeatType] /\ \A d \in Cores : d # c => beat'[d] = beat[d]
        /\ beat'[c].at = "next" /\ beat'[c].todo = beat[c].todo
        /\ UNCHANGED <<lease, registry, stage, owned, subs, sync, req, disturbed, downs>>
      BY <1>16, <1>t DEF LostStop, BeatType, bounds
  <2>1. TypeOK'
    <3>1. RestOK'
        BY <1>16, <1>t, <2>s, <2>u DEF LostStop, RestOK, core, bounds
    <3>2. QED
        BY <1>q, <1>t, <2>s, <3>1
  <2>2. OthersRest' /\ TasksAtAgents'
      BY <2>b, <2>u, <2>s DEF OthersRest, TasksAtAgents
  <2>3. disturbed' = {} => CalmInv'
      BY <2>b, <2>u, <2>s DEF CalmInv, TrackedIsLeased, BeatsSucceed, RunsTracked, Running
  <2>4. QED
      BY <2>1, <2>2, <2>3
<1>17. ASSUME NEW c \in Cores, BeatDone(c) PROVE IInv'
  <2>1. TypeOK'
    <3>1. sync' \in [Cores -> SyncType]
        BY <1>17, <1>t DEF BeatDone, SyncType, tasks
    <3>2. beat' \in [Cores -> BeatType] /\ req' \in [Cores -> ReqType]
        BY <1>17, <1>t DEF BeatDone, BeatType, ReqType, tasks
    <3>3. RestOK'
        BY <1>17, <1>t DEF BeatDone, RestOK, core, bounds
    <3>4. QED
        BY <1>q, <3>1, <3>2, <3>3
  <2>2. OthersRest' /\ TasksAtAgents'
      BY <1>17, <1>t, <1>i DEF BeatDone, OthersRest, TasksAtAgents, core, tasks, bounds, RestOK
  <2>3. disturbed' = {} => CalmInv'
      BY <1>17, <1>t, <1>i DEF BeatDone, OthersRest, TasksAtAgents, CalmInv, TrackedIsLeased,
         BeatsSucceed, RunsTracked, Running, core, tasks, bounds, RestOK
  <2>4. QED
      BY <2>1, <2>2, <2>3
<1>18. ASSUME NEW c \in Cores, NEW a \in Agents, Request(c, a) PROVE IInv'
  <2>1. TypeOK'
    <3>1. sync' \in [Cores -> SyncType]
        BY <1>18, <1>t DEF Request, Disturb, SyncType, tasks
    <3>2. beat' \in [Cores -> BeatType] /\ req' \in [Cores -> ReqType]
        BY <1>18, <1>t DEF Request, Disturb, BeatType, ReqType, tasks
    <3>3. RestOK'
        BY <1>18, <1>t DEF Request, Disturb, RestOK, core, bounds
    <3>4. QED
        BY <1>q, <3>1, <3>2, <3>3
  <2>2. OthersRest' /\ TasksAtAgents'
      BY <1>18, <1>t, <1>i DEF Request, Disturb, OthersRest, TasksAtAgents, core, tasks, bounds,
         RestOK
  <2>3. disturbed' = {} => CalmInv'
      BY <1>18, <1>t, <1>i DEF Request, Disturb, OthersRest, TasksAtAgents, CalmInv,
         TrackedIsLeased, BeatsSucceed, RunsTracked, Running, core, tasks, bounds, RestOK
  <2>4. QED
      BY <2>1, <2>2, <2>3
<1>19. ASSUME NEW c \in Cores, Ensure(c) PROVE IInv'
  <2>b. req[c].agent \in Agents /\ req[c].at = "ensure" /\ stage[c] = "up"
      BY <1>19, <1>i DEF Ensure, TasksAtAgents, OthersRest
  <2>u. /\ inst' \in [Cores -> [Agents -> {"none", "running", "stopped"}]]
        /\ \A d \in Cores : d # c => inst'[d] = inst[d]
        /\ \A b \in Agents : b # req[c].agent => inst'[c][b] = inst[c][b]
    <3>1. CASE inst' = inst
        BY <1>t, <3>1 DEF RestOK
    <3>2. CASE inst' = Started(c, req[c].agent)
        BY <1>t, <2>b, <3>2 DEF Started, RestOK
    <3>3. QED
        BY <1>19, <3>1, <3>2 DEF Ensure
  <2>s. /\ req' \in [Cores -> ReqType] /\ \A d \in Cores : d # c => req'[d] = req[d]
        /\ req'[c].at # "idle" => req'[c].agent \in Agents
        /\ UNCHANGED <<lease, registry, stage, owned, subs, sync, beat, disturbed, downs>>
      BY <1>19, <1>t, <2>b, <1>i DEF Ensure, ReqType, bounds
  <2>1. TypeOK'
    <3>1. RestOK'
        BY <1>19, <1>t, <2>s, <2>u DEF Ensure, RestOK, core, bounds
    <3>2. QED
        BY <1>q, <1>t, <2>s, <3>1
  <2>2. OthersRest' /\ TasksAtAgents'
      BY <2>b, <2>u, <2>s DEF OthersRest, TasksAtAgents
  <2>3. disturbed' = {} => CalmInv'
      BY <2>b, <2>s DEF CalmInv, RunsTracked
  <2>4. QED
      BY <2>1, <2>2, <2>3
<1>20. ASSUME NEW c \in Cores, EnsureCreated(c) PROVE IInv'
  <2>1. TypeOK'
    <3>1. sync' \in [Cores -> SyncType]
        BY <1>20, <1>t DEF EnsureCreated, Started, SyncType, tasks
    <3>2. beat' \in [Cores -> BeatType] /\ req' \in [Cores -> ReqType]
        BY <1>20, <1>t DEF EnsureCreated, Started, BeatType, ReqType, tasks
    <3>3. RestOK'
        BY <1>20, <1>t DEF EnsureCreated, Started, RestOK, core, bounds
    <3>4. QED
        BY <1>q, <3>1, <3>2, <3>3
  <2>2. OthersRest' /\ TasksAtAgents'
      BY <1>20, <1>t, <1>i DEF EnsureCreated, Started, OthersRest, TasksAtAgents, core, tasks,
         bounds, RestOK
  <2>3. disturbed' = {} => CalmInv'
      BY <1>20, <1>t, <1>i DEF EnsureCreated, Started, OthersRest, TasksAtAgents, CalmInv,
         TrackedIsLeased, BeatsSucceed, RunsTracked, Running, core, tasks, bounds, RestOK
  <2>4. QED
      BY <2>1, <2>2, <2>3
<1>21. ASSUME NEW c \in Cores, NEW a \in Agents, RegistryBeat(c, a) PROVE IInv'
  <2>1. TypeOK'
    <3>1. sync' \in [Cores -> SyncType]
        BY <1>21, <1>t DEF RegistryBeat, SyncType, tasks
    <3>2. beat' \in [Cores -> BeatType] /\ req' \in [Cores -> ReqType]
        BY <1>21, <1>t DEF RegistryBeat, BeatType, ReqType, tasks
    <3>3. RestOK'
        BY <1>21, <1>t DEF RegistryBeat, RestOK, core, bounds
    <3>4. QED
        BY <1>q, <3>1, <3>2, <3>3
  <2>2. OthersRest' /\ TasksAtAgents'
      BY <1>21, <1>t, <1>i DEF RegistryBeat, OthersRest, TasksAtAgents, core, tasks, bounds, RestOK
  <2>3. disturbed' = {} => CalmInv'
      BY <1>21, <1>t, <1>i DEF RegistryBeat, OthersRest, TasksAtAgents, CalmInv, TrackedIsLeased,
         BeatsSucceed, RunsTracked, Running, core, tasks, bounds, RestOK
  <2>4. QED
      BY <2>1, <2>2, <2>3
<1>22. ASSUME NEW c \in Cores, StopBegin(c) PROVE IInv'
  <2>1. TypeOK'
    <3>1. sync' \in [Cores -> SyncType]
        BY <1>22, <1>t DEF StopBegin, CountDown, SyncType, tasks
    <3>2. beat' \in [Cores -> BeatType] /\ req' \in [Cores -> ReqType]
        BY <1>22, <1>t DEF StopBegin, CountDown, BeatType, ReqType, tasks
    <3>3. RestOK'
        BY <1>22, <1>t DEF StopBegin, CountDown, RestOK, core, bounds
    <3>4. QED
        BY <1>q, <3>1, <3>2, <3>3
  <2>2. OthersRest' /\ TasksAtAgents'
      BY <1>22, <1>t, <1>i DEF StopBegin, CountDown, OthersRest, TasksAtAgents, core, tasks,
         bounds, RestOK
  <2>3. disturbed' = {} => CalmInv'
      BY <1>22, <1>t, <1>i DEF StopBegin, CountDown, OthersRest, TasksAtAgents, CalmInv,
         TrackedIsLeased, BeatsSucceed, RunsTracked, Running, core, tasks, bounds, RestOK
  <2>4. QED
      BY <2>1, <2>2, <2>3
<1>23. ASSUME NEW c \in Cores, NEW a \in Agents, StopRelease(c, a) PROVE IInv'
  <2>1. TypeOK'
    <3>1. sync' \in [Cores -> SyncType]
        BY <1>23, <1>t DEF StopRelease, Releasable, ReleaseDeletes, SyncType, tasks
    <3>2. beat' \in [Cores -> BeatType] /\ req' \in [Cores -> ReqType]
        BY <1>23, <1>t DEF StopRelease, Releasable, ReleaseDeletes, BeatType, ReqType, tasks
    <3>3. RestOK'
        BY <1>23, <1>t DEF StopRelease, Releasable, ReleaseDeletes, RestOK, core, bounds
    <3>4. QED
        BY <1>q, <3>1, <3>2, <3>3
  <2>2. OthersRest' /\ TasksAtAgents'
      BY <1>23, <1>t, <1>i DEF StopRelease, Releasable, ReleaseDeletes, OthersRest, TasksAtAgents,
         core, tasks, bounds, RestOK
  <2>3. disturbed' = {} => CalmInv'
      BY <1>23, <1>t, <1>i DEF StopRelease, Releasable, ReleaseDeletes, OthersRest, TasksAtAgents,
         CalmInv, TrackedIsLeased, BeatsSucceed, RunsTracked, Running, core, tasks, bounds, RestOK
  <2>4. QED
      BY <2>1, <2>2, <2>3
<1>24. ASSUME NEW c \in Cores, StopEnd(c) PROVE IInv'
  <2>1. TypeOK'
    <3>1. sync' \in [Cores -> SyncType]
        BY <1>24, <1>t DEF StopEnd, SyncType, tasks
    <3>2. beat' \in [Cores -> BeatType] /\ req' \in [Cores -> ReqType]
        BY <1>24, <1>t DEF StopEnd, BeatType, ReqType, tasks
    <3>3. RestOK'
        BY <1>24, <1>t DEF StopEnd, RestOK, core, bounds
    <3>4. QED
        BY <1>q, <3>1, <3>2, <3>3
  <2>2. OthersRest' /\ TasksAtAgents'
      BY <1>24, <1>t, <1>i DEF StopEnd, OthersRest, TasksAtAgents, core, tasks, bounds, RestOK
  <2>3. disturbed' = {} => CalmInv'
      BY <1>24, <1>t, <1>i DEF StopEnd, OthersRest, TasksAtAgents, CalmInv, TrackedIsLeased,
         BeatsSucceed, RunsTracked, Running, core, tasks, bounds, RestOK
  <2>4. QED
      BY <2>1, <2>2, <2>3
<1>25. ASSUME NEW c \in Cores, Crash(c) PROVE IInv'
  <2>1. TypeOK'
    <3>1. sync' \in [Cores -> SyncType]
        BY <1>25, <1>t DEF Crash, CountDown, SyncType, tasks
    <3>2. beat' \in [Cores -> BeatType] /\ req' \in [Cores -> ReqType]
        BY <1>25, <1>t DEF Crash, CountDown, BeatType, ReqType, tasks
    <3>3. RestOK'
        BY <1>25, <1>t DEF Crash, CountDown, RestOK, core, bounds
    <3>4. QED
        BY <1>q, <3>1, <3>2, <3>3
  <2>2. OthersRest' /\ TasksAtAgents'
      BY <1>25, <1>t, <1>i DEF Crash, CountDown, OthersRest, TasksAtAgents, core, tasks, bounds,
         RestOK
  <2>3. disturbed' = {} => CalmInv'
      BY <1>25, <1>t, <1>i DEF Crash, CountDown, OthersRest, TasksAtAgents, CalmInv,
         TrackedIsLeased, BeatsSucceed, RunsTracked, Running, core, tasks, bounds, RestOK
  <2>4. QED
      BY <2>1, <2>2, <2>3
<1>26. ASSUME NEW c \in Cores, Restart(c) PROVE IInv'
  <2>1. TypeOK'
    <3>1. sync' \in [Cores -> SyncType]
        BY <1>26, <1>t DEF Restart, SyncType, tasks
    <3>2. beat' \in [Cores -> BeatType] /\ req' \in [Cores -> ReqType]
        BY <1>26, <1>t DEF Restart, BeatType, ReqType, tasks
    <3>3. RestOK'
        BY <1>26, <1>t DEF Restart, RestOK, core, bounds
    <3>4. QED
        BY <1>q, <3>1, <3>2, <3>3
  <2>2. OthersRest' /\ TasksAtAgents'
      BY <1>26, <1>t, <1>i DEF Restart, OthersRest, TasksAtAgents, core, tasks, bounds, RestOK
  <2>3. disturbed' = {} => CalmInv'
      BY <1>26, <1>t, <1>i DEF Restart, OthersRest, TasksAtAgents, CalmInv, TrackedIsLeased,
         BeatsSucceed, RunsTracked, Running, core, tasks, bounds, RestOK
  <2>4. QED
      BY <2>1, <2>2, <2>3
<1>27. ASSUME NEW a \in Agents, Expire(a) PROVE IInv'
  <2>1. TypeOK'
    <3>1. sync' \in [Cores -> SyncType]
        BY <1>27, <1>t DEF Expire, Renewed, SyncType, tasks
    <3>2. beat' \in [Cores -> BeatType] /\ req' \in [Cores -> ReqType]
        BY <1>27, <1>t DEF Expire, Renewed, BeatType, ReqType, tasks
    <3>3. RestOK'
        BY <1>27, <1>t DEF Expire, Renewed, RestOK, core, bounds
    <3>4. QED
        BY <1>q, <3>1, <3>2, <3>3
  <2>2. OthersRest' /\ TasksAtAgents'
      BY <1>27, <1>t, <1>i DEF Expire, Renewed, OthersRest, TasksAtAgents, core, tasks, bounds,
         RestOK
  <2>3. disturbed' = {} => CalmInv'
      BY <1>27, <1>t, <1>i DEF Expire, Renewed, OthersRest, TasksAtAgents, CalmInv,
         TrackedIsLeased, BeatsSucceed, RunsTracked, Running, core, tasks, bounds, RestOK
  <2>4. QED
      BY <2>1, <2>2, <2>3
<1>28. ASSUME NEW a \in Agents, Lapse(a) PROVE IInv'
  <2>1. TypeOK'
    <3>1. sync' \in [Cores -> SyncType]
        BY <1>28, <1>t DEF Lapse, Disturb, SyncType, tasks
    <3>2. beat' \in [Cores -> BeatType] /\ req' \in [Cores -> ReqType]
        BY <1>28, <1>t DEF Lapse, Disturb, BeatType, ReqType, tasks
    <3>3. RestOK'
        BY <1>28, <1>t DEF Lapse, Disturb, RestOK, core, bounds
    <3>4. QED
        BY <1>q, <3>1, <3>2, <3>3
  <2>2. OthersRest' /\ TasksAtAgents'
      BY <1>28, <1>t, <1>i DEF Lapse, Disturb, OthersRest, TasksAtAgents, core, tasks, bounds,
         RestOK
  <2>3. disturbed' = {} => CalmInv'
      BY <1>28, <1>t, <1>i DEF Lapse, Disturb, OthersRest, TasksAtAgents, CalmInv,
         TrackedIsLeased, BeatsSucceed, RunsTracked, Running, core, tasks, bounds, RestOK
  <2>4. QED
      BY <2>1, <2>2, <2>3
<1>29. CASE UNCHANGED vars
    BY <1>29 DEF vars, core, tasks, bounds, TypeOK, OthersRest, TasksAtAgents, CalmInv,
       TrackedIsLeased, BeatsSucceed, RunsTracked, Running
<1>30. QED
    BY <1>1, <1>2, <1>3, <1>4, <1>5, <1>6, <1>7, <1>8, <1>9, <1>10, <1>11, <1>12, <1>13, <1>14,
       <1>15, <1>16, <1>17, <1>18, <1>19, <1>20, <1>21, <1>22, <1>23, <1>24, <1>25, <1>26, <1>27,
       <1>28, <1>29 DEF Next, SyncStep, BeatStep, ReqStep, StopStep

LEMMA Invariance == Spec => []IInv
BY InitIInv, StepIInv, PTL DEF Spec

\* Every variable keeps its type.
THEOREM TypeCorrect == Spec => []TypeOK
<1>1. IInv => TypeOK
    BY DEF IInv
<1>2. QED
    BY Invariance, <1>1, PTL

\* While nothing disturbs the leases, no two cores have an active runtime of one
\* agent, through crashes, shutdowns and restarts (sync_from_configs, on_lost).
THEOREM RuntimeExclusiveHolds == Spec => []RuntimeExclusive
<1>1. IInv => RuntimeExclusive
    BY DEF IInv, CalmInv, TrackedIsLeased, RunsTracked, RuntimeExclusive, Exclusive
<1>2. QED
    BY Invariance, <1>1, PTL
=============================================================================
