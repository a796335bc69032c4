------------------------ MODULE AgentLifecycleProofs ------------------------
(* Proofs about the instance table of one core, for any list of agents and   *)
(* any number of API calls and failures.                                     *)
EXTENDS AgentLifecycle, TLAPS

\* A request that has found its instance in the table finds one there when it goes
\* on: nobody but the API takes instances out, and the API works on one request.
HeldIsThere ==
    api.at \in {"delete", "switch"} /\ api.held = "table" => inst[api.agent] # None

\* A pass under way is at one of the agents.
PassHasAgent == sync.at # "idle" => sync.pos \in 1..Len(Order)

IInv == TypeOK /\ NoDeletedInTable /\ HeldIsThere /\ PassHasAgent

USE OrderAssumption, BoundAssumption, NoneAssumption

LEMMA AgentsOrder == \A i \in 1..Len(Order) : Order[i] \in Agents
BY DEF Agents

\* What the transition table gives is a state or "illegal", and "deleted" only for a
\* deletion.
LEMMA AfterType ==
    ASSUME NEW s, NEW e
    PROVE  /\ After(s, e) \in InstanceState \cup {"illegal"}
           /\ After(s, e) = "deleted" => e = "delete"
BY DEF After, InstanceState

\* Whatever live instance is put into the table, the table keeps its type and has no
\* deleted instance.
TableOK(table) ==
    /\ table \in [Agents -> {None} \cup Instance]
    /\ \A a \in Agents : table[a] # None => table[a].state # "deleted"

LEMMA PutKeeps ==
    ASSUME TableOK(inst), NEW a \in Agents,
           NEW v \in Instance, v.state # "deleted",
           inst' = [inst EXCEPT ![a] = v]
    PROVE  /\ TableOK(inst')
           /\ inst'[a] # None
           /\ \A b \in Agents : inst[b] # None => inst'[b] # None
BY DEF TableOK

LEMMA TransitionKeeps ==
    ASSUME TableOK(inst), NEW a \in Agents, inst[a] # None,
           NEW e, e # "delete", Transition(a, e)
    PROVE  /\ TableOK(inst')
           /\ \A b \in Agents : inst[b] # None => inst'[b] # None
<1> DEFINE v == [inst[a] EXCEPT !.state = After(inst[a].state, e)]
<1>1. inst[a] \in Instance
    BY DEF TableOK
<1>2. v \in Instance /\ v.state # "deleted"
    BY <1>1, AfterType DEF Transition, Instance
<1>3. inst' = [inst EXCEPT ![a] = v]
    BY DEF Transition, TableOK
<1>4. QED
    BY <1>2, <1>3, PutKeeps

ApiType == [at : {"idle", "create", "delete", "unconfigure", "switch"},
            agent : Agents, held : {"table"} \cup InstanceState]

\* A creation that ends, beside a request of the API in the state x.
LEMMA CreatedKeeps ==
    ASSUME TypeOK, TableOK(inst), NEW a \in Agents,
           NEW s \in {"created", "running"}, NEW x \in ApiType,
           x.at \in {"delete", "switch"} /\ x.held = "table" => inst[x.agent] # None,
           Created(a, s, x)
    PROVE  /\ TableOK(inst') /\ api' \in ApiType /\ HeldIsThere'
           /\ failures' \in 0..MaxFailures
<1> DEFINE Entered == /\ inst' = [inst EXCEPT ![a] = [state |-> s, open |-> TRUE]]
                      /\ api' = IF x.agent = a /\ x.held = "table" /\ inst[a] # None
                                   THEN [x EXCEPT !.held = inst[a].state] ELSE x
                      /\ UNCHANGED failures
           Failed == /\ failures < MaxFailures /\ failures' = failures + 1
                     /\ inst' = inst /\ api' = x
<1>0. Entered \/ Failed
    BY DEF Created
<1>1. CASE Failed
    BY <1>1 DEF TypeOK, HeldIsThere, TableOK
<1>2. CASE Entered
  <2> DEFINE v == [state |-> s, open |-> TRUE]
  <2>1. inst' = [inst EXCEPT ![a] = v] /\ v \in Instance /\ v.state # "deleted"
      BY <1>2 DEF Instance, InstanceState
  <2>2. /\ TableOK(inst')
        /\ \A b \in Agents : inst[b] # None => inst'[b] # None
      BY <2>1, PutKeeps
  <2>3. failures' \in 0..MaxFailures
      BY <1>2 DEF TypeOK
  <2>4. inst[a] # None => inst[a].state \in InstanceState
      BY DEF TableOK, Instance
  <2>5. api' \in ApiType /\ (api' = x \/ (api'.at = x.at /\ api'.held # "table"))
    <3>1. CASE x.agent = a /\ x.held = "table" /\ inst[a] # None
      <4>1. api' = [x EXCEPT !.held = inst[a].state]
          BY <1>2, <3>1
      <4>2. QED
          BY <4>1, <3>1, <2>4 DEF ApiType, InstanceState
    <3>2. CASE ~(x.agent = a /\ x.held = "table" /\ inst[a] # None)
        BY <1>2, <3>2
    <3>3. QED
        BY <3>1, <3>2
  <2>6. HeldIsThere'
      BY <2>2, <2>5 DEF HeldIsThere, ApiType
  <2>7. QED
      BY <2>2, <2>3, <2>5, <2>6
<1>3. QED
    BY <1>0, <1>1, <1>2

LEMMA InitIInv == Init => IInv
<1>1. Order[1] \in Agents
    BY AgentsOrder
<1>2. QED
    BY <1>1 DEF Init, IInv, TypeOK, NoDeletedInTable, HeldIsThere, PassHasAgent,
                NoSync, NoReq, NoCall

LEMMA StepIInv == IInv /\ [Next]_vars => IInv'
<1> SUFFICES ASSUME IInv, [Next]_vars PROVE IInv'
    OBVIOUS
<1> USE DEF IInv
<1>t. TableOK(inst)
    BY DEF TypeOK, NoDeletedInTable, TableOK
<1>o. Order[1] \in Agents
    BY AgentsOrder
<1>n. /\ NextVisit.at = "idle" \/ NextVisit.pos \in 1..Len(Order)
      /\ NextVisit \in [at : {"idle", "visit", "create"}, pos : 0..Len(Order), configs : SUBSET Agents]
  <2> DEFINE on == [sync EXCEPT !.at = "visit", !.pos = @ + 1]
  <2>1. CASE sync.pos = Len(Order)
    <3>1. NextVisit = NoSync
        BY <2>1 DEF NextVisit
    <3>2. QED
        BY <3>1 DEF NoSync
  <2>2. CASE sync.pos # Len(Order)
    <3>1. NextVisit = on
        BY <2>2 DEF NextVisit
    <3>2. sync.pos \in 0..Len(Order)
        BY DEF TypeOK
    <3>3. sync.pos + 1 \in 1..Len(Order) /\ sync.pos + 1 \in 0..Len(Order)
        BY <2>2, <3>2
    <3>4. DOMAIN sync = {"at", "pos", "configs"} /\ sync.configs \in SUBSET Agents
        BY DEF TypeOK
    <3>5. on.pos = sync.pos + 1
        BY <3>4
    <3>6. on \in [at : {"idle", "visit", "create"}, pos : 0..Len(Order), configs : SUBSET Agents]
        BY <3>3 DEF TypeOK
    <3>7. QED
        BY <3>1, <3>3, <3>5, <3>6
  <2>3. QED
      BY <2>1, <2>2
\* What follows from the parts, for the steps that leave most of the rest alone.
<1>q. ASSUME TableOK(inst'), HeldIsThere', PassHasAgent', api' \in ApiType,
             configured' \subseteq Agents,
             sync' \in [at : {"idle", "visit", "create"}, pos : 0..Len(Order), configs : SUBSET Agents],
             req' \in [at : {"idle", "create"}, agent : Agents],
             calls' \in 0..MaxCalls, failures' \in 0..MaxFailures
      PROVE  IInv'
    BY <1>q DEF TypeOK, NoDeletedInTable, TableOK, ApiType
<1>a. api \in ApiType
    BY DEF TypeOK, ApiType
<1>1. CASE SyncStart
    BY <1>1, <1>t, <1>a, <1>q DEF SyncStart, TypeOK, HeldIsThere, PassHasAgent
<1>2. ASSUME NEW a \in Agents, SyncSkip(a) PROVE IInv'
    BY <1>2, <1>t, <1>a, <1>n, <1>q DEF SyncSkip, TypeOK, HeldIsThere, PassHasAgent
<1>3. ASSUME NEW a \in Agents, SyncCreate(a) PROVE IInv'
    BY <1>3, <1>t, <1>a, <1>q DEF SyncCreate, Visiting, TypeOK, HeldIsThere, PassHasAgent
<1>4. CASE SyncCreated
  <2>1. Order[sync.pos] \in Agents
      BY <1>4, AgentsOrder DEF SyncCreated, PassHasAgent
  <2>2. /\ TableOK(inst') /\ api' \in ApiType /\ HeldIsThere'
        /\ failures' \in 0..MaxFailures
      BY <1>4, <1>t, <1>a, <2>1, CreatedKeeps DEF SyncCreated, HeldIsThere
  <2>3. QED
      BY <1>4, <1>n, <1>q, <2>2 DEF SyncCreated, TypeOK, PassHasAgent
<1>5. ASSUME NEW a \in Agents, SyncExisting(a) PROVE IInv'
  <2>1. /\ TableOK(inst')
        /\ \A b \in Agents : inst[b] # None => inst'[b] # None
      BY <1>5, <1>t, TransitionKeeps DEF SyncExisting
  <2>2. /\ sync' \in [at : {"idle", "visit", "create"}, pos : 0..Len(Order), configs : SUBSET Agents]
        /\ PassHasAgent'
      BY <1>5, <1>n DEF SyncExisting, NoSync, PassHasAgent
  <2>3. HeldIsThere'
      BY <1>5, <1>a, <2>1 DEF SyncExisting, HeldIsThere, ApiType
  <2>4. QED
      BY <1>5, <1>a, <1>q, <2>1, <2>2, <2>3 DEF SyncExisting, TypeOK
<1>6. ASSUME NEW a \in Agents, EnsureExisting(a) PROVE IInv'
  <2>1. /\ TableOK(inst')
        /\ \A b \in Agents : inst[b] # None => inst'[b] # None
      BY <1>6, <1>t, TransitionKeeps DEF EnsureExisting
  <2>2. HeldIsThere'
      BY <1>6, <1>a, <2>1 DEF EnsureExisting, HeldIsThere, ApiType
  <2>3. QED
      BY <1>6, <1>a, <1>q, <2>1, <2>2 DEF EnsureExisting, TypeOK, PassHasAgent
<1>7. ASSUME NEW a \in Agents, EnsureCreate(a) PROVE IInv'
    BY <1>7, <1>t, <1>a, <1>q DEF EnsureCreate, TypeOK, HeldIsThere, PassHasAgent
<1>8. CASE EnsureCreated
  <2>1. req.agent \in Agents
      BY DEF TypeOK
  <2>2. /\ TableOK(inst') /\ api' \in ApiType /\ HeldIsThere'
        /\ failures' \in 0..MaxFailures
      BY <1>8, <1>t, <1>a, <2>1, CreatedKeeps DEF EnsureCreated, HeldIsThere
  <2>3. QED
      BY <1>8, <1>o, <1>q, <2>2 DEF EnsureCreated, NoReq, TypeOK, PassHasAgent
<1>9. ASSUME NEW a \in Agents, ApiTransition(a) PROVE IInv'
  <2>1. /\ TableOK(inst')
        /\ \A b \in Agents : inst[b] # None => inst'[b] # None
      BY <1>9, <1>t, TransitionKeeps DEF ApiTransition
  <2>2. HeldIsThere'
      BY <1>9, <1>a, <2>1 DEF ApiTransition, HeldIsThere, ApiType
  <2>3. QED
      BY <1>9, <1>a, <1>q, <2>1, <2>2 DEF ApiTransition, Call, TypeOK, PassHasAgent
<1>10. ASSUME NEW a \in Agents, ApiCreate(a) PROVE IInv'
  <2>1. api' \in ApiType /\ HeldIsThere'
      BY <1>10, <1>a, <1>o DEF ApiCreate, Call, NoCall, ApiType, HeldIsThere
  <2>2. QED
      BY <1>10, <1>t, <1>q, <2>1 DEF ApiCreate, Call, TypeOK, PassHasAgent
<1>11. CASE ApiCreated
  <2>1. NoCall \in ApiType /\ api.agent \in Agents
      BY <1>o, <1>a DEF NoCall, ApiType
  <2>2. /\ TableOK(inst') /\ api' \in ApiType /\ HeldIsThere'
        /\ failures' \in 0..MaxFailures
      BY <1>11, <1>t, <2>1, CreatedKeeps DEF ApiCreated, NoCall
  <2>3. QED
      BY <1>11, <1>q, <2>2 DEF ApiCreated, TypeOK, PassHasAgent
<1>12. ASSUME NEW a \in Agents, ApiDelete(a) \/ ApiSwitch(a) PROVE IInv'
  <2>1. api' \in ApiType /\ HeldIsThere'
      BY <1>12 DEF ApiDelete, ApiSwitch, Holding, ApiType, HeldIsThere
  <2>2. QED
      BY <1>12, <1>t, <1>q, <2>1 DEF ApiDelete, ApiSwitch, Call, TypeOK, PassHasAgent
<1>13. CASE ApiDeleted
  <2>1. api' \in ApiType /\ HeldIsThere'
      BY <1>13, <1>a DEF ApiDeleted, ApiType, HeldIsThere
  <2>2. TableOK(inst')
      BY <1>13, <1>t, <1>a DEF ApiDeleted, TableOK, ApiType
  <2>3. QED
      BY <1>13, <1>q, <2>1, <2>2 DEF ApiDeleted, TypeOK, PassHasAgent
<1>14. CASE ApiDeleteRefused
  <2>1. api' \in ApiType /\ HeldIsThere'
      BY <1>14, <1>o DEF ApiDeleteRefused, NoCall, ApiType, HeldIsThere
  <2>2. TableOK(inst')
    <3>1. CASE api.held # "table"
        BY <1>14, <1>t, <3>1 DEF ApiDeleteRefused
    <3>2. CASE api.held = "table"
      <4> DEFINE v == [inst[api.agent] EXCEPT !.open = FALSE]
      <4>1. api.agent \in Agents /\ inst[api.agent] # None
          BY <1>14, <1>a, <3>2 DEF ApiDeleteRefused, HeldIsThere, ApiType
      <4>2. v \in Instance /\ v.state # "deleted"
          BY <1>t, <4>1 DEF TableOK, Instance
      <4>3. inst' = [inst EXCEPT ![api.agent] = v]
          BY <1>14, <1>t, <3>2, <4>1 DEF ApiDeleteRefused, TableOK
      <4>4. QED
          BY <1>t, <4>1, <4>2, <4>3, PutKeeps
    <3>3. QED
        BY <3>1, <3>2
  <2>3. QED
      BY <1>14, <1>q, <2>1, <2>2 DEF ApiDeleteRefused, TypeOK, PassHasAgent
<1>15. CASE ApiUnconfigured
  <2>1. api' \in ApiType /\ HeldIsThere'
      BY <1>15, <1>o DEF ApiUnconfigured, NoCall, ApiType, HeldIsThere
  <2>2. QED
      BY <1>15, <1>t, <1>q, <2>1 DEF ApiUnconfigured, TypeOK, PassHasAgent
<1>16. CASE ApiSwitched
  <2>1. api' \in ApiType /\ HeldIsThere'
      BY <1>16, <1>o DEF ApiSwitched, NoCall, ApiType, HeldIsThere
  <2>2. TableOK(inst')
    <3> DEFINE drained == After(HeldState, "drain")
               started == After(drained, "start")
               v == [state |-> IF started = "illegal" THEN drained ELSE started, open |-> TRUE]
    <3>1. CASE drained = "illegal" \/ api.held # "table"
        BY <1>16, <1>t, <3>1 DEF ApiSwitched
    <3>2. CASE ~(drained = "illegal" \/ api.held # "table")
      <4>1. drained \in InstanceState /\ drained # "deleted"
          BY <3>2, AfterType
      <4>2. started \in InstanceState \cup {"illegal"} /\ started # "deleted"
          BY AfterType
      <4>3. v \in Instance /\ v.state # "deleted"
          BY <4>1, <4>2 DEF Instance
      <4>4. inst' = [inst EXCEPT ![api.agent] = v] /\ api.agent \in Agents
          BY <1>16, <1>a, <3>2 DEF ApiSwitched, ApiType
      <4>5. QED
          BY <1>t, <4>3, <4>4, PutKeeps
    <3>3. QED
        BY <3>1, <3>2
  <2>3. QED
      BY <1>16, <1>q, <2>1, <2>2 DEF ApiSwitched, TypeOK, PassHasAgent
<1>17. CASE UNCHANGED vars
    BY <1>17 DEF vars, TypeOK, NoDeletedInTable, HeldIsThere, PassHasAgent
<1>18. QED
    BY <1>1, <1>2, <1>3, <1>4, <1>5, <1>6, <1>7, <1>8, <1>9, <1>10, <1>11, <1>12, <1>13,
       <1>14, <1>15, <1>16, <1>17 DEF Next, SyncStep, ApiStep

LEMMA Invariance == Spec => []IInv
BY InitIInv, StepIInv, PTL DEF Spec

\* Every variable keeps its type.
THEOREM TypeCorrect == Spec => []TypeOK
<1>1. IInv => TypeOK
    BY DEF IInv
<1>2. QED
    BY Invariance, <1>1, PTL

\* No deleted instance is in the table, for any list of agents and any number of
\* API calls beside the resync loop and the messages (AgentManager.delete_agent).
THEOREM NoDeleted == Spec => []NoDeletedInTable
<1>1. IInv => NoDeletedInTable
    BY DEF IInv
<1>2. QED
    BY Invariance, <1>1, PTL
=============================================================================
