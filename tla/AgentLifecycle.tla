--------------------------- MODULE AgentLifecycle ---------------------------
(***************************************************************************)
(* The agent instances of one core: AgentManager                           *)
(* (agent/ai-platform/backend/src/agent/manager.py) on the state machine   *)
(* of agent/lifecycle.py.                                                  *)
(*                                                                         *)
(* Three asyncio tasks use the instance table at the same time: the resync *)
(* loop, a message handler (ensure_agent_ready) and an operator's request  *)
(* on the HTTP API (api/routes/agent.py).  Initialising and shutting down  *)
(* a runtime awaits, so a task may find the table changed when it goes on. *)
(* Every lease is this core's own (AgentCluster.tla has the leases).       *)
(***************************************************************************)
EXTENDS Integers, Sequences

CONSTANTS
    Order,      \* the configured agents in the order of list_configs()
    None,       \* no instance
    MaxCalls,   \* bound: calls of the HTTP API
    MaxFailures \* bound: runtimes that fail to initialise

ASSUME OrderAssumption == Len(Order) \in Nat \ {0}
ASSUME BoundAssumption == MaxCalls \in Nat /\ MaxFailures \in Nat

Agents == {Order[i] : i \in 1..Len(Order)}

VARIABLES
    inst,       \* _instances: [state, open] of the agent's instance, or None
    configured, \* agents in ConfigManager._configs
    sync,       \* resync task: [at, pos, configs]
    req,        \* message handler: [at, agent]
    api,        \* HTTP request: [at, agent, held]
    calls,      \* API calls so far
    failures    \* failed initialisations so far

vars == <<inst, configured, sync, req, api, calls, failures>>

InstanceState == {"created", "running", "paused", "draining", "stopped", "deleted"}
Instance == [state : InstanceState, open : BOOLEAN]

ASSUME NoneAssumption == None \notin Instance

\* TRANSITION_TABLE; "illegal" stands for the AgentStateError of transition().
After(s, e) ==
    CASE e = "start" /\ s \in {"created", "stopped"} -> "running"
      [] e = "pause" /\ s = "running" -> "paused"
      [] e = "resume" /\ s = "paused" -> "running"
      [] e = "drain" /\ s \in {"running", "paused"} -> "draining"
      [] e = "stop" /\ s \in {"running", "paused", "draining"} -> "stopped"
      [] e = "delete" /\ s \in {"created", "stopped"} -> "deleted"
      [] OTHER -> "illegal"

IsActive(s) == s \in {"running", "paused"}
Active(a) == inst[a] # None /\ IsActive(inst[a].state)

\* A request that awaits holds on to the instance it found: the one in the
\* table ("table"), or by now a replaced one, of which only the state matters.
NoSync == [at |-> "idle", pos |-> 0, configs |-> {}]
NoReq == [at |-> "idle", agent |-> Order[1]]
NoCall == [at |-> "idle", agent |-> Order[1], held |-> "table"]

TypeOK ==
    /\ inst \in [Agents -> {None} \cup Instance]
    /\ configured \subseteq Agents
    /\ sync \in [at : {"idle", "visit", "create"}, pos : 0..Len(Order), configs : SUBSET Agents]
    /\ req \in [at : {"idle", "create"}, agent : Agents]
    /\ api \in [at : {"idle", "create", "delete", "unconfigure", "switch"},
                agent : Agents, held : {"table"} \cup InstanceState]
    /\ calls \in 0..MaxCalls /\ failures \in 0..MaxFailures

Init ==
    /\ inst = [a \in Agents |-> None]
    /\ configured = Agents
    /\ sync = NoSync
    /\ req = NoReq
    /\ api = NoCall
    /\ calls = 0 /\ failures = 0

-----------------------------------------------------------------------------
(* AgentManager on its table *)

\* A legal transition() of the instance in the table.
MutTransition(a, e) == inst' = [inst EXCEPT ![a].state = After(@, e)]
Transition(a, e) ==
    /\ After(inst[a].state, e) # "illegal"
    /\ inst' = [inst EXCEPT ![a].state = After(@, e)]

\* The end of create_agent: the new instance enters the table whatever is there
\* by now, for the existence check was made before the runtime was initialised.
\* A runtime that fails to initialise enters nothing.
Created(a, s, apiNext) ==
    \/ /\ inst' = [inst EXCEPT ![a] = [state |-> s, open |-> TRUE]]
       /\ api' = IF apiNext.agent = a /\ apiNext.held = "table" /\ inst[a] # None
                    THEN [apiNext EXCEPT !.held = inst[a].state] ELSE apiNext
       /\ UNCHANGED failures
    \/ /\ failures < MaxFailures /\ failures' = failures + 1
       /\ inst' = inst /\ api' = apiNext

-----------------------------------------------------------------------------
(* The resync loop *)

SyncStart ==
    /\ sync.at = "idle"
    /\ sync' = [at |-> "visit", pos |-> 1, configs |-> configured]
    /\ UNCHANGED <<inst, configured, req, api, calls, failures>>

Visiting(a) == sync.at = "visit" /\ a = Order[sync.pos]
NextVisit == IF sync.pos = Len(Order) THEN NoSync ELSE [sync EXCEPT !.at = "visit", !.pos = @ + 1]

\* Not in this pass's list of configurations.
SyncSkip(a) ==
    /\ Visiting(a) /\ a \notin sync.configs
    /\ sync' = NextVisit
    /\ UNCHANGED <<inst, configured, req, api, calls, failures>>

SyncCreate(a) ==
    /\ Visiting(a) /\ a \in sync.configs /\ inst[a] = None
    /\ sync' = [sync EXCEPT !.at = "create"]
    /\ UNCHANGED <<inst, configured, req, api, calls, failures>>

SyncCreated ==
    /\ sync.at = "create"
    /\ Created(Order[sync.pos], "running", api)
    /\ sync' = NextVisit
    /\ UNCHANGED <<configured, req, calls>>

\* The instance exists: an active one is left alone, another one is started.
\* A start that the state machine refuses ends the pass.
MutResyncStarts(s) == s = "created"
ResyncStarts(s) == ~IsActive(s)

SyncExisting(a) ==
    /\ Visiting(a) /\ a \in sync.configs /\ inst[a] # None
    /\ \/ ~ResyncStarts(inst[a].state) /\ inst' = inst /\ sync' = NextVisit
       \/ ResyncStarts(inst[a].state) /\ Transition(a, "start") /\ sync' = NextVisit
       \/ /\ ResyncStarts(inst[a].state) /\ After(inst[a].state, "start") = "illegal"
          /\ inst' = inst /\ sync' = NoSync
    /\ UNCHANGED <<configured, req, api, calls, failures>>

-----------------------------------------------------------------------------
(* ensure_agent_ready *)

EnsureExisting(a) ==
    /\ req.at = "idle" /\ inst[a] # None /\ ~Active(a)
    /\ Transition(a, "start")
    /\ UNCHANGED <<configured, sync, req, api, calls, failures>>

EnsureCreate(a) ==
    /\ req.at = "idle" /\ a \in configured /\ inst[a] = None
    /\ req' = [at |-> "create", agent |-> a]
    /\ UNCHANGED <<inst, configured, sync, api, calls, failures>>

EnsureCreated ==
    /\ req.at = "create"
    /\ Created(req.agent, "running", api)
    /\ req' = NoReq
    /\ UNCHANGED <<configured, sync, calls>>

-----------------------------------------------------------------------------
(* The HTTP API *)

Call == api.at = "idle" /\ calls < MaxCalls /\ calls' = calls + 1

\* start_agent, pause_agent, resume_agent, stop_agent: a refused one changes
\* nothing.
ApiTransition(a) ==
    /\ Call /\ inst[a] # None
    /\ \E e \in {"start", "pause", "resume", "stop"} : Transition(a, e)
    /\ UNCHANGED <<configured, sync, req, api, failures>>

\* POST: the configuration is saved, also when the agent turns out to exist;
\* otherwise an instance is created, and not started.
ApiCreate(a) ==
    /\ Call
    /\ configured' = configured \cup {a}
    /\ api' = IF inst[a] = None THEN [NoCall EXCEPT !.at = "create", !.agent = a] ELSE api
    /\ UNCHANGED <<inst, sync, req, failures>>

ApiCreated ==
    /\ api.at = "create"
    /\ Created(api.agent, "created", NoCall)
    /\ UNCHANGED <<configured, sync, req, calls>>

Holding(what, a) == [at |-> what, agent |-> a, held |-> "table"]
HeldState == IF api.held = "table" THEN inst[api.agent].state ELSE api.held

\* DELETE: the runtime of the instance found is shut down ...
MutApiDelete(a) ==
    /\ Call /\ inst[a] # None
    /\ api' = Holding("delete", a)
    /\ inst' = [inst EXCEPT ![a].state = IF After(@, "delete") = "illegal" THEN @ ELSE "deleted"]
    /\ UNCHANGED <<configured, sync, req, failures>>
ApiDelete(a) ==
    /\ Call /\ inst[a] # None
    /\ api' = Holding("delete", a)
    /\ UNCHANGED <<inst, configured, sync, req, failures>>

\* ... then the transition is tried, and where it is legal the table's entry
\* goes, whichever instance that is by now.
ApiDeleted ==
    /\ api.at = "delete" /\ After(HeldState, "delete") # "illegal"
    /\ inst' = [inst EXCEPT ![api.agent] = None]
    /\ api' = [api EXCEPT !.at = "unconfigure", !.held = "table"]
    /\ UNCHANGED <<configured, sync, req, calls, failures>>

\* Where it is refused the request fails, the runtime closed and the instance
\* in place.
ApiDeleteRefused ==
    /\ api.at = "delete" /\ After(HeldState, "delete") = "illegal"
    /\ inst' = IF api.held = "table" THEN [inst EXCEPT ![api.agent].open = FALSE] ELSE inst
    /\ api' = NoCall
    /\ UNCHANGED <<configured, sync, req, calls, failures>>

\* delete_config.
ApiUnconfigured ==
    /\ api.at = "unconfigure"
    /\ configured' = configured \ {api.agent}
    /\ api' = NoCall
    /\ UNCHANGED <<inst, sync, req, calls, failures>>

\* switch_runtime initialises a second runtime ...
ApiSwitch(a) ==
    /\ Call /\ inst[a] # None
    /\ api' = Holding("switch", a)
    /\ UNCHANGED <<inst, configured, sync, req, failures>>

\* ... then drains, puts the new runtime in and starts: START is refused.
ApiSwitched ==
    LET drained == After(HeldState, "drain")
        started == After(drained, "start")
    IN  /\ api.at = "switch"
        /\ inst' = IF drained = "illegal" \/ api.held # "table" THEN inst
                   ELSE [inst EXCEPT ![api.agent] =
                           [state |-> IF started = "illegal" THEN drained ELSE started,
                            open |-> TRUE]]
        /\ api' = NoCall
        /\ UNCHANGED <<configured, sync, req, calls, failures>>

-----------------------------------------------------------------------------

SyncStep ==
    \/ SyncStart \/ SyncCreated
    \/ \E a \in Agents : SyncSkip(a) \/ SyncCreate(a) \/ SyncExisting(a)

ApiStep == ApiCreated \/ ApiDeleted \/ ApiDeleteRefused \/ ApiUnconfigured \/ ApiSwitched

Next ==
    \/ SyncStep \/ ApiStep \/ EnsureCreated
    \/ \E a \in Agents :
          \/ EnsureExisting(a) \/ EnsureCreate(a)
          \/ ApiTransition(a) \/ ApiCreate(a) \/ ApiDelete(a) \/ ApiSwitch(a)

Spec == Init /\ [][Next]_vars

\* The event loop keeps running the resync loop and the requests.
FairSpec == Spec /\ WF_vars(SyncStep) /\ WF_vars(EnsureCreated) /\ WF_vars(ApiStep)

-----------------------------------------------------------------------------
(* Properties *)

\* An instance in the table is never a deleted one, whichever of two creations
\* and a deletion of the same agent finishes first (manager.py:275-281).
NoDeletedInTable == \A a \in Agents : inst[a] # None => inst[a].state # "deleted"

\* While no runtime switch left an agent draining, the resync loop brings every
\* configured agent to activity, after failed creations, failed deletions and
\* whatever the operator does in between (main.py:246-265).
Draining(a) == inst[a] # None /\ inst[a].state = "draining"
ResyncRevives ==
    \A a \in Agents :
        (\A b \in Agents : [](~Draining(b))) =>
            ((a \in configured /\ ~Active(a)) ~> (a \notin configured \/ Active(a)))

\* Claims of the code that do not hold.

\* switch_runtime (manager.py:341-345): "the new runtime handles new sessions".
\* An instance that was active before the switch is active after it.
SwitchLeavesActive ==
    [][(api.at = "switch" /\ api'.at = "idle" /\ Active(api.agent)) => Active(api.agent)']_vars

\* delete_agent (manager.py:276): "deletes an agent instance for good".  An active
\* instance never has a runtime that was shut down.
ActiveRuntimeIsOpen == \A a \in Agents : Active(a) => inst[a].open
=============================================================================
