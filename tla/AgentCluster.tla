---------------------------- MODULE AgentCluster ----------------------------
(***************************************************************************)
(* Agent runtimes on several cores: who runs an agent, when another core   *)
(* takes it over, and what the registry and the stream subscriptions say.  *)
(*                                                                         *)
(* Composes the lease of cluster/core_ownership.py with the tasks that use *)
(* it in every core: the resync loop (main.py, AgentManager.               *)
(* sync_from_configs, InboundStreamWorker.refresh_streams), the heartbeat  *)
(* with its on_lost callback, the on-demand start of an agent for a        *)
(* message, the registry heartbeat, and graceful shutdown.  Every `await`  *)
(* that talks to Redis or initialises a runtime separates two steps.       *)
(*                                                                         *)
(* CoreOwnership.tla shows when a lease lapses under a live core (its      *)
(* heartbeat is late); here a lapse is an environment action with a bound. *)
(* The configuration lists every agent of Agents on every core.            *)
(***************************************************************************)
EXTENDS Integers, FiniteSets, Lease

CONSTANTS
    Cores, Agents,
    NoAgent,        \* a task that is not busy with an agent
    Disturbances,   \* what may disturb the cores, once each: "lapse" (a lease expires
                    \*   although its core renews it), "error" (a Redis command
                    \*   raises), "request" (a message starts an agent on demand)
    MaxDisturbances,\* bound: how many of them happen in one behaviour
    MaxDowns        \* bound: crashes and shutdowns

ASSUME SentinelAssumption == NoOwner \notin Cores /\ NoAgent \notin Agents
ASSUME BoundAssumption == MaxDowns \in Nat

VARIABLES
    lease,      \* value of each owner key
    registry,   \* core in each entry of the agent registry hash
    stage,      \* "up", "stopping" or "down"
    owned,      \* CoreOwnership._owned
    inst,       \* AgentManager._instances: "none", "running" or "stopped"
    subs,       \* agent streams among InboundStreamWorker._stream_keys
    sync,       \* the resync task: [at, todo, agent, ok]
    beat,       \* the heartbeat task: [at, todo, agent, ok]
    req,        \* a message handler in AgentManager: [at, agent]
    disturbed,  \* the disturbances that happened
    downs       \* crashes and shutdowns so far

core == <<stage, owned, inst, subs>>
tasks == <<sync, beat, req>>
bounds == <<disturbed, downs>>
vars == <<lease, registry, core, tasks, bounds>>

Idle == [at |-> "idle", todo |-> {}, agent |-> NoAgent, ok |-> FALSE]
IdleReq == [at |-> "idle", agent |-> NoAgent]

TypeOK ==
    /\ lease \in [Agents -> Cores \cup {NoOwner}]
    /\ registry \in [Agents -> Cores \cup {NoOwner}]
    /\ stage \in [Cores -> {"up", "stopping", "down"}]
    /\ owned \in [Cores -> SUBSET Agents]
    /\ inst \in [Cores -> [Agents -> {"none", "running", "stopped"}]]
    /\ subs \in [Cores -> SUBSET Agents]
    /\ sync \in [Cores -> [at : {"idle", "next", "claimed", "create", "write", "refresh"},
                           todo : SUBSET Agents, agent : Agents \cup {NoAgent}, ok : BOOLEAN]]
    /\ beat \in [Cores -> [at : {"idle", "next", "renewed", "lost", "read"},
                           todo : SUBSET Agents, agent : Agents \cup {NoAgent}, ok : BOOLEAN]]
    /\ req \in [Cores -> [at : {"idle", "ensure", "create"}, agent : Agents \cup {NoAgent}]]
    /\ disturbed \subseteq Disturbances /\ downs \in 0..MaxDowns

Init ==
    /\ lease = [a \in Agents |-> NoOwner]
    /\ registry = [a \in Agents |-> NoOwner]
    /\ stage = [c \in Cores |-> "up"]
    /\ owned = [c \in Cores |-> {}]
    /\ inst = [c \in Cores |-> [a \in Agents |-> "none"]]
    /\ subs = [c \in Cores |-> {}]
    /\ sync = [c \in Cores |-> Idle]
    /\ beat = [c \in Cores |-> Idle]
    /\ req = [c \in Cores |-> IdleReq]
    /\ disturbed = {} /\ downs = 0

Disturb(kind) ==
    /\ kind \in Disturbances \ disturbed /\ Cardinality(disturbed) < MaxDisturbances
    /\ disturbed' = disturbed \cup {kind}
    /\ UNCHANGED downs

-----------------------------------------------------------------------------
(* AgentManager: the lifecycle of the local instance *)

\* start_agent, when the instance is not active; an active one is left alone.
Started(c, a) == [inst EXCEPT ![c][a] = "running"]

\* _stop_local: a missing instance stays missing, and stopping a stopped one
\* raises and is logged.
MutStoppedLocal(c, a) == [inst EXCEPT ![c][a] = "deleted"]
StoppedLocal(c, a) == IF inst[c][a] = "running" THEN [inst EXCEPT ![c][a] = "stopped"] ELSE inst

-----------------------------------------------------------------------------
(* The resync loop: sync_from_configs, then refresh_streams *)

SyncStart(c) ==
    /\ stage[c] = "up" /\ sync[c].at = "idle"
    /\ sync' = [sync EXCEPT ![c].at = "next", ![c].todo = Agents]
    /\ UNCHANGED <<lease, registry, core, beat, req, bounds>>

\* The claim script runs; its answer is on the way.
SyncClaim(c, a) ==
    /\ sync[c].at = "next" /\ a \in sync[c].todo
    /\ lease' = [lease EXCEPT ![a] = AfterClaim(@, c)]
    /\ sync' = [sync EXCEPT ![c] = [at |-> "claimed", todo |-> @.todo \ {a}, agent |-> a,
                                    ok |-> ClaimGrants(lease[a], c)]]
    /\ UNCHANGED <<registry, core, beat, req, bounds>>

\* The claim raises, before or after it ran: the whole pass ends, and
\* refresh_streams is skipped.
SyncClaimError(c, a) ==
    /\ sync[c].at = "next" /\ a \in sync[c].todo
    /\ Disturb("error")
    /\ \/ UNCHANGED lease
       \/ lease' = [lease EXCEPT ![a] = AfterClaim(@, c)]
    /\ sync' = [sync EXCEPT ![c] = Idle]
    /\ UNCHANGED <<registry, core, beat, req>>

\* A refused claim stops a runtime left over from an earlier lease.
MutAfterRefusal(c, a) == inst
AfterRefusal(c, a) == StoppedLocal(c, a)

\* The claim was refused.
SyncRefused(c) ==
    LET a == sync[c].agent IN
    /\ sync[c].at = "claimed" /\ ~sync[c].ok
    /\ owned' = [owned EXCEPT ![c] = @ \ {a}]
    /\ inst' = AfterRefusal(c, a)
    /\ sync' = [sync EXCEPT ![c].at = "next", ![c].agent = NoAgent]
    /\ UNCHANGED <<lease, registry, stage, subs, beat, req, bounds>>

\* The claim was granted: create the instance if there is none, start it if it
\* is not active.
SyncGranted(c) ==
    LET a == sync[c].agent IN
    /\ sync[c].at = "claimed" /\ sync[c].ok
    /\ owned' = [owned EXCEPT ![c] = @ \cup {a}]
    /\ IF inst[c][a] = "none"
         THEN inst' = inst /\ sync' = [sync EXCEPT ![c].at = "create"]
         ELSE inst' = Started(c, a) /\ sync' = [sync EXCEPT ![c].at = "write"]
    /\ UNCHANGED <<lease, registry, stage, subs, beat, req, bounds>>

\* create_agent has initialised the runtime: publish the instance and start it.
SyncCreated(c) ==
    /\ sync[c].at = "create"
    /\ inst' = Started(c, sync[c].agent)
    /\ sync' = [sync EXCEPT ![c].at = "write"]
    /\ UNCHANGED <<lease, registry, stage, owned, subs, beat, req, bounds>>

\* _write_registry.
SyncWrite(c) ==
    /\ sync[c].at = "write"
    /\ registry' = [registry EXCEPT ![sync[c].agent] = c]
    /\ sync' = [sync EXCEPT ![c].at = "next", ![c].agent = NoAgent]
    /\ UNCHANGED <<lease, core, beat, req, bounds>>

SyncDone(c) ==
    /\ sync[c].at = "next" /\ sync[c].todo = {}
    /\ sync' = [sync EXCEPT ![c].at = "refresh", ![c].ok = FALSE]
    /\ UNCHANGED <<lease, registry, core, beat, req, bounds>>

\* The agents whose streams a refresh subscribes: those with an instance here
\* and this core in the owner key.
Subscribed(c) == {a \in Agents : inst[c][a] # "none" /\ lease[a] = c}

Refresh(c) ==
    /\ sync[c].at = "refresh"
    /\ subs' = [subs EXCEPT ![c] = Subscribed(c)]
    /\ sync' = [sync EXCEPT ![c] = Idle]
    /\ UNCHANGED <<lease, registry, stage, owned, inst, beat, req, bounds>>

\* An owner lookup that raises counts as "not ours": the stream is dropped.
RefreshError(c, a) ==
    /\ sync[c].at = "refresh"
    /\ Disturb("error")
    /\ subs' = [subs EXCEPT ![c] = Subscribed(c) \ {a}]
    /\ sync' = [sync EXCEPT ![c] = Idle]
    /\ UNCHANGED <<lease, registry, stage, owned, inst, beat, req>>

-----------------------------------------------------------------------------
(* The heartbeat: renew every owned lease; on_lost stops the local runtime *)

BeatStart(c) ==
    /\ stage[c] # "down" /\ beat[c].at = "idle" /\ owned[c] # {}
    /\ beat' = [beat EXCEPT ![c].at = "next", ![c].todo = owned[c]]
    /\ UNCHANGED <<lease, registry, core, sync, req, bounds>>

BeatRenew(c, a) ==
    /\ beat[c].at = "next" /\ a \in beat[c].todo
    /\ beat' = [beat EXCEPT ![c] = [at |-> "renewed", todo |-> @.todo \ {a}, agent |-> a,
                                    ok |-> RenewGrants(lease[a], c)]]
    /\ UNCHANGED <<lease, registry, core, sync, req, bounds>>

BeatRenewed(c) ==
    /\ beat[c].at = "renewed"
    /\ IF beat[c].ok
         THEN owned' = owned /\ beat' = [beat EXCEPT ![c].at = "next", ![c].agent = NoAgent]
         ELSE /\ owned' = [owned EXCEPT ![c] = @ \ {beat[c].agent}]
              /\ beat' = [beat EXCEPT ![c].at = "lost"]
    /\ UNCHANGED <<lease, registry, stage, inst, subs, sync, req, bounds>>

\* A renewal that raises counts as a lost lease.
BeatRenewError(c, a) ==
    /\ beat[c].at = "next" /\ a \in beat[c].todo
    /\ Disturb("error")
    /\ owned' = [owned EXCEPT ![c] = @ \ {a}]
    /\ beat' = [beat EXCEPT ![c] = [at |-> "lost", todo |-> @.todo \ {a}, agent |-> a,
                                    ok |-> FALSE]]
    /\ UNCHANGED <<lease, registry, stage, inst, subs, sync, req>>

\* stop_agent_if_owned reads the current owner, ...
LostRead(c) ==
    /\ beat[c].at = "lost"
    /\ beat' = [beat EXCEPT ![c].at = "read", ![c].ok = (lease[beat[c].agent] = c)]
    /\ UNCHANGED <<lease, registry, core, sync, req, bounds>>

\* ... and stops the local runtime unless the answer was this core: a claim
\* granted to the resync task in between is not seen.
LostStop(c) ==
    /\ beat[c].at = "read"
    /\ inst' = IF beat[c].ok THEN inst ELSE StoppedLocal(c, beat[c].agent)
    /\ beat' = [beat EXCEPT ![c].at = "next", ![c].agent = NoAgent, ![c].ok = FALSE]
    /\ UNCHANGED <<lease, registry, stage, owned, subs, sync, req, bounds>>

BeatDone(c) ==
    /\ beat[c].at = "next" /\ beat[c].todo = {}
    /\ beat' = [beat EXCEPT ![c] = Idle]
    /\ UNCHANGED <<lease, registry, core, sync, req, bounds>>

-----------------------------------------------------------------------------
(* A message for an agent: _check_owned, then ensure_agent_ready *)

\* The handler goes on if the owner is this core or unknown; otherwise the
\* message is rerouted and nothing happens here.
Request(c, a) ==
    /\ stage[c] = "up" /\ req[c].at = "idle" /\ Disturb("request")
    /\ lease[a] \in {c, NoOwner}
    /\ req' = [req EXCEPT ![c] = [at |-> "ensure", agent |-> a]]
    /\ UNCHANGED <<lease, registry, core, sync, beat>>

\* ensure_agent_ready does not look at the lease.
Ensure(c) ==
    LET a == req[c].agent IN
    /\ req[c].at = "ensure"
    /\ IF inst[c][a] = "none"
         THEN inst' = inst /\ req' = [req EXCEPT ![c].at = "create"]
         ELSE inst' = Started(c, a) /\ req' = [req EXCEPT ![c] = IdleReq]
    /\ UNCHANGED <<lease, registry, stage, owned, subs, sync, beat, bounds>>

\* The configuration is loaded and the runtime initialised.
EnsureCreated(c) ==
    /\ req[c].at = "create"
    /\ inst' = Started(c, req[c].agent)
    /\ req' = [req EXCEPT ![c] = IdleReq]
    /\ UNCHANGED <<lease, registry, stage, owned, subs, sync, beat, bounds>>

-----------------------------------------------------------------------------
(* The registry heartbeat *)

RegistryBeat(c, a) ==
    /\ stage[c] = "up" /\ inst[c][a] = "running" /\ registry[a] # c
    /\ registry' = [registry EXCEPT ![a] = c]
    /\ UNCHANGED <<lease, core, tasks, bounds>>

-----------------------------------------------------------------------------
(* Shutdown, crash, restart, expiry *)

OthersUp(c) == \E d \in Cores \ {c} : stage[d] = "up"

CountDown == downs < MaxDowns /\ downs' = downs + 1 /\ UNCHANGED disturbed

\* Graceful shutdown cancels the resync task wherever it is and stops the
\* inbound worker and the registry heartbeat; the lease heartbeat goes on.
StopBegin(c) ==
    /\ stage[c] = "up" /\ OthersUp(c)
    /\ CountDown
    /\ stage' = [stage EXCEPT ![c] = "stopping"]
    /\ subs' = [subs EXCEPT ![c] = {}]
    /\ sync' = [sync EXCEPT ![c] = Idle]
    /\ req' = [req EXCEPT ![c] = IdleReq]
    /\ UNCHANGED <<lease, registry, owned, inst, beat>>

\* release_all_leases walks the instances, not _owned.
Releasable(c) == {a \in Agents : inst[c][a] # "none" /\ (a \in owned[c] \/ lease[a] = c)}

StopRelease(c, a) ==
    /\ stage[c] = "stopping" /\ a \in Releasable(c)
    /\ lease' = [lease EXCEPT ![a] = IF ReleaseDeletes(@, c) THEN NoOwner ELSE @]
    /\ owned' = [owned EXCEPT ![c] = @ \ {a}]
    /\ UNCHANGED <<registry, stage, inst, subs, tasks, bounds>>

\* stop_heartbeat and shutdown_all, once every instance's lease was released.
StopEnd(c) ==
    /\ stage[c] = "stopping" /\ Releasable(c) = {}
    /\ stage' = [stage EXCEPT ![c] = "down"]
    /\ owned' = [owned EXCEPT ![c] = {}]
    /\ inst' = [inst EXCEPT ![c] = [a \in Agents |-> "none"]]
    /\ beat' = [beat EXCEPT ![c] = Idle]
    /\ UNCHANGED <<lease, registry, subs, sync, req, bounds>>

Crash(c) ==
    /\ stage[c] # "down" /\ OthersUp(c)
    /\ CountDown
    /\ stage' = [stage EXCEPT ![c] = "down"]
    /\ owned' = [owned EXCEPT ![c] = {}]
    /\ inst' = [inst EXCEPT ![c] = [a \in Agents |-> "none"]]
    /\ subs' = [subs EXCEPT ![c] = {}]
    /\ sync' = [sync EXCEPT ![c] = Idle]
    /\ beat' = [beat EXCEPT ![c] = Idle]
    /\ req' = [req EXCEPT ![c] = IdleReq]
    /\ UNCHANGED <<lease, registry>>

Restart(c) ==
    /\ stage[c] = "down"
    /\ stage' = [stage EXCEPT ![c] = "up"]
    /\ UNCHANGED <<lease, registry, owned, inst, subs, tasks, bounds>>

\* A lease nobody renews expires: its core is down, or neither tracks it nor
\* has just been granted it.
Renewed(a) ==
    \E c \in Cores :
       /\ lease[a] = c /\ stage[c] # "down"
       /\ a \in owned[c] \/ (sync[c].at = "claimed" /\ sync[c].agent = a)

Expire(a) ==
    /\ lease[a] # NoOwner /\ ~Renewed(a)
    /\ lease' = [lease EXCEPT ![a] = NoOwner]
    /\ UNCHANGED <<registry, core, tasks, bounds>>

\* A lease lapses although its core renews it: the heartbeat was late.
Lapse(a) ==
    /\ Renewed(a) /\ Disturb("lapse")
    /\ lease' = [lease EXCEPT ![a] = NoOwner]
    /\ UNCHANGED <<registry, core, tasks>>

-----------------------------------------------------------------------------

\* What a running core does by itself.
SyncStep(c) ==
    \/ SyncStart(c) \/ (\E a \in Agents : SyncClaim(c, a))
    \/ SyncRefused(c) \/ SyncGranted(c) \/ SyncCreated(c) \/ SyncWrite(c)
    \/ SyncDone(c) \/ Refresh(c)

BeatStep(c) ==
    \/ BeatStart(c) \/ (\E a \in Agents : BeatRenew(c, a))
    \/ BeatRenewed(c) \/ LostRead(c) \/ LostStop(c) \/ BeatDone(c)

ReqStep(c) == Ensure(c) \/ EnsureCreated(c)

StopStep(c) == (\E a \in Agents : StopRelease(c, a)) \/ StopEnd(c)

Next ==
    \/ \E c \in Cores :
          \/ SyncStep(c) \/ BeatStep(c) \/ ReqStep(c) \/ StopStep(c)
          \/ StopBegin(c) \/ Crash(c) \/ Restart(c)
          \/ \E a \in Agents :
                \/ SyncClaimError(c, a) \/ RefreshError(c, a) \/ BeatRenewError(c, a)
                \/ Request(c, a) \/ RegistryBeat(c, a)
    \/ \E a \in Agents : Expire(a) \/ Lapse(a)

Spec == Init /\ [][Next]_vars

\* Every asyncio task of a core gets to run, and Redis expires what nobody
\* renews.  Nothing is assumed of restarts.
FairSpec ==
    /\ Spec
    /\ \A c \in Cores :
          /\ WF_vars(SyncStep(c)) /\ WF_vars(BeatStep(c))
          /\ WF_vars(ReqStep(c)) /\ WF_vars(StopStep(c))
          /\ \A a \in Agents : WF_vars(RegistryBeat(c, a))
    /\ \A a \in Agents : WF_vars(Expire(a))

-----------------------------------------------------------------------------
(* Properties *)

Running(c, a) == stage[c] = "up" /\ inst[c][a] = "running"

Exclusive == \A a \in Agents, c, d \in Cores : Running(c, a) /\ Running(d, a) => c = d

\* While heartbeats are on time, no command raised and no message started an agent
\* on demand, no two cores have an active runtime of one agent, through crashes,
\* shutdowns, restarts and every interleaving of resync and heartbeat
\* (sync_from_configs, on_lost).
RuntimeExclusive == disturbed = {} => Exclusive

\* Once lapses, errors, messages and failures cease, every agent settles on one
\* running core that owns it, runs it and consumes its stream, and on no other.
Served(c, a) == lease[a] = c /\ Running(c, a) /\ a \in subs[c]
Failover ==
    <>[](\A a \in Agents :
            \E c \in Cores :
               /\ Served(c, a)
               /\ \A d \in Cores \ {c} : ~Running(d, a) /\ a \notin subs[d])

\* The registry entry of an agent settles on its owner, although a runtime that
\* outlives its lease writes the entry too.
RegistrySettles == <>[](\A a \in Agents : registry[a] = lease[a])

\* A runtime that runs without the lease is stopped, or its core regains the
\* lease, whatever the races between on_lost, resync and messages.
StrayRuntimeStops ==
    \A c \in Cores, a \in Agents :
        (Running(c, a) /\ lease[a] # c) ~> (~Running(c, a) \/ lease[a] = c)

\* Claim of the code that does not hold: sync_from_configs (manager.py:375-377)
\* starts owned agents only, "to avoid double activity".
NoDoubleActivity == Exclusive
=============================================================================
