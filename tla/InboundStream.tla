---------------------------- MODULE InboundStream ----------------------------
(***************************************************************************)
(* The inbound messages of the agent cores: InboundStreamWorker            *)
(* (agent/ai-platform/backend/src/queue/inbound_worker.py).                *)
(*                                                                         *)
(* The gateway adds messages to a channel stream, which every core reads,  *)
(* or to the stream of an agent, which the core that owns the agent reads. *)
(* All cores read in one consumer group: an entry goes to one reader and   *)
(* stays in the pending entries list (PEL) until it is acknowledged; the   *)
(* reclaim loop (XAUTOCLAIM) hands pending entries out again.  Each entry  *)
(* handed out becomes a handler task: it waits for the semaphore, takes    *)
(* the session lock or gives up, reads who owns the agent, and processes   *)
(* the message or adds it to the owner's stream, and acknowledges.         *)
(*                                                                         *)
(* Who owns an agent is AgentCluster.tla's subject: here an owner key is   *)
(* claimed when it is free and ends with its core or, MaxLapses times,     *)
(* under it.  The session lock is SessionLock.tla's subject: here it is    *)
(* held from the "routing" stage to the end of the handler.                *)
(***************************************************************************)
EXTENDS Integers, Sequences, FiniteSets

CONSTANTS
    Cores, Agents, Messages,
    SessionOf, AgentOf,     \* of each message
    Channel,                \* the shared channel stream
    NoOwner,                \* the value of a missing owner key
    FreshGroups,            \* TRUE: no agent stream was ever subscribed before
    MaxConcurrency,         \* INBOUND_MAX_CONCURRENCY
    MaxInflight,            \* most tasks the read loop lets be in flight:
                            \*   max_concurrency + read_count - 1
    MaxLapses,              \* bound: owner keys that lapse under a live core
    MaxErrors,              \* bound: commands or processing that raise
    MaxLostAdds,            \* bound: XADD commands of a reroute that raise
    MaxLostAcks,            \* bound: XACK commands that raise
    MaxSlow,                \* bound: entries reclaimed while a handler has them
    MaxDowns,               \* bound: crashes and shutdowns
    MaxStale                \* bound: reads of an agent stream by a former owner

ASSUME StreamAssumption ==
    /\ Channel \notin Agents /\ NoOwner \notin Cores
    /\ SessionOf \in [Messages -> {SessionOf[m] : m \in Messages}]
    /\ AgentOf \in [Messages -> Agents]

ASSUME BoundAssumption ==
    {MaxLapses, MaxErrors, MaxLostAdds, MaxLostAcks, MaxSlow, MaxDowns, MaxStale} \subseteq Nat

ASSUME FiniteAssumption == IsFiniteSet(Agents)

Streams == Agents \cup {Channel}
Sessions == {SessionOf[m] : m \in Messages}

VARIABLES
    log,        \* entries of each stream: the messages, in order
    group,      \* last entry the consumer group delivered; -1: no group
    pel,        \* delivered, unacknowledged entries: <<stream, index>>
    up,         \* cores that run
    owner,      \* owner key of each agent
    subs,       \* agent streams in each core's _stream_keys
    tasks,      \* handler tasks: [core, stream, index, copy, at]
    skipped,    \* entries a new consumer group starts behind: <<stream, index>>
    orphans,    \* sessions whose lock was left behind by a crashed core
    processed,  \* how often each message was processed
    lapses, errors, lostAdds, lostAcks, slow, downs, stale   \* use of the bounds

streams == <<log, group, pel, skipped>>
owners == <<up, owner, subs>>
bounds == <<lapses, errors, lostAdds, lostAcks, slow, downs, stale>>
vars == <<streams, owners, tasks, orphans, processed, bounds>>

Stages == {"queued", "locking", "routing", "working", "rerouting", "acking"}
Locked == {"routing", "working", "rerouting", "acking"}
Entries(s) == 1..Len(log[s])
Message(t) == log[t.stream][t.index]
Session(t) == SessionOf[Message(t)]

TypeOK ==
    /\ log \in [Streams -> Seq(Messages)]
    /\ \A s \in Streams : group[s] \in -1..Len(log[s])
    /\ \A e \in pel : e[1] \in Streams /\ e[2] \in 1..group[e[1]]
    /\ up \subseteq Cores /\ owner \in [Agents -> Cores \cup {NoOwner}]
    /\ subs \in [Cores -> SUBSET Agents]
    /\ \A t \in tasks : /\ t.core \in up /\ t.stream \in Streams /\ t.copy \in 0..MaxSlow
                        /\ t.index \in Entries(t.stream) /\ t.at \in Stages
    /\ \A e \in skipped : e[1] \in Agents /\ e[2] \in 1..group[e[1]]
    /\ orphans \subseteq Sessions
    /\ \A m \in Messages : processed[m] \in Nat
    /\ lapses \in 0..MaxLapses /\ errors \in 0..MaxErrors /\ lostAdds \in 0..MaxLostAdds
    /\ lostAcks \in 0..MaxLostAcks /\ slow \in 0..MaxSlow /\ downs \in 0..MaxDowns /\ stale \in 0..MaxStale

Init ==
    /\ log = [s \in Streams |-> <<>>]
    /\ group = [s \in Streams |-> IF FreshGroups /\ s # Channel THEN -1 ELSE 0]
    /\ pel = {} /\ skipped = {}
    /\ up = Cores
    /\ owner = [a \in Agents |-> NoOwner]
    /\ subs = [c \in Cores |-> {}]
    /\ tasks = {} /\ orphans = {}
    /\ processed = [m \in Messages |-> 0]
    /\ lapses = 0 /\ errors = 0 /\ lostAdds = 0 /\ lostAcks = 0
    /\ slow = 0 /\ downs = 0 /\ stale = 0

Add(m, s) == log' = [log EXCEPT ![s] = Append(@, m)]
Error == errors < MaxErrors /\ errors' = errors + 1
            /\ UNCHANGED <<lapses, lostAdds, lostAcks, slow, downs, stale>>
LostAdd == lostAdds < MaxLostAdds /\ lostAdds' = lostAdds + 1
            /\ UNCHANGED <<lapses, errors, lostAcks, slow, downs, stale>>
LostAck == lostAcks < MaxLostAcks /\ lostAcks' = lostAcks + 1
            /\ UNCHANGED <<lapses, errors, lostAdds, slow, downs, stale>>

-----------------------------------------------------------------------------
(* The gateway, and the ownership of agents *)

Published(m) == \E s \in Streams : \E i \in Entries(s) : log[s][i] = m

\* produce(): to the channel's stream, or to the agent's when it is known.
Publish(m) ==
    /\ ~Published(m)
    /\ \E s \in {Channel, AgentOf[m]} : Add(m, s)
    /\ UNCHANGED <<group, pel, skipped, owners, tasks, orphans, processed, bounds>>

Claim(c, a) ==
    /\ c \in up /\ owner[a] = NoOwner
    /\ owner' = [owner EXCEPT ![a] = c]
    /\ UNCHANGED <<streams, up, subs, tasks, orphans, processed, bounds>>

Expire(a) ==
    /\ owner[a] # NoOwner /\ owner[a] \notin up
    /\ owner' = [owner EXCEPT ![a] = NoOwner]
    /\ UNCHANGED <<streams, up, subs, tasks, orphans, processed, bounds>>

Lapse(a) ==
    /\ owner[a] \in up /\ lapses < MaxLapses
    /\ owner' = [owner EXCEPT ![a] = NoOwner]
    /\ lapses' = lapses + 1
    /\ UNCHANGED <<streams, up, subs, tasks, orphans, processed,
                   errors, lostAdds, lostAcks, slow, downs, stale>>

-----------------------------------------------------------------------------
(* refresh_streams, the read loop and the reclaim loop *)

\* XGROUP CREATE with id "$": a group that did not exist starts after the last
\* entry.
GroupStart(s) == IF group[s] = -1 THEN Len(log[s]) ELSE group[s]

\* The agent streams a refresh subscribes.
MutAgentStreams(c) == subs[c]
AgentStreams(c) == {a \in Agents : owner[a] = c}

Refresh(c) ==
    LET new == AgentStreams(c) \ subs[c] IN
    /\ c \in up
    /\ subs' = [subs EXCEPT ![c] = AgentStreams(c)]
    /\ group' = [s \in Streams |-> IF s \in new THEN GroupStart(s) ELSE group[s]]
    /\ skipped' = skipped \cup UNION {{a} \X Entries(a) : a \in {b \in new : group[b] = -1}}
    /\ UNCHANGED <<log, pel, up, owner, tasks, orphans, processed, bounds>>

Task(c, s, i, n, at) == [core |-> c, stream |-> s, index |-> i, copy |-> n, at |-> at]
TasksOf(c) == {t \in tasks : t.core = c}
Handlers(s, i) == {t \in tasks : t.stream = s /\ t.index = i}
Subscribed(c, s) == s = Channel \/ s \in subs[c]
CountStale(c, s) ==
    IF s # Channel /\ owner[s] # c THEN stale < MaxStale /\ stale' = stale + 1 ELSE stale' = stale

\* XREADGROUP ">": the next entry of the group, while fewer tasks than the limit
\* are in flight.
Deliver(c, s) ==
    /\ c \in up /\ Subscribed(c, s) /\ Cardinality(TasksOf(c)) < MaxInflight
    /\ group[s] \in 0..(Len(log[s]) - 1)
    /\ CountStale(c, s)
    /\ group' = [group EXCEPT ![s] = @ + 1]
    /\ pel' = pel \cup {<<s, group[s] + 1>>}
    /\ tasks' = tasks \cup {Task(c, s, group[s] + 1, 0, "queued")}
    /\ UNCHANGED <<log, skipped, owners, orphans, processed, lapses, errors, lostAdds, lostAcks, slow, downs>>

\* XAUTOCLAIM of an entry that nobody handles any more.  Tasks in flight are
\* not counted.
MutReclaimAtOnce(c, e) ==
    /\ c \in up /\ Subscribed(c, e[1]) /\ e \in pel
    /\ tasks' = tasks \cup {Task(c, e[1], e[2], 0, "queued")}
    /\ CountStale(c, e[1])
    /\ UNCHANGED <<streams, owners, orphans, processed, lapses, errors, lostAdds, lostAcks,
                   slow, downs>>
MutReclaimAgents(c, e) ==
    /\ c \in up /\ e[1] \in subs[c] /\ e \in pel /\ Handlers(e[1], e[2]) = {}
    /\ tasks' = tasks \cup {Task(c, e[1], e[2], 0, "queued")}
    /\ CountStale(c, e[1])
    /\ UNCHANGED <<streams, owners, orphans, processed, lapses, errors, lostAdds, lostAcks,
                   slow, downs>>
Reclaim(c, e) ==
    /\ c \in up /\ Subscribed(c, e[1]) /\ e \in pel /\ Handlers(e[1], e[2]) = {}
    /\ tasks' = tasks \cup {Task(c, e[1], e[2], 0, "queued")}
    /\ CountStale(c, e[1])
    /\ UNCHANGED <<streams, owners, orphans, processed, lapses, errors, lostAdds, lostAcks,
                   slow, downs>>

\* XAUTOCLAIM of an entry whose handler takes longer than XCLAIM_MIN_IDLE_MS.
ReclaimSlow(c, e) ==
    /\ c \in up /\ Subscribed(c, e[1]) /\ e \in pel /\ Handlers(e[1], e[2]) # {}
    /\ slow < MaxSlow /\ slow' = slow + 1
    /\ tasks' = tasks \cup {Task(c, e[1], e[2], slow + 1, "queued")}
    /\ CountStale(c, e[1])
    /\ UNCHANGED <<streams, owners, orphans, processed, lapses, errors, lostAdds, lostAcks, downs>>

-----------------------------------------------------------------------------
(* _handle_message *)

Moves(t, at) == tasks' = (tasks \ {t}) \cup {[t EXCEPT !.at = at]}
Ends(t) == tasks' = tasks \ {t}

Busy(session) == session \in orphans \/ \E t \in tasks : t.at \in Locked /\ Session(t) = session

\* The semaphore.
Permit(t) ==
    /\ t.at = "queued"
    /\ Cardinality({u \in TasksOf(t.core) : u.at # "queued"}) < MaxConcurrency
    /\ Moves(t, "locking")
    /\ UNCHANGED <<streams, owners, orphans, processed, bounds>>

Lock(t) ==
    /\ t.at = "locking" /\ ~Busy(Session(t))
    /\ Moves(t, "routing")
    /\ UNCHANGED <<streams, owners, orphans, processed, bounds>>

\* The retries are used up, or SET raises: the entry stays in the PEL.
MutGiveUpAcks(t) ==
    /\ t.at = "locking" /\ Busy(Session(t))
    /\ Ends(t) /\ pel' = pel \ {<<t.stream, t.index>>}
    /\ UNCHANGED <<log, group, skipped, owners, orphans, processed, bounds>>
GiveUp(t) ==
    /\ t.at = "locking"
    /\ \/ Busy(Session(t)) /\ UNCHANGED bounds
       \/ Error
    /\ Ends(t)
    /\ UNCHANGED <<streams, owners, orphans, processed>>

\* _check_owned: another core's agent is rerouted; a free agent, or an owner that
\* cannot be read, is handled here.
RoutesHere(t) == owner[AgentOf[Message(t)]] \in {t.core, NoOwner}

Route(t) ==
    /\ t.at = "routing"
    /\ \/ RoutesHere(t) /\ Moves(t, "working") /\ UNCHANGED bounds
       \/ ~RoutesHere(t) /\ Moves(t, "rerouting") /\ UNCHANGED bounds
       \/ ~RoutesHere(t) /\ Moves(t, "working") /\ Error
    /\ UNCHANGED <<streams, owners, orphans, processed>>

\* The session is updated and the agent's events are published.
Work(t) ==
    /\ t.at = "working"
    /\ processed' = [processed EXCEPT ![Message(t)] = @ + 1]
    /\ Moves(t, "acking")
    /\ UNCHANGED <<streams, owners, orphans, bounds>>

\* Processing raises: logged, not acknowledged.
WorkFails(t) ==
    /\ t.at = "working"
    /\ Error
    /\ Ends(t)
    /\ UNCHANGED <<streams, owners, orphans, processed>>

\* _reroute_to_owner: XADD to the agent's stream; one that raises is logged, and
\* the handler goes on to acknowledge.
Reroute(t) ==
    /\ t.at = "rerouting"
    /\ \/ Add(Message(t), AgentOf[Message(t)]) /\ UNCHANGED bounds
       \/ log' = log /\ LostAdd
    /\ Moves(t, "acking")
    /\ UNCHANGED <<group, pel, skipped, owners, orphans, processed>>

\* XACK; the lock is released.
Ack(t) ==
    /\ t.at = "acking"
    /\ pel' = pel \ {<<t.stream, t.index>>}
    /\ Ends(t)
    /\ UNCHANGED <<log, group, skipped, owners, orphans, processed, bounds>>

AckFails(t) ==
    /\ t.at = "acking"
    /\ LostAck
    /\ Ends(t)
    /\ UNCHANGED <<streams, owners, orphans, processed>>

-----------------------------------------------------------------------------
(* Failures of a core *)

MutSurviving(c) == tasks
Surviving(c) == tasks \ TasksOf(c)

GoesDown(c) ==
    /\ c \in up /\ up # {c} /\ downs < MaxDowns
    /\ up' = up \ {c} /\ downs' = downs + 1
    /\ subs' = [subs EXCEPT ![c] = {}]
    /\ tasks' = Surviving(c)
    /\ UNCHANGED <<streams, owner, processed, lapses, errors, lostAdds, lostAcks, slow, stale>>

\* kill -9: the session locks of its handlers stay behind ...
Crash(c) ==
    /\ GoesDown(c)
    /\ orphans' = orphans \cup {Session(t) : t \in {u \in TasksOf(c) : u.at \in Locked}}

\* ... stop(): the handlers are cancelled and release them.
Stop(c) == GoesDown(c) /\ UNCHANGED orphans

\* The TTL of a lock left behind.
LockExpires(s) ==
    /\ s \in orphans
    /\ orphans' = orphans \ {s}
    /\ UNCHANGED <<streams, owners, tasks, processed, bounds>>

-----------------------------------------------------------------------------

HandlerStep(t) ==
    \/ Permit(t) \/ Lock(t) \/ GiveUp(t) \/ Route(t) \/ Work(t) \/ WorkFails(t)
    \/ Reroute(t) \/ Ack(t) \/ AckFails(t)

ReadStep(c) ==
    \/ \E s \in Streams : Deliver(c, s)
    \/ \E e \in pel : Reclaim(c, e)

Next ==
    \/ \E m \in Messages : Publish(m)
    \/ \E c \in Cores :
          \/ ReadStep(c) \/ Refresh(c) \/ Crash(c) \/ Stop(c)
          \/ \E a \in Agents : Claim(c, a)
          \/ \E e \in pel : ReclaimSlow(c, e)
    \/ \E a \in Agents : Expire(a) \/ Lapse(a)
    \/ \E t \in tasks : HandlerStep(t)
    \/ \E s \in Sessions : LockExpires(s)

Spec == Init /\ [][Next]_vars

\* The loops and the handlers of a running core run, keys expire, and a free
\* agent is claimed.
FairSpec ==
    /\ Spec
    /\ \A c \in Cores :
          /\ WF_vars(Refresh(c))
          /\ \A s \in Streams : WF_vars(Deliver(c, s))
          /\ WF_vars(\E e \in pel : Reclaim(c, e))
          /\ WF_vars(\E t \in TasksOf(c) : HandlerStep(t))
    /\ \A a \in Agents : WF_vars(Expire(a)) /\ WF_vars(\E c \in Cores : Claim(c, a))
    /\ \A s \in Sessions : WF_vars(LockExpires(s))

-----------------------------------------------------------------------------
(* Properties *)

\* A published message that was not processed is still in Redis, where a core
\* will get it: not yet delivered, or in the PEL.
Recoverable(m) ==
    \E s \in Streams : \E i \in Entries(s) :
        log[s][i] = m /\ (i > group[s] \/ <<s, i>> \in pel)
Lost == {m \in Messages : Published(m) /\ processed[m] = 0 /\ ~Recoverable(m)}

\* Crashes, shutdowns, changes of the owner, lock contention, errors and lost
\* acknowledgements lose no message.  Only two things can: the XADD of a reroute
\* that raises (_handle_message acknowledges all the same), and a group created
\* behind an entry that was added before the first subscription.
LossesHaveCauses == Cardinality(Lost) <= lostAdds + Cardinality(skipped)

\* Every additional processing of a message has a cause of its own: a core that
\* went down between the work and the acknowledgement, a lost acknowledgement,
\* or an entry reclaimed under its handler.
DuplicatesHaveCauses ==
    \A m \in Messages : processed[m] <= 1 + downs + lostAcks + slow

\* Every message is processed in the end.
AllProcessed == \A m \in Messages : Published(m) ~> processed[m] > 0

\* Every pending entry, the duplicates included, is acknowledged in the end.
PelDrains == []<>(pel = {})

\* Claim of the code that does not hold: _reroute_to_owner (inbound_worker.py:498),
\* "the reroute failed: the original stream is still not acknowledged, and
\* XAUTOCLAIM redelivers".
NothingLost == Lost = {}
=============================================================================
