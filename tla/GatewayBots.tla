---------------------------- MODULE GatewayBots ----------------------------
(***************************************************************************)
(* The WeCom bots of the gateways: which gateway holds a bot's WebSocket   *)
(* (agent/ai-platform/gateway/src: cluster/ownership.ts,                   *)
(* channels/BotRegistry.ts, index.ts).                                     *)
(*                                                                         *)
(* A bot allows one connection.  Its owner key in Redis is a lease, which  *)
(* a gateway claims in every reconcile pass and renews in its heartbeat;   *)
(* the winner starts the bot's adapter, the loser stops it.  A pass polls  *)
(* the list of bots and works through it with awaits in between; the       *)
(* heartbeat's onLost and the shutdown change the same registry meanwhile. *)
(*                                                                         *)
(* `run` is the adapter client's shouldRun: the client is connected or     *)
(* keeps trying to connect.  `started` is the registry's flag: start() did *)
(* not raise.  A start that fails leaves the client running.               *)
(***************************************************************************)
EXTENDS Integers, FiniteSets

CONSTANTS
    Gateways, Bots,
    NoOwner,            \* the value of a missing owner key
    NoBot,              \* a task that is not busy with a bot
    Disturbances,       \* what may go wrong, once each: "lapse" (a lease expires although
                        \*   its gateway renews it), "error" (a Redis command raises),
                        \*   "failure" (a start fails), "crash" and "shutdown"
    MaxDisturbances,    \* bound: how many of them happen in one behaviour
    MaxVersion,         \* bound: connection settings (wsUrl, secret) of a bot; 0: not listed
    MaxChanges          \* bound: changes of the list of bots

ASSUME SentinelAssumption == NoOwner \notin Gateways /\ NoBot \notin Bots
ASSUME BoundAssumption == MaxVersion \in Nat \ {0} /\ MaxChanges \in Nat

VARIABLES
    lease,      \* value of each owner key
    config,     \* the backend's list: each bot's settings
    stage,      \* "up", "releasing", "closing" or "down"
    releasing,  \* leases that a gateway's releaseAll has yet to release
    owned,      \* BotOwnership.ownedBots
    entries,    \* BotRegistry.entries: [version, started, run]; version 0: no entry
    leaked,     \* bots of which a discarded adapter still runs
    sync,       \* the reconcile pass: [at, todo, bot, desired, ok]
    beat,       \* the heartbeat round: [at, todo, bot, ok]
    disturbed,  \* the disturbances that happened
    changes     \* changes of the list so far

registry == <<owned, entries, leaked>>
tasks == <<sync, beat>>
gates == <<stage, releasing>>
bounds == <<disturbed, changes>>
vars == <<lease, config, gates, registry, tasks, bounds>>

Configs == [Bots -> 0..MaxVersion]
NoEntry == [version |-> 0, started |-> FALSE, run |-> FALSE]
NoSync == [at |-> "idle", todo |-> {}, bot |-> NoBot, desired |-> [b \in Bots |-> 0], ok |-> FALSE]
NoBeat == [at |-> "idle", todo |-> {}, bot |-> NoBot, ok |-> FALSE]

TypeOK ==
    /\ lease \in [Bots -> Gateways \cup {NoOwner}] /\ config \in Configs
    /\ stage \in [Gateways -> {"up", "releasing", "closing", "down"}]
    /\ releasing \in [Gateways -> SUBSET Bots] /\ owned \in [Gateways -> SUBSET Bots]
    /\ entries \in [Gateways -> [Bots -> [version : 0..MaxVersion, started : BOOLEAN, run : BOOLEAN]]]
    /\ leaked \in [Gateways -> SUBSET Bots]
    /\ sync \in [Gateways -> [at : {"idle", "visit", "claimed", "start"}, todo : SUBSET Bots,
                              bot : Bots \cup {NoBot}, desired : Configs, ok : BOOLEAN]]
    /\ beat \in [Gateways -> [at : {"idle", "next", "renewed"}, todo : SUBSET Bots,
                              bot : Bots \cup {NoBot}, ok : BOOLEAN]]
    /\ disturbed \subseteq Disturbances /\ changes \in 0..MaxChanges
    \* a started adapter's client runs
    /\ \A g \in Gateways, b \in Bots : entries[g][b].started => entries[g][b].run

Init ==
    /\ lease = [b \in Bots |-> NoOwner]
    /\ config = [b \in Bots |-> 1]
    /\ stage = [g \in Gateways |-> "up"]
    /\ releasing = [g \in Gateways |-> {}]
    /\ owned = [g \in Gateways |-> {}]
    /\ entries = [g \in Gateways |-> [b \in Bots |-> NoEntry]]
    /\ leaked = [g \in Gateways |-> {}]
    /\ sync = [g \in Gateways |-> NoSync]
    /\ beat = [g \in Gateways |-> NoBeat]
    /\ disturbed = {} /\ changes = 0

Disturb(kind) ==
    /\ kind \in Disturbances \ disturbed /\ Cardinality(disturbed) < MaxDisturbances
    /\ disturbed' = disturbed \cup {kind}
    /\ UNCHANGED changes

\* The list of bots changes: a bot is added, removed or gets other settings.
Reconfigure(b) ==
    /\ changes < MaxChanges /\ changes' = changes + 1
    /\ \E v \in (0..MaxVersion) \ {config[b]} : config' = [config EXCEPT ![b] = v]
    /\ UNCHANGED <<lease, gates, registry, tasks, disturbed>>

-----------------------------------------------------------------------------
(* BotOwnership and BotRegistry: the operations *)

\* The claim script.
MutGranted(g, b) == TRUE
Granted(g, b) == lease[b] \in {NoOwner, g}

\* stopBot: an entry that is not started is left alone, running client or not.
MutStopped(e) == [e EXCEPT !.started = FALSE]
MutStoppedFlag(e) == [e EXCEPT !.run = FALSE]
Stopped(e) == IF e.started THEN [e EXCEPT !.started = FALSE, !.run = FALSE] ELSE e
StopBot(g, b) == [entries EXCEPT ![g][b] = Stopped(@)]

\* An entry's adapter is dropped: only a started one is disconnected before.
Discards(g, b) == ~entries[g][b].started /\ entries[g][b].run

-----------------------------------------------------------------------------
(* A reconcile pass.  The first pass after a start is startOwnedBots. *)

SyncStart(g) ==
    /\ stage[g] = "up" /\ sync[g].at = "idle"
    /\ sync' = [sync EXCEPT ![g] = [NoSync EXCEPT !.at = "visit", !.desired = config,
                                                  !.todo = {b \in Bots : config[b] # 0}]]
    /\ UNCHANGED <<lease, config, gates, registry, beat, bounds>>

\* The entry is made, or its adapter made anew for other settings.
UpToDate(g, b) ==
    LET v == sync[g].desired[b] IN
    IF entries[g][b].version = v THEN UNCHANGED <<entries, leaked>>
    ELSE /\ entries' = [entries EXCEPT ![g][b] = [NoEntry EXCEPT !.version = v]]
         /\ leaked' = [leaked EXCEPT ![g] = IF Discards(g, b) THEN @ \cup {b} ELSE @]

\* Then the bot is claimed.
SyncClaim(g, b) ==
    /\ sync[g].at = "visit" /\ b \in sync[g].todo /\ stage[g] # "down"
    /\ UpToDate(g, b)
    /\ lease' = [lease EXCEPT ![b] = IF Granted(g, b) THEN g ELSE @]
    /\ sync' = [sync EXCEPT ![g].at = "claimed", ![g].bot = b, ![g].todo = @ \ {b},
                            ![g].ok = Granted(g, b)]
    /\ UNCHANGED <<config, gates, owned, beat, bounds>>

\* The claim raises, before or after it ran: the pass ends.
SyncClaimError(g, b) ==
    /\ sync[g].at = "visit" /\ b \in sync[g].todo /\ stage[g] # "down"
    /\ Disturb("error")
    /\ UpToDate(g, b)
    /\ \/ UNCHANGED lease
       \/ lease' = [lease EXCEPT ![b] = IF Granted(g, b) THEN g ELSE @]
    /\ sync' = [sync EXCEPT ![g] = NoSync]
    /\ UNCHANGED <<config, gates, owned, beat>>

\* The loser stops.
SyncRefused(g) ==
    LET b == sync[g].bot IN
    /\ sync[g].at = "claimed" /\ ~sync[g].ok
    /\ owned' = [owned EXCEPT ![g] = @ \ {b}]
    /\ entries' = StopBot(g, b)
    /\ sync' = [sync EXCEPT ![g].at = "visit", ![g].bot = NoBot]
    /\ UNCHANGED <<lease, config, gates, leaked, beat, bounds>>

\* The winner starts, unless it is started: connect() sets shouldRun.
MutNeedsStart(e) == ~e.run
NeedsStart(e) == ~e.started

SyncGranted(g) ==
    LET b == sync[g].bot IN
    /\ sync[g].at = "claimed" /\ sync[g].ok
    /\ owned' = [owned EXCEPT ![g] = @ \cup {b}]
    /\ IF ~NeedsStart(entries[g][b])
         THEN entries' = entries /\ sync' = [sync EXCEPT ![g].at = "visit", ![g].bot = NoBot]
         ELSE /\ entries' = [entries EXCEPT ![g][b].run = TRUE]
              /\ sync' = [sync EXCEPT ![g].at = "start"]
    /\ UNCHANGED <<lease, config, gates, leaked, beat, bounds>>

SyncStarted(g) ==
    /\ sync[g].at = "start"
    /\ \/ entries' = [entries EXCEPT ![g][sync[g].bot].started = TRUE] /\ UNCHANGED bounds
       \/ entries' = entries /\ Disturb("failure")
    /\ sync' = [sync EXCEPT ![g].at = "visit", ![g].bot = NoBot]
    /\ UNCHANGED <<lease, config, gates, owned, leaked, beat>>

\* The end of the pass: bots that are no longer listed are stopped and dropped.
\* Their leases are not released.
SyncEnd(g) ==
    LET gone == {b \in Bots : sync[g].desired[b] = 0 /\ entries[g][b].version # 0} IN
    /\ sync[g].at = "visit" /\ sync[g].todo = {}
    /\ entries' = [entries EXCEPT ![g] = [b \in Bots |-> IF b \in gone THEN NoEntry ELSE @[b]]]
    /\ leaked' = [leaked EXCEPT ![g] = @ \cup {b \in gone : Discards(g, b)}]
    /\ sync' = [sync EXCEPT ![g] = NoSync]
    /\ UNCHANGED <<lease, config, gates, owned, beat, bounds>>

-----------------------------------------------------------------------------
(* The heartbeat *)

BeatStart(g) ==
    /\ stage[g] = "up" /\ beat[g].at = "idle" /\ owned[g] # {}
    /\ beat' = [beat EXCEPT ![g].at = "next", ![g].todo = owned[g]]
    /\ UNCHANGED <<lease, config, gates, registry, sync, bounds>>

\* renew() reads the owner and extends the key when it is this gateway's.
BeatRenew(g, b) ==
    /\ beat[g].at = "next" /\ b \in beat[g].todo
    /\ beat' = [beat EXCEPT ![g] = [at |-> "renewed", todo |-> @.todo \ {b}, bot |-> b,
                                    ok |-> lease[b] = g]]
    /\ UNCHANGED <<lease, config, gates, registry, sync, bounds>>

\* A lost lease stops the adapter (onLost), and so does a renewal that raises.
Lost(g, b) ==
    /\ owned' = [owned EXCEPT ![g] = @ \ {b}]
    /\ entries' = StopBot(g, b)

BeatRenewed(g) ==
    /\ beat[g].at = "renewed"
    /\ IF beat[g].ok THEN UNCHANGED <<owned, entries>> ELSE Lost(g, beat[g].bot)
    /\ beat' = [beat EXCEPT ![g].at = "next", ![g].bot = NoBot]
    /\ UNCHANGED <<lease, config, gates, leaked, sync, bounds>>

BeatError(g, b) ==
    /\ beat[g].at = "next" /\ b \in beat[g].todo
    /\ Disturb("error")
    /\ Lost(g, b)
    /\ beat' = [beat EXCEPT ![g].todo = @ \ {b}]
    /\ UNCHANGED <<lease, config, gates, leaked, sync>>

BeatEnd(g) ==
    /\ beat[g].at = "next" /\ beat[g].todo = {}
    /\ beat' = [beat EXCEPT ![g] = NoBeat]
    /\ UNCHANGED <<lease, config, gates, registry, sync, bounds>>

-----------------------------------------------------------------------------
(* Shutdown, crash, restart, expiry *)

OthersUp(g) == \E h \in Gateways \ {g} : stage[h] = "up"

\* Polling and heartbeat are stopped; a pass or a round that runs goes on.
StopBegin(g) ==
    /\ stage[g] = "up" /\ OthersUp(g)
    /\ Disturb("shutdown")
    /\ stage' = [stage EXCEPT ![g] = "releasing"]
    /\ releasing' = [releasing EXCEPT ![g] = owned[g]]
    /\ UNCHANGED <<lease, config, registry, tasks>>

\* releaseAll, lease by lease, ...
StopRelease(g, b) ==
    /\ stage[g] = "releasing" /\ b \in releasing[g]
    /\ lease' = [lease EXCEPT ![b] = IF @ = g THEN NoOwner ELSE @]
    /\ owned' = [owned EXCEPT ![g] = @ \ {b}]
    /\ releasing' = [releasing EXCEPT ![g] = @ \ {b}]
    /\ UNCHANGED <<config, stage, entries, leaked, tasks, bounds>>

\* ... then stopAll, ...
StopAll(g) ==
    /\ stage[g] = "releasing" /\ releasing[g] = {}
    /\ stage' = [stage EXCEPT ![g] = "closing"]
    /\ entries' = [entries EXCEPT ![g] = [b \in Bots |-> Stopped(@[b])]]
    /\ UNCHANGED <<lease, config, releasing, owned, leaked, tasks, bounds>>

\* ... and the process ends.
Ends(g) ==
    /\ stage' = [stage EXCEPT ![g] = "down"]
    /\ releasing' = [releasing EXCEPT ![g] = {}]
    /\ owned' = [owned EXCEPT ![g] = {}]
    /\ entries' = [entries EXCEPT ![g] = [b \in Bots |-> NoEntry]]
    /\ leaked' = [leaked EXCEPT ![g] = {}]
    /\ sync' = [sync EXCEPT ![g] = NoSync]
    /\ beat' = [beat EXCEPT ![g] = NoBeat]
    /\ UNCHANGED <<lease, config>>

Exit(g) == stage[g] = "closing" /\ Ends(g) /\ UNCHANGED bounds
Crash(g) == stage[g] # "down" /\ OthersUp(g) /\ Ends(g) /\ Disturb("crash")

Restart(g) ==
    /\ stage[g] = "down"
    /\ stage' = [stage EXCEPT ![g] = "up"]
    /\ UNCHANGED <<lease, config, releasing, registry, tasks, bounds>>

\* A lease is renewed while its gateway is up and tracks it, or is about to.
Renewed(b) ==
    \E g \in Gateways :
       /\ lease[b] = g /\ stage[g] = "up"
       /\ b \in owned[g] \/ (sync[g].at = "claimed" /\ sync[g].bot = b)

Expire(b) ==
    /\ lease[b] # NoOwner /\ ~Renewed(b)
    /\ lease' = [lease EXCEPT ![b] = NoOwner]
    /\ UNCHANGED <<config, gates, registry, tasks, bounds>>

Lapse(b) ==
    /\ Renewed(b) /\ Disturb("lapse")
    /\ lease' = [lease EXCEPT ![b] = NoOwner]
    /\ UNCHANGED <<config, gates, registry, tasks>>

-----------------------------------------------------------------------------

SyncStep(g) ==
    \/ SyncStart(g) \/ (\E b \in Bots : SyncClaim(g, b))
    \/ SyncRefused(g) \/ SyncGranted(g) \/ SyncStarted(g) \/ SyncEnd(g)

BeatStep(g) ==
    \/ BeatStart(g) \/ (\E b \in Bots : BeatRenew(g, b)) \/ BeatRenewed(g) \/ BeatEnd(g)

StopStep(g) == (\E b \in Bots : StopRelease(g, b)) \/ StopAll(g) \/ Exit(g)

Next ==
    \/ \E g \in Gateways :
          \/ SyncStep(g) \/ BeatStep(g) \/ StopStep(g)
          \/ StopBegin(g) \/ Crash(g) \/ Restart(g)
          \/ \E b \in Bots : SyncClaimError(g, b) \/ BeatError(g, b)
    \/ \E b \in Bots : Reconfigure(b) \/ Expire(b) \/ Lapse(b)

Spec == Init /\ [][Next]_vars

\* Polling, heartbeat and shutdown of a running gateway go on, and Redis expires
\* what nobody renews.
FairSpec ==
    /\ Spec
    /\ \A g \in Gateways : WF_vars(SyncStep(g)) /\ WF_vars(BeatStep(g)) /\ WF_vars(StopStep(g))
    /\ \A b \in Bots : WF_vars(Expire(b))

-----------------------------------------------------------------------------
(* Properties *)

Connected(g, b) == entries[g][b].run \/ b \in leaked[g]
Serves(g, b) ==
    lease[b] = g /\ stage[g] = "up" /\ entries[g][b].started /\ entries[g][b].version = config[b]

\* "One bot, one WebSocket" (ownership.ts:4-5) holds through crashes, restarts,
\* changes of the list and every interleaving of passes and heartbeats, as long
\* as no lease lapses, no command and no start fails and no gateway is shut down
\* gracefully.
OneConnection ==
    disturbed \subseteq {"crash"} =>
        \A b \in Bots, g, h \in Gateways : Connected(g, b) /\ Connected(h, b) => g = h

\* Every listed bot is in the end served, with its current settings, by the
\* gateway that owns it, whatever happened before (reconcile, startOwnedBots).
BotServed == <>[](\A b \in Bots : config[b] # 0 => \E g \in Gateways : Serves(g, b))

\* Unless a start failed, in the end no other gateway is connected to the bot, and
\* nobody to one that is not listed.
OthersDisconnect ==
    \/ <>("failure" \in disturbed)
    \/ <>[](\A b \in Bots, g \in Gateways : Connected(g, b) => config[b] # 0 /\ Serves(g, b))

\* The owner keys are leases, on which connected gateways rely as long as nothing
\* but crashes disturbs them: what OneConnection says of two gateways, and that no
\* step takes a bot from a connected one.
ConnectionRelies ==
    {r \in Gateways \X Bots : disturbed \subseteq {"crash"} /\ Connected(r[1], r[2])}
Contract == INSTANCE LeaseContract WITH
                Clients <- Gateways, Keys <- Bots, Nobody <- NoOwner,
                holder <- lease, relies <- ConnectionRelies
ImplementsContract == Contract!Spec

\* Claim of the code that does not hold: reconcile (BotRegistry.ts:344-346), "stops
\* the local instance when another gateway has the lease, to avoid a double
\* connection".
LoserDisconnects ==
    \A g \in Gateways, b \in Bots :
        (Connected(g, b) /\ lease[b] # g) ~> (~Connected(g, b) \/ lease[b] = g)
=============================================================================
