---------------------------- MODULE GatewayProofs ----------------------------
(***************************************************************************)
(* Proofs about the gateways.                                              *)
(*                                                                         *)
(* The bots (GatewayBots): one connection for each bot, for any number of  *)
(* gateways, bots, settings and changes of the list, as long as nothing    *)
(* but crashes disturbs them.                                              *)
(*                                                                         *)
(* The answers (ReplyStreams): no event is written twice into a reply, for *)
(* any number of gateways, sessions, messages and faults.  What is pending *)
(* is in one hand or orphaned, never twice; what an open reply shows was   *)
(* delivered to its gateway and is pending nowhere, but for the entry      *)
(* whose handler awaits the last frame there; so an entry that is handled  *)
(* has not been shown yet.                                                 *)
(***************************************************************************)
EXTENDS GatewayBots, ReplyStreams, FiniteSetTheorems, TLAPS

-----------------------------------------------------------------------------
(* GatewayBots: the invariant *)

\* Nothing but crashes happened so far.
Calm == disturbed \subseteq {"crash"}

\* A gateway that is down has lost its memory.
DownIsEmpty ==
    \A g \in Gateways : stage[g] = "down" =>
        owned[g] = {} /\ sync[g] = NoSync /\ beat[g] = NoBeat

\* A start under way is one of a client that runs and is not started yet, and a
\* task is at a bot.
TasksAtBots ==
    \A g \in Gateways :
        /\ sync[g].at \in {"claimed", "start"} => sync[g].bot \in Bots
        /\ beat[g].at = "renewed" => beat[g].bot \in Bots
        /\ sync[g].at = "start" =>
              entries[g][sync[g].bot].run /\ ~entries[g][sync[g].bot].started

\* In calm a gateway that tracks a bot, or was just granted it, has the lease ...
TrackedIsLeased ==
    \A g \in Gateways :
        /\ stage[g] \in {"up", "down"}
        /\ \A b \in owned[g] : lease[b] = g
        /\ sync[g].at = "claimed" /\ sync[g].ok => lease[sync[g].bot] = g
        /\ sync[g].at = "claimed" /\ ~sync[g].ok => sync[g].bot \notin owned[g]

\* ... its heartbeat finds every lease in place ...
BeatsSucceed ==
    \A g \in Gateways :
        beat[g].todo \subseteq owned[g] /\ (beat[g].at = "renewed" => beat[g].ok)

\* ... a client that runs is that of a tracked bot, is started or just starting ...
RunsTracked ==
    \A g \in Gateways, b \in Bots : entries[g][b].run =>
        /\ b \in owned[g]
        /\ entries[g][b].started \/ (sync[g].at = "start" /\ sync[g].bot = b)

\* ... and no running adapter is discarded.
NothingLeaked == \A g \in Gateways : leaked[g] = {}

CalmInv == TrackedIsLeased /\ BeatsSucceed /\ RunsTracked /\ NothingLeaked

IInv == TypeOK /\ DownIsEmpty /\ TasksAtBots /\ (Calm => CalmInv)

Entry == [version : 0..MaxVersion, started : BOOLEAN, run : BOOLEAN]
Registry == [Gateways -> [Bots -> Entry]]
SyncType == [at : {"idle", "visit", "claimed", "start"}, todo : SUBSET Bots,
             bot : Bots \cup {NoBot}, desired : Configs, ok : BOOLEAN]
BeatType == [at : {"idle", "next", "renewed"}, todo : SUBSET Bots, bot : Bots \cup {NoBot},
             ok : BOOLEAN]

\* The rest of TypeOK.
StartedRun == \A g \in Gateways, b \in Bots : entries[g][b].started => entries[g][b].run
RestOK ==
    /\ lease \in [Bots -> Gateways \cup {NoOwner}] /\ config \in Configs
    /\ stage \in [Gateways -> {"up", "releasing", "closing", "down"}]
    /\ releasing \in [Gateways -> SUBSET Bots] /\ owned \in [Gateways -> SUBSET Bots]
    /\ leaked \in [Gateways -> SUBSET Bots]
    /\ disturbed \subseteq Disturbances /\ changes \in 0..MaxChanges

\* stopBot keeps what the invariant says of the entries.
LEMMA StopBotKeeps ==
    ASSUME TypeOK, NEW g \in Gateways, NEW b \in Bots, entries' = StopBot(g, b)
    PROVE  /\ entries' \in Registry
           /\ \A h \in Gateways, c \in Bots :
                 /\ entries'[h][c].started => entries'[h][c].run /\ entries[h][c].started
                 /\ entries'[h][c].run => entries[h][c].run
                 /\ (entries[h][c].run /\ ~entries[h][c].started) =>
                       (entries'[h][c].run /\ ~entries'[h][c].started)
                 /\ entries'[h][c].run /\ entries[h][c].started => entries'[h][c].started
           /\ entries[g][b].started => ~entries'[g][b].run
<1> DEFINE e == entries[g][b]
<1>1. e \in Entry /\ entries \in Registry /\ (e.started => e.run)
    BY DEF TypeOK, Entry, Registry
<1>2. /\ Stopped(e) \in Entry
      /\ ~Stopped(e).started
      /\ Stopped(e).run <=> e.run /\ ~e.started
    BY <1>1 DEF Stopped, Entry
<1>3. \A h \in Gateways, c \in Bots :
         entries'[h][c] = IF h = g /\ c = b THEN Stopped(e) ELSE entries[h][c]
    BY <1>1 DEF StopBot, Registry
<1>4. entries' \in Registry
    BY <1>1, <1>2 DEF StopBot, Registry
<1>5. ASSUME NEW h \in Gateways, NEW c \in Bots
      PROVE  /\ entries'[h][c].started => entries'[h][c].run /\ entries[h][c].started
             /\ entries'[h][c].run => entries[h][c].run
             /\ (entries[h][c].run /\ ~entries[h][c].started) =>
                   (entries'[h][c].run /\ ~entries'[h][c].started)
             /\ entries'[h][c].run /\ entries[h][c].started => entries'[h][c].started
  <2>1. CASE h = g /\ c = b
    <3>1. entries'[h][c] = Stopped(e) /\ entries[h][c] = e
        BY <1>3, <2>1
    <3>2. QED
        BY <1>2, <3>1
  <2>2. CASE ~(h = g /\ c = b)
    <3>1. entries'[h][c] = entries[h][c]
        BY <1>3, <2>2
    <3>2. entries[h][c].started => entries[h][c].run
        BY DEF TypeOK
    <3>3. QED
        BY <3>1, <3>2
  <2>3. QED
      BY <2>1, <2>2
<1>6. entries[g][b].started => ~entries'[g][b].run
    BY <1>2, <1>3
<1>7. QED
    BY <1>4, <1>5, <1>6

\* One entry is replaced.
LEMMA PutEntry ==
    ASSUME entries \in Registry, NEW g \in Gateways, NEW b \in Bots, NEW e \in Entry,
           entries' = [entries EXCEPT ![g][b] = e]
    PROVE  /\ entries' \in Registry
           /\ \A h \in Gateways, c \in Bots :
                 entries'[h][c] = IF h = g /\ c = b THEN e ELSE entries[h][c]
BY DEF Registry

\* A pass makes an entry anew, or leaves the entries alone; what it discards runs.
LEMMA UpToDateKeeps ==
    ASSUME TypeOK, NEW g \in Gateways, NEW b \in Bots, UpToDate(g, b)
    PROVE  /\ entries' \in Registry /\ leaked' \in [Gateways -> SUBSET Bots]
           /\ \A h \in Gateways, c \in Bots :
                 \/ entries'[h][c] = entries[h][c]
                 \/ h = g /\ c = b /\ ~entries'[h][c].started /\ ~entries'[h][c].run
           /\ \A h \in Gateways : leaked'[h] \subseteq leaked[h] \cup {c \in {b} : h = g /\ Discards(g, b)}
<1> DEFINE e == [NoEntry EXCEPT !.version = sync[g].desired[b]]
<1>1. entries \in Registry /\ leaked \in [Gateways -> SUBSET Bots]
    BY DEF TypeOK, Registry, Entry
<1>2. sync[g].desired[b] \in 0..MaxVersion
    BY DEF TypeOK, Configs
<1>3. e \in Entry /\ ~e.started /\ ~e.run
    BY <1>2 DEF NoEntry, Entry
<1>4. CASE UNCHANGED <<entries, leaked>>
    BY <1>1, <1>4
<1>5. CASE /\ entries' = [entries EXCEPT ![g][b] = e]
           /\ leaked' = [leaked EXCEPT ![g] = IF Discards(g, b) THEN @ \cup {b} ELSE @]
  <2>1. /\ entries' \in Registry
        /\ \A h \in Gateways, c \in Bots :
              entries'[h][c] = IF h = g /\ c = b THEN e ELSE entries[h][c]
    <3> HIDE DEF e
    <3>1. entries' = [entries EXCEPT ![g][b] = e]
        BY <1>5
    <3>2. QED
        BY <1>1, <1>3, <3>1, PutEntry
  <2>2. /\ leaked' \in [Gateways -> SUBSET Bots]
        /\ \A h \in Gateways : leaked'[h] \subseteq leaked[h] \cup {c \in {b} : h = g /\ Discards(g, b)}
      BY <1>1, <1>5
  <2>3. QED
      BY <2>1, <2>2, <1>3
<1>6. QED
    BY <1>4, <1>5 DEF UpToDate

LEMMA InitIInv == Init => IInv
<1> SUFFICES ASSUME Init PROVE IInv
    OBVIOUS
<1>1. NoEntry \in Entry /\ NoSync \in SyncType /\ NoBeat \in BeatType
    BY SentinelAssumption, BoundAssumption
       DEF NoEntry, Entry, NoSync, SyncType, NoBeat, BeatType, Configs
<1>2. TypeOK
    BY <1>1, BoundAssumption DEF Init, TypeOK, Entry, SyncType, BeatType, Configs, NoEntry
<1>3. DownIsEmpty /\ TasksAtBots
    BY DEF Init, DownIsEmpty, TasksAtBots, NoSync, NoBeat
<1>4. CalmInv
    BY DEF Init, CalmInv, TrackedIsLeased, BeatsSucceed, RunsTracked, NothingLeaked,
           NoSync, NoBeat, NoEntry
<1>5. QED
    BY <1>2, <1>3, <1>4 DEF IInv

LEMMA StepIInv == IInv /\ [Next]_vars => IInv'
<1> SUFFICES ASSUME IInv, [Next]_vars PROVE IInv'
    OBVIOUS
<1> USE SentinelAssumption, BoundAssumption DEF IInv
<1>t. /\ entries \in Registry /\ StartedRun /\ RestOK
      /\ sync \in [Gateways -> SyncType] /\ beat \in [Gateways -> BeatType]
      /\ NoEntry \in Entry /\ NoSync \in SyncType /\ NoBeat \in BeatType
    BY DEF TypeOK, Registry, Entry, SyncType, BeatType, NoEntry, NoSync, NoBeat, Configs,
           StartedRun, RestOK
<1>q. ASSUME entries' \in Registry, StartedRun', RestOK',
             sync' \in [Gateways -> SyncType], beat' \in [Gateways -> BeatType]
      PROVE  TypeOK'
    BY <1>q DEF TypeOK, Registry, Entry, SyncType, BeatType, StartedRun, RestOK
<1>1. ASSUME NEW b \in Bots, Reconfigure(b) PROVE IInv'
  <2>1. TypeOK'
    <3>1. entries' \in Registry /\ StartedRun'
        BY <1>1, <1>t DEF Reconfigure, StartedRun, registry, Registry, Entry
    <3>2. sync' \in [Gateways -> SyncType]
        BY <1>1, <1>t DEF Reconfigure, tasks, SyncType
    <3>3. beat' \in [Gateways -> BeatType]
        BY <1>1, <1>t DEF Reconfigure, tasks, BeatType
    <3>4. RestOK'
        BY <1>1, <1>t DEF Reconfigure, RestOK, registry, tasks, gates, bounds, Configs
    <3>5. QED
        BY <1>q, <3>1, <3>2, <3>3, <3>4
  <2>2. DownIsEmpty' /\ TasksAtBots'
      BY <1>1, <1>t DEF Reconfigure, DownIsEmpty, TasksAtBots, registry, tasks, gates, bounds,
         RestOK
  <2>3. Calm' => CalmInv'
      BY <1>1, <1>t DEF Reconfigure, DownIsEmpty, TasksAtBots, Calm, CalmInv, TrackedIsLeased,
         BeatsSucceed, RunsTracked, NothingLeaked, registry, tasks, gates, bounds, RestOK,
         Registry, SyncType, BeatType
  <2>4. QED
      BY <2>1, <2>2, <2>3
<1>2. ASSUME NEW g \in Gateways, SyncStart(g) PROVE IInv'
  <2>1. TypeOK'
      BY <1>2, <1>t DEF SyncStart, NoSync, Configs, TypeOK, Registry, Entry, SyncType, BeatType,
         registry, tasks, gates, bounds
  <2>2. DownIsEmpty' /\ TasksAtBots'
      BY <1>2, <1>t DEF SyncStart, NoSync, Configs, DownIsEmpty, TasksAtBots, registry, tasks,
         gates, bounds, RestOK
  <2>3. Calm' => CalmInv'
      BY <1>2, <1>t DEF SyncStart, NoSync, Configs, DownIsEmpty, TasksAtBots, Calm, CalmInv,
         TrackedIsLeased, BeatsSucceed, RunsTracked, NothingLeaked, registry, tasks, gates,
         bounds, RestOK, Registry, SyncType, BeatType
  <2>4. QED
      BY <2>1, <2>2, <2>3
<1>3. ASSUME NEW g \in Gateways, NEW b \in Bots, SyncClaim(g, b) PROVE IInv'
  <2>u. /\ entries' \in Registry /\ leaked' \in [Gateways -> SUBSET Bots]
        /\ \A h \in Gateways, c \in Bots :
              \/ entries'[h][c] = entries[h][c]
              \/ h = g /\ c = b /\ ~entries'[h][c].started /\ ~entries'[h][c].run
        /\ \A h \in Gateways : leaked'[h] \subseteq leaked[h] \cup {c \in {b} : h = g /\ Discards(g, b)}
      BY <1>3, UpToDateKeeps DEF SyncClaim
  <2>s. /\ sync' \in [Gateways -> SyncType]
        /\ \A h \in Gateways : h # g => sync'[h] = sync[h]
        /\ sync'[g].at = "claimed" /\ sync'[g].bot = b /\ (sync'[g].ok <=> Granted(g, b))
      BY <1>3, <1>t DEF SyncClaim, SyncType, Granted
  <2>1. TypeOK'
    <3>1. StartedRun'
        BY <1>t, <2>u DEF StartedRun
    <3>2. RestOK' /\ beat' = beat
        BY <1>3, <1>t, <2>u DEF SyncClaim, RestOK, gates, bounds, registry
    <3>3. QED
        BY <1>q, <1>t, <2>u, <2>s, <3>1, <3>2
  <2>2. DownIsEmpty' /\ TasksAtBots'
    <3>1. stage' = stage /\ owned' = owned /\ beat' = beat /\ stage[g] # "down"
        BY <1>3 DEF SyncClaim, gates
    <3>2. DownIsEmpty'
        BY <2>s, <3>1 DEF DownIsEmpty
    <3>3. TasksAtBots'
        BY <2>s, <2>u, <3>1 DEF TasksAtBots
    <3>4. QED
        BY <3>2, <3>3
  <2>3. Calm' => CalmInv'
    <3>1. SUFFICES ASSUME Calm' PROVE CalmInv'
        OBVIOUS
    <3>2. Calm /\ CalmInv
        BY <1>3, <3>1 DEF SyncClaim, Calm, bounds
    <3>3. /\ stage' = stage /\ owned' = owned /\ beat' = beat /\ sync[g].at = "visit"
          /\ \A c \in Bots : lease'[c] = IF c = b /\ Granted(g, b) THEN g ELSE lease[c]
        BY <1>3, <1>t DEF SyncClaim, gates, RestOK
    <3>4. \A h \in Gateways : owned[h] \subseteq Bots
        BY <1>t DEF RestOK
    <3>5. Granted(g, b) <=> lease[b] \in {NoOwner, g}
        BY DEF Granted
    <3>6. TrackedIsLeased'
      <4>1. ASSUME NEW h \in Gateways
            PROVE  \A c \in owned[h] : lease'[c] = h
          BY <3>2, <3>3, <3>4, <3>5 DEF CalmInv, TrackedIsLeased
      <4>2. ASSUME NEW h \in Gateways, h # g, sync[h].at = "claimed", sync[h].ok
            PROVE  lease'[sync[h].bot] = h
        <5>1. sync[h].bot \in Bots /\ lease[sync[h].bot] = h
            BY <4>2, <3>2 DEF CalmInv, TrackedIsLeased, TasksAtBots
        <5>2. QED
            BY <4>2, <5>1, <3>3, <3>5
      <4>3. sync'[g].ok => lease'[sync'[g].bot] = g
          BY <2>s, <3>3
      <4>4. ~sync'[g].ok => sync'[g].bot \notin owned[g]
          BY <2>s, <3>2, <3>5 DEF CalmInv, TrackedIsLeased
      <4>5. ASSUME NEW h \in Gateways
            PROVE  /\ stage'[h] \in {"up", "down"}
                   /\ \A c \in owned'[h] : lease'[c] = h
                   /\ sync'[h].at = "claimed" /\ sync'[h].ok => lease'[sync'[h].bot] = h
                   /\ sync'[h].at = "claimed" /\ ~sync'[h].ok => sync'[h].bot \notin owned'[h]
        <5>1. CASE h = g
            BY <5>1, <4>1, <4>3, <4>4, <3>2, <3>3 DEF CalmInv, TrackedIsLeased
        <5>2. CASE h # g
          <6>1. sync'[h] = sync[h]
              BY <2>s, <5>2
          <6>2. QED
              BY <6>1, <5>2, <4>1, <4>2, <3>2, <3>3 DEF CalmInv, TrackedIsLeased
        <5>3. QED
            BY <5>1, <5>2
      <4>6. QED
          BY <4>5 DEF TrackedIsLeased
    <3>7. BeatsSucceed'
        BY <3>2, <3>3 DEF CalmInv, BeatsSucceed
    <3>8. RunsTracked'
        BY <2>u, <2>s, <3>2, <3>3 DEF CalmInv, RunsTracked
    <3>9. ~Discards(g, b)
        BY <3>2, <3>3 DEF CalmInv, RunsTracked, Discards
    <3>10. NothingLeaked'
        BY <2>u, <3>2, <3>9 DEF CalmInv, NothingLeaked
    <3>11. QED
        BY <3>6, <3>7, <3>8, <3>10 DEF CalmInv
  <2>4. QED
      BY <2>1, <2>2, <2>3
<1>4. ASSUME NEW g \in Gateways, NEW b \in Bots, SyncClaimError(g, b) PROVE IInv'
  <2>u. /\ entries' \in Registry /\ leaked' \in [Gateways -> SUBSET Bots]
        /\ \A h \in Gateways, c \in Bots :
              \/ entries'[h][c] = entries[h][c]
              \/ h = g /\ c = b /\ ~entries'[h][c].started /\ ~entries'[h][c].run
        /\ \A h \in Gateways : leaked'[h] \subseteq leaked[h] \cup {c \in {b} : h = g /\ Discards(g, b)}
      BY <1>4, UpToDateKeeps DEF SyncClaimError
  <2>s. sync' = [sync EXCEPT ![g] = NoSync] /\ beat' = beat /\ stage' = stage /\ owned' = owned
      BY <1>4 DEF SyncClaimError, gates
  <2>1. TypeOK'
    <3>1. StartedRun'
        BY <1>t, <2>u DEF StartedRun
    <3>2. RestOK'
        BY <1>4, <1>t, <2>u DEF SyncClaimError, Disturb, RestOK, gates
    <3>3. sync' \in [Gateways -> SyncType] /\ beat' \in [Gateways -> BeatType]
        BY <1>t, <2>s
    <3>4. QED
        BY <1>q, <2>u, <3>1, <3>2, <3>3
  <2>2. DownIsEmpty' /\ TasksAtBots'
    <3>1. sync'[g] = NoSync /\ \A h \in Gateways : h # g => sync'[h] = sync[h]
        BY <1>t, <2>s
    <3>2. DownIsEmpty'
        BY <2>s, <3>1 DEF DownIsEmpty
    <3>3. sync'[g].at = "idle"
        BY <3>1 DEF NoSync
    <3>4. TasksAtBots'
        BY <2>s, <2>u, <3>1, <3>3 DEF TasksAtBots
    <3>5. QED
        BY <3>2, <3>4
  <2>3. Calm' => CalmInv'
      BY <1>4 DEF SyncClaimError, Disturb, Calm
  <2>4. QED
      BY <2>1, <2>2, <2>3
<1>5. ASSUME NEW g \in Gateways, SyncRefused(g) PROVE IInv'
  <2>b. sync[g].bot \in Bots
      BY <1>5 DEF SyncRefused, TasksAtBots
  <2>u. /\ entries' \in Registry
        /\ \A h \in Gateways, c \in Bots :
              /\ entries'[h][c].started => entries'[h][c].run /\ entries[h][c].started
              /\ entries'[h][c].run => entries[h][c].run
              /\ (entries[h][c].run /\ ~entries[h][c].started) =>
                    (entries'[h][c].run /\ ~entries'[h][c].started)
              /\ entries'[h][c].run /\ entries[h][c].started => entries'[h][c].started
        /\ entries[g][sync[g].bot].started => ~entries'[g][sync[g].bot].run
      BY <1>5, <2>b, StopBotKeeps DEF SyncRefused
  <2>s. /\ sync' \in [Gateways -> SyncType]
        /\ \A h \in Gateways : h # g => sync'[h] = sync[h]
        /\ sync'[g].at = "visit" /\ beat' = beat /\ stage' = stage
        /\ owned' \in [Gateways -> SUBSET Bots]
        /\ \A h \in Gateways : owned'[h] = owned[h] \ {c \in {sync[g].bot} : h = g}
      BY <1>5, <1>t DEF SyncRefused, SyncType, RestOK, gates
  <2>1. TypeOK'
    <3>1. StartedRun'
        BY <2>u DEF StartedRun
    <3>2. RestOK'
        BY <1>5, <1>t, <2>s DEF SyncRefused, RestOK, gates, bounds
    <3>3. QED
        BY <1>q, <1>t, <2>u, <2>s, <3>1, <3>2
  <2>2. DownIsEmpty' /\ TasksAtBots'
    <3>1. stage[g] # "down"
        BY <1>5 DEF SyncRefused, DownIsEmpty, NoSync
    <3>2. DownIsEmpty'
        BY <2>s, <3>1 DEF DownIsEmpty
    <3>3. TasksAtBots'
        BY <2>s, <2>u DEF TasksAtBots
    <3>4. QED
        BY <3>2, <3>3
  <2>3. Calm' => CalmInv'
    <3>1. SUFFICES ASSUME Calm' PROVE CalmInv'
        OBVIOUS
    <3>2. Calm /\ CalmInv
        BY <1>5, <3>1 DEF SyncRefused, Calm, bounds
    <3>3. lease' = lease /\ leaked' = leaked /\ sync[g].at = "claimed" /\ ~sync[g].ok
        BY <1>5 DEF SyncRefused
    <3>4. owned' = owned
      <4>1. sync[g].bot \notin owned[g]
          BY <3>2, <3>3 DEF CalmInv, TrackedIsLeased
      <4>2. QED
          BY <1>5, <1>t, <4>1 DEF SyncRefused, RestOK
    <3>5. TrackedIsLeased'
        BY <2>s, <3>2, <3>3, <3>4 DEF CalmInv, TrackedIsLeased
    <3>6. BeatsSucceed'
        BY <2>s, <3>2, <3>4 DEF CalmInv, BeatsSucceed
    <3>7. RunsTracked'
        BY <2>u, <2>s, <3>2, <3>3, <3>4 DEF CalmInv, RunsTracked
    <3>8. NothingLeaked'
        BY <3>2, <3>3 DEF CalmInv, NothingLeaked
    <3>9. QED
        BY <3>5, <3>6, <3>7, <3>8 DEF CalmInv
  <2>4. QED
      BY <2>1, <2>2, <2>3
<1>6. ASSUME NEW g \in Gateways, SyncGranted(g) PROVE IInv'
  <2>b. /\ sync[g].bot \in Bots /\ stage[g] # "down"
        /\ sync[g].at = "claimed" /\ sync[g].ok
      BY <1>6 DEF SyncGranted, TasksAtBots, DownIsEmpty, NoSync
  <2>0. PICK b \in Bots : b = sync[g].bot
      BY <2>b
  <2>a. entries[g][b] \in Entry
      BY <1>t DEF Registry
  <2>e. PICK e \in Entry : e = [entries[g][b] EXCEPT !.run = TRUE]
      BY <2>a DEF Entry
  <2>r. e.run /\ e.started = entries[g][b].started
      BY <2>a, <2>e DEF Entry
  <2>s. /\ sync' \in [Gateways -> SyncType]
        /\ \A h \in Gateways : h # g => sync'[h] = sync[h]
        /\ beat' = beat /\ stage' = stage /\ lease' = lease /\ leaked' = leaked
      BY <1>6, <1>t DEF SyncGranted, SyncType, gates
  <2>o. owned' = [owned EXCEPT ![g] = @ \cup {b}] /\ owned \in [Gateways -> SUBSET Bots]
      BY <1>6, <1>t, <2>0 DEF SyncGranted, RestOK
  <2>p. /\ owned' \in [Gateways -> SUBSET Bots]
        /\ \A h \in Gateways : owned'[h] = owned[h] \cup {c \in {b} : h = g}
      BY <2>o
  <2>c. \/ /\ entries' = entries /\ sync'[g].at = "visit"
        \/ /\ ~entries[g][b].started /\ sync'[g].at = "start" /\ sync'[g].bot = b
           /\ entries' = [entries EXCEPT ![g][b] = e]
      BY <1>6, <1>t, <2>0, <2>e DEF SyncGranted, NeedsStart, SyncType, Registry
  <2>f. lease[b] = g \/ ~CalmInv
      BY <2>b, <2>0 DEF CalmInv, TrackedIsLeased
  <2>d. ASSUME entries' = [entries EXCEPT ![g][b] = e]
        PROVE  /\ entries' \in Registry
               /\ \A h \in Gateways, c \in Bots :
                     entries'[h][c] = IF h = g /\ c = b THEN e ELSE entries[h][c]
      BY <1>t, <2>d DEF Registry
  <2>1. TypeOK'
    <3>1. entries' \in Registry /\ StartedRun'
        BY <1>t, <2>c, <2>d, <2>r DEF StartedRun
    <3>2. RestOK'
        BY <1>6, <1>t, <2>s, <2>p DEF SyncGranted, RestOK, gates, bounds
    <3>3. QED
        BY <1>q, <1>t, <2>s, <3>1, <3>2
  <2>2. DownIsEmpty' /\ TasksAtBots'
    <3>1. DownIsEmpty'
        BY <2>s, <2>p, <2>b DEF DownIsEmpty
    <3>2. CASE entries' = entries /\ sync'[g].at = "visit"
        BY <2>s, <3>2, <3>1 DEF TasksAtBots
    <3>3. CASE /\ ~entries[g][b].started /\ sync'[g].at = "start" /\ sync'[g].bot = b
               /\ entries' = [entries EXCEPT ![g][b] = e]
        BY <2>s, <2>b, <2>d, <2>r, <3>1, <3>3 DEF TasksAtBots
    <3>4. QED
        BY <2>c, <3>2, <3>3
  <2>3. Calm' => CalmInv'
    <3>1. SUFFICES ASSUME Calm' PROVE CalmInv'
        OBVIOUS
    <3>2. Calm /\ CalmInv
        BY <1>6, <3>1 DEF SyncGranted, Calm, bounds
    <3>3. lease[b] = g
        BY <2>f, <3>2
    <3>4. sync'[g].at \in {"visit", "start"}
        BY <2>c
    <3>5. TrackedIsLeased'
        BY <2>s, <2>p, <3>2, <3>3, <3>4 DEF CalmInv, TrackedIsLeased
    <3>6. BeatsSucceed'
        BY <2>s, <2>p, <3>2 DEF CalmInv, BeatsSucceed
    <3>7. RunsTracked'
      <4>1. CASE entries' = entries /\ sync'[g].at = "visit"
          BY <2>s, <2>p, <2>b, <3>2, <4>1 DEF CalmInv, RunsTracked
      <4>2. CASE /\ ~entries[g][b].started /\ sync'[g].at = "start" /\ sync'[g].bot = b
                 /\ entries' = [entries EXCEPT ![g][b] = e]
          BY <2>s, <2>p, <2>b, <2>d, <2>r, <3>2, <4>2 DEF CalmInv, RunsTracked
      <4>3. QED
          BY <2>c, <4>1, <4>2
    <3>8. NothingLeaked'
        BY <2>s, <2>p, <3>2 DEF CalmInv, NothingLeaked
    <3>9. QED
        BY <3>5, <3>6, <3>7, <3>8 DEF CalmInv
  <2>4. QED
      BY <2>1, <2>2, <2>3
<1>7. ASSUME NEW g \in Gateways, SyncStarted(g) PROVE IInv'
  <2>b. /\ sync[g].bot \in Bots /\ sync[g].at = "start" /\ stage[g] # "down"
        /\ entries[g][sync[g].bot].run
      BY <1>7 DEF SyncStarted, TasksAtBots, DownIsEmpty, NoSync
  <2>0. PICK b \in Bots : b = sync[g].bot
      BY <2>b
  <2>a. entries[g][b] \in Entry /\ entries[g][b].run
      BY <1>t, <2>b, <2>0 DEF Registry
  <2>e. PICK e \in Entry : e = [entries[g][b] EXCEPT !.started = TRUE]
      BY <2>a DEF Entry
  <2>r. e.run /\ e.started
      BY <2>a, <2>e DEF Entry
  <2>s. /\ sync' \in [Gateways -> SyncType]
        /\ \A h \in Gateways : h # g => sync'[h] = sync[h]
        /\ sync'[g].at = "visit"
        /\ UNCHANGED <<beat, stage, releasing, lease, config, leaked, owned>>
      BY <1>7, <1>t DEF SyncStarted, SyncType, gates
  <2>c. /\ entries' = entries \/ entries' = [entries EXCEPT ![g][b] = e]
        /\ ~Calm' \/ (entries' = [entries EXCEPT ![g][b] = e] /\ disturbed' = disturbed)
      BY <1>7, <1>t, <2>0, <2>e DEF SyncStarted, Registry, Disturb, Calm, bounds
  <2>d. ASSUME entries' = [entries EXCEPT ![g][b] = e]
        PROVE  /\ entries' \in Registry
               /\ \A h \in Gateways, c \in Bots :
                     entries'[h][c] = IF h = g /\ c = b THEN e ELSE entries[h][c]
      BY <1>t, <2>d DEF Registry
  <2>1. TypeOK'
    <3>1. entries' \in Registry /\ StartedRun'
        BY <1>t, <2>b, <2>c, <2>d, <2>r DEF StartedRun
    <3>2. RestOK'
        BY <1>7, <1>t, <2>s DEF SyncStarted, Disturb, RestOK, bounds
    <3>3. QED
        BY <1>q, <1>t, <2>s, <3>1, <3>2
  <2>2. DownIsEmpty' /\ TasksAtBots'
    <3>1. DownIsEmpty'
        BY <2>s, <2>b DEF DownIsEmpty
    <3>2. TasksAtBots'
        BY <2>s, <2>c, <2>d DEF TasksAtBots
    <3>3. QED
        BY <3>1, <3>2
  <2>3. Calm' => CalmInv'
    <3>1. SUFFICES ASSUME Calm' PROVE CalmInv'
        OBVIOUS
    <3>2. Calm /\ CalmInv /\ entries' = [entries EXCEPT ![g][b] = e]
        BY <2>c, <3>1 DEF Calm
    <3>3. TrackedIsLeased' /\ BeatsSucceed' /\ NothingLeaked'
        BY <2>s, <3>2 DEF CalmInv, TrackedIsLeased, BeatsSucceed, NothingLeaked
    <3>4. RunsTracked'
        BY <2>s, <2>b, <2>0, <2>a, <2>d, <2>r, <3>2 DEF CalmInv, RunsTracked
    <3>5. QED
        BY <3>3, <3>4 DEF CalmInv
  <2>4. QED
      BY <2>1, <2>2, <2>3
<1>8. ASSUME NEW g \in Gateways, SyncEnd(g) PROVE IInv'
  <2>1. TypeOK'
      BY <1>8, <1>t DEF SyncEnd, NoEntry, Discards, NoSync, TypeOK, Registry, Entry, SyncType,
         BeatType, registry, tasks, gates, bounds
  <2>2. DownIsEmpty' /\ TasksAtBots'
    <3>1. /\ stage' = stage /\ owned' = owned /\ beat' = beat
          /\ sync'[g] = NoSync /\ \A h \in Gateways : h # g => sync'[h] = sync[h]
        BY <1>8, <1>t DEF SyncEnd, gates
    <3>2. \A h \in Gateways : h # g => entries'[h] = entries[h]
        BY <1>8, <1>t DEF SyncEnd, Registry
    <3>3. sync'[g].at = "idle"
        BY <3>1 DEF NoSync
    <3>4. DownIsEmpty'
        BY <3>1 DEF DownIsEmpty
    <3>5. TasksAtBots'
        BY <3>1, <3>2, <3>3 DEF TasksAtBots
    <3>6. QED
        BY <3>4, <3>5
  <2>3. Calm' => CalmInv'
      BY <1>8, <1>t DEF SyncEnd, NoEntry, Discards, NoSync, DownIsEmpty, TasksAtBots, Calm,
         CalmInv, TrackedIsLeased, BeatsSucceed, RunsTracked, NothingLeaked, registry, tasks,
         gates, bounds, RestOK, Registry, SyncType, BeatType
  <2>4. QED
      BY <2>1, <2>2, <2>3
<1>9. ASSUME NEW g \in Gateways, BeatStart(g) PROVE IInv'
  <2>1. TypeOK'
    <3>1. \A h \in Gateways : h # g => beat'[h] = beat[h]
        BY <1>9, <1>t DEF BeatStart
    <3>2. owned[g] \in SUBSET Bots
        BY <1>t DEF RestOK
    <3>3. beat' \in [Gateways -> BeatType]
        BY <1>9, <1>t, <3>2 DEF BeatStart, BeatType
    <3>4. UNCHANGED <<entries, sync, lease, config, stage, releasing, owned, leaked, disturbed, changes>>
        BY <1>9 DEF BeatStart, gates, registry, bounds
    <3>5. StartedRun' /\ RestOK'
        BY <1>t, <3>4 DEF StartedRun, RestOK
    <3>6. QED
        BY <1>q, <1>t, <3>3, <3>4, <3>5
  <2>2. DownIsEmpty' /\ TasksAtBots'
      BY <1>9, <1>t DEF BeatStart, DownIsEmpty, TasksAtBots, registry, tasks, gates, bounds, RestOK
  <2>3. Calm' => CalmInv'
      BY <1>9, <1>t DEF BeatStart, DownIsEmpty, TasksAtBots, Calm, CalmInv, TrackedIsLeased,
         BeatsSucceed, RunsTracked, NothingLeaked, registry, tasks, gates, bounds, RestOK,
         Registry, SyncType, BeatType
  <2>4. QED
      BY <2>1, <2>2, <2>3
<1>10. ASSUME NEW g \in Gateways, NEW b \in Bots, BeatRenew(g, b) PROVE IInv'
  <2>s. /\ \A h \in Gateways : h # g => beat'[h] = beat[h]
        /\ beat'[g] = [at |-> "renewed", todo |-> beat[g].todo \ {b}, bot |-> b, ok |-> lease[b] = g]
        /\ UNCHANGED <<lease, stage, owned, entries, leaked, sync, disturbed>>
        /\ beat[g].at = "next" /\ b \in beat[g].todo
      BY <1>10, <1>t DEF BeatRenew, gates, registry, bounds
  <2>r. beat'[g].at = "renewed" /\ beat'[g].todo = beat[g].todo \ {b} /\ beat'[g].bot = b
      BY <2>s
  <2>k. ASSUME lease[b] = g PROVE beat'[g].ok
    <3>1. (lease[b] = g) = TRUE
        BY <2>k
    <3>2. beat'[g] = [at |-> "renewed", todo |-> beat[g].todo \ {b}, bot |-> b, ok |-> TRUE]
        BY <2>s, <3>1
    <3>3. QED
        BY <3>2
  <2>1. TypeOK'
      BY <1>10, <1>t DEF BeatRenew, TypeOK, Registry, Entry, SyncType, BeatType, registry, tasks,
         gates, bounds
  <2>2. DownIsEmpty' /\ TasksAtBots'
    <3>1. stage[g] # "down"
        BY <1>10 DEF BeatRenew, DownIsEmpty, NoBeat
    <3>2. DownIsEmpty'
        BY <2>s, <3>1 DEF DownIsEmpty
    <3>3. TasksAtBots'
        BY <2>s, <2>r DEF TasksAtBots
    <3>4. QED
        BY <3>2, <3>3
  <2>3. Calm' => CalmInv'
    <3>1. SUFFICES ASSUME Calm' PROVE CalmInv'
        OBVIOUS
    <3>2. Calm /\ CalmInv
        BY <2>s, <3>1 DEF Calm
    <3>3. lease[b] = g
        BY <2>s, <3>2 DEF CalmInv, BeatsSucceed, TrackedIsLeased
    <3>4. BeatsSucceed'
        BY <2>s, <2>r, <2>k, <3>2, <3>3 DEF CalmInv, BeatsSucceed
    <3>5. QED
        BY <2>s, <3>2, <3>4 DEF CalmInv, TrackedIsLeased, RunsTracked, NothingLeaked
  <2>4. QED
      BY <2>1, <2>2, <2>3
<1>11. ASSUME NEW g \in Gateways, BeatRenewed(g) PROVE IInv'
  <2>b. beat[g].bot \in Bots
      BY <1>11 DEF BeatRenewed, TasksAtBots
  <2>u. /\ entries' \in Registry
        /\ \A h \in Gateways, c \in Bots :
              /\ entries'[h][c].started => entries'[h][c].run
              /\ (entries[h][c].run /\ ~entries[h][c].started) =>
                    (entries'[h][c].run /\ ~entries'[h][c].started)
    <3>1. CASE beat[g].ok
        BY <1>11, <1>t, <3>1 DEF BeatRenewed, StartedRun
    <3>2. CASE ~beat[g].ok
        BY <1>11, <3>2, <2>b, StopBotKeeps DEF BeatRenewed, Lost
    <3>3. QED
        BY <3>1, <3>2
  <2>s. /\ beat' \in [Gateways -> BeatType]
        /\ \A h \in Gateways : h # g => beat'[h] = beat[h]
        /\ beat'[g].at = "next" /\ beat'[g].todo = beat[g].todo
        /\ sync' = sync /\ stage' = stage
      BY <1>11, <1>t DEF BeatRenewed, BeatType, gates
  <2>o. /\ owned' \in [Gateways -> SUBSET Bots]
        /\ \A h \in Gateways : h # g => owned'[h] = owned[h]
    <3>1. owned' = owned \/ owned' = [owned EXCEPT ![g] = @ \ {beat[g].bot}]
        BY <1>11 DEF BeatRenewed, Lost
    <3>2. QED
        BY <1>t, <3>1 DEF RestOK
  <2>1. TypeOK'
    <3>1. StartedRun'
        BY <2>u DEF StartedRun
    <3>2. RestOK'
        BY <1>11, <1>t, <2>o DEF BeatRenewed, RestOK, gates, bounds
    <3>3. QED
        BY <1>q, <1>t, <2>u, <2>s, <3>1, <3>2
  <2>2. DownIsEmpty' /\ TasksAtBots'
    <3>1. stage[g] # "down"
        BY <1>11 DEF BeatRenewed, DownIsEmpty, NoBeat
    <3>2. DownIsEmpty'
        BY <2>s, <2>o, <3>1 DEF DownIsEmpty
    <3>3. TasksAtBots'
        BY <2>s, <2>u DEF TasksAtBots
    <3>4. QED
        BY <3>2, <3>3
  <2>3. Calm' => CalmInv'
    <3>1. SUFFICES ASSUME Calm' PROVE CalmInv'
        OBVIOUS
    <3>2. Calm /\ CalmInv
        BY <1>11, <3>1 DEF BeatRenewed, Calm, bounds
    <3>3. beat[g].ok
        BY <1>11, <3>2 DEF BeatRenewed, CalmInv, BeatsSucceed
    <3>4. UNCHANGED <<lease, stage, sync, owned, entries, leaked>>
        BY <1>11, <3>3 DEF BeatRenewed, gates
    <3>5. BeatsSucceed'
        BY <2>s, <3>2, <3>4 DEF CalmInv, BeatsSucceed
    <3>6. QED
        BY <3>2, <3>4, <3>5 DEF CalmInv, TrackedIsLeased, RunsTracked, NothingLeaked
  <2>4. QED
      BY <2>1, <2>2, <2>3
<1>12. ASSUME NEW g \in Gateways, NEW b \in Bots, BeatError(g, b) PROVE IInv'
  <2>b. b \in Bots
      OBVIOUS
  <2>u. /\ entries' \in Registry
        /\ \A h \in Gateways, c \in Bots :
              /\ entries'[h][c].started => entries'[h][c].run /\ entries[h][c].started
              /\ entries'[h][c].run => entries[h][c].run
              /\ (entries[h][c].run /\ ~entries[h][c].started) =>
                    (entries'[h][c].run /\ ~entries'[h][c].started)
              /\ entries'[h][c].run /\ entries[h][c].started => entries'[h][c].started
        /\ entries[g][b].started => ~entries'[g][b].run
      BY <1>12, <2>b, StopBotKeeps DEF BeatError, Lost
  <2>s. /\ beat' \in [Gateways -> BeatType]
        /\ \A h \in Gateways : h # g => beat'[h] = beat[h]
        /\ beat'[g].at = "next" /\ sync' = sync /\ stage' = stage
        /\ owned' \in [Gateways -> SUBSET Bots]
        /\ \A h \in Gateways : h # g => owned'[h] = owned[h]
      BY <1>12, <1>t DEF BeatError, Lost, BeatType, RestOK, gates
  <2>1. TypeOK'
    <3>1. StartedRun'
        BY <2>u DEF StartedRun
    <3>2. RestOK'
        BY <1>12, <1>t, <2>s DEF BeatError, Disturb, RestOK, gates
    <3>3. QED
        BY <1>q, <1>t, <2>u, <2>s, <3>1, <3>2
  <2>2. DownIsEmpty' /\ TasksAtBots'
    <3>1. stage[g] # "down"
        BY <1>12 DEF BeatError, DownIsEmpty, NoBeat
    <3>2. DownIsEmpty'
        BY <2>s, <3>1 DEF DownIsEmpty
    <3>3. TasksAtBots'
        BY <2>s, <2>u DEF TasksAtBots
    <3>4. QED
        BY <3>2, <3>3
  <2>3. Calm' => CalmInv'
      BY <1>12 DEF BeatError, Disturb, Calm
  <2>4. QED
      BY <2>1, <2>2, <2>3
<1>13. ASSUME NEW g \in Gateways, BeatEnd(g) PROVE IInv'
  <2>1. TypeOK'
      BY <1>13, <1>t DEF BeatEnd, NoBeat, TypeOK, Registry, Entry, SyncType, BeatType, registry,
         tasks, gates, bounds
  <2>2. DownIsEmpty' /\ TasksAtBots'
      BY <1>13, <1>t DEF BeatEnd, NoBeat, DownIsEmpty, TasksAtBots, registry, tasks, gates,
         bounds, RestOK
  <2>3. Calm' => CalmInv'
      BY <1>13, <1>t DEF BeatEnd, NoBeat, DownIsEmpty, TasksAtBots, Calm, CalmInv,
         TrackedIsLeased, BeatsSucceed, RunsTracked, NothingLeaked, registry, tasks, gates,
         bounds, RestOK, Registry, SyncType, BeatType
  <2>4. QED
      BY <2>1, <2>2, <2>3
<1>14. ASSUME NEW g \in Gateways, StopBegin(g) PROVE IInv'
  <2>1. TypeOK'
      BY <1>14, <1>t DEF StopBegin, Disturb, TypeOK, Registry, Entry, SyncType, BeatType,
         registry, tasks, gates, bounds
  <2>2. DownIsEmpty' /\ TasksAtBots'
      BY <1>14, <1>t DEF StopBegin, Disturb, DownIsEmpty, TasksAtBots, registry, tasks, gates,
         bounds, RestOK
  <2>3. Calm' => CalmInv'
      BY <1>14, <1>t DEF StopBegin, Disturb, DownIsEmpty, TasksAtBots, Calm, CalmInv,
         TrackedIsLeased, BeatsSucceed, RunsTracked, NothingLeaked, registry, tasks, gates,
         bounds, RestOK, Registry, SyncType, BeatType
  <2>4. QED
      BY <2>1, <2>2, <2>3
<1>15. ASSUME NEW g \in Gateways, NEW b \in Bots, StopRelease(g, b) PROVE IInv'
  <2>1. TypeOK'
      BY <1>15, <1>t DEF StopRelease, TypeOK, Registry, Entry, SyncType, BeatType, registry,
         tasks, gates, bounds
  <2>2. DownIsEmpty' /\ TasksAtBots'
      BY <1>15, <1>t DEF StopRelease, DownIsEmpty, TasksAtBots, registry, tasks, gates, bounds,
         RestOK
  <2>3. Calm' => CalmInv'
      BY <1>15, <1>t DEF StopRelease, DownIsEmpty, TasksAtBots, Calm, CalmInv, TrackedIsLeased,
         BeatsSucceed, RunsTracked, NothingLeaked, registry, tasks, gates, bounds, RestOK,
         Registry, SyncType, BeatType
  <2>4. QED
      BY <2>1, <2>2, <2>3
<1>16. ASSUME NEW g \in Gateways, StopAll(g) PROVE IInv'
  <2>u. /\ entries' \in Registry
        /\ \A h \in Gateways, c \in Bots :
              entries'[h][c] = IF h = g THEN Stopped(entries[h][c]) ELSE entries[h][c]
    <3>1. \A c \in Bots : Stopped(entries[g][c]) \in Entry
      <4>1. ASSUME NEW e \in Entry PROVE Stopped(e) \in Entry
          BY DEF Stopped, Entry
      <4>2. QED
          BY <1>t, <4>1 DEF Registry
    <3>2. entries' = [entries EXCEPT ![g] = [c \in Bots |-> Stopped(entries[g][c])]]
        BY <1>16, <1>t DEF StopAll
    <3>3. QED
        BY <1>t, <3>1, <3>2 DEF Registry
  <2>r. \A h \in Gateways, c \in Bots :
           /\ ~Stopped(entries[h][c]).started
           /\ entries[h][c].run /\ ~entries[h][c].started => Stopped(entries[h][c]) = entries[h][c]
      BY <1>t DEF Stopped, Registry, Entry
  <2>1. TypeOK'
    <3>1. StartedRun'
        BY <1>t, <2>u, <2>r DEF StartedRun
    <3>2. RestOK' /\ UNCHANGED <<sync, beat>>
        BY <1>16, <1>t DEF StopAll, tasks, RestOK, bounds
    <3>3. QED
        BY <1>q, <1>t, <2>u, <3>1, <3>2
  <2>2. DownIsEmpty' /\ TasksAtBots'
    <3>1. DownIsEmpty'
        BY <1>16, <1>t DEF StopAll, tasks, RestOK, DownIsEmpty
    <3>2. UNCHANGED <<sync, beat>>
        BY <1>16 DEF StopAll, tasks
    <3>3. TasksAtBots'
        BY <2>u, <2>r, <3>2 DEF TasksAtBots
    <3>4. QED
        BY <3>1, <3>3
  <2>3. Calm' => CalmInv'
      BY <1>16, <1>t DEF StopAll, Stopped, DownIsEmpty, TasksAtBots, Calm, CalmInv,
         TrackedIsLeased, BeatsSucceed, RunsTracked, NothingLeaked, registry, tasks, gates,
         bounds, RestOK, Registry, SyncType, BeatType
  <2>4. QED
      BY <2>1, <2>2, <2>3
<1>17. ASSUME NEW g \in Gateways, Exit(g) PROVE IInv'
  <2>1. TypeOK'
      BY <1>17, <1>t DEF Exit, Ends, NoEntry, NoSync, NoBeat, TypeOK, Registry, Entry, SyncType,
         BeatType, registry, tasks, gates, bounds
  <2>2. DownIsEmpty' /\ TasksAtBots'
    <3>1. /\ \A h \in Gateways : h # g => /\ stage'[h] = stage[h] /\ owned'[h] = owned[h]
                                          /\ sync'[h] = sync[h] /\ beat'[h] = beat[h]
                                          /\ entries'[h] = entries[h]
          /\ sync'[g] = NoSync /\ beat'[g] = NoBeat /\ owned'[g] = {}
        BY <1>17, <1>t DEF Exit, Ends, RestOK, Registry
    <3>2. NoSync.at = "idle" /\ NoBeat.at = "idle"
        BY DEF NoSync, NoBeat
    <3>3. DownIsEmpty'
        BY <3>1 DEF DownIsEmpty
    <3>4. TasksAtBots'
        BY <3>1, <3>2 DEF TasksAtBots
    <3>5. QED
        BY <3>3, <3>4
  <2>3. Calm' => CalmInv'
      BY <1>17, <1>t DEF Exit, Ends, NoEntry, NoSync, NoBeat, DownIsEmpty, TasksAtBots, Calm,
         CalmInv, TrackedIsLeased, BeatsSucceed, RunsTracked, NothingLeaked, registry, tasks,
         gates, bounds, RestOK, Registry, SyncType, BeatType
  <2>4. QED
      BY <2>1, <2>2, <2>3
<1>18. ASSUME NEW g \in Gateways, Crash(g) PROVE IInv'
  <2>1. TypeOK'
      BY <1>18, <1>t DEF Crash, Ends, Disturb, NoEntry, NoSync, NoBeat, TypeOK, Registry, Entry,
         SyncType, BeatType, registry, tasks, gates, bounds
  <2>2. DownIsEmpty' /\ TasksAtBots'
    <3>1. /\ \A h \in Gateways : h # g => /\ stage'[h] = stage[h] /\ owned'[h] = owned[h]
                                          /\ sync'[h] = sync[h] /\ beat'[h] = beat[h]
                                          /\ entries'[h] = entries[h]
          /\ sync'[g] = NoSync /\ beat'[g] = NoBeat /\ owned'[g] = {}
        BY <1>18, <1>t DEF Crash, Ends, RestOK, Registry
    <3>2. NoSync.at = "idle" /\ NoBeat.at = "idle"
        BY DEF NoSync, NoBeat
    <3>3. DownIsEmpty'
        BY <3>1 DEF DownIsEmpty
    <3>4. TasksAtBots'
        BY <3>1, <3>2 DEF TasksAtBots
    <3>5. QED
        BY <3>3, <3>4
  <2>3. Calm' => CalmInv'
      BY <1>18, <1>t DEF Crash, Ends, Disturb, NoEntry, NoSync, NoBeat, DownIsEmpty, TasksAtBots,
         Calm, CalmInv, TrackedIsLeased, BeatsSucceed, RunsTracked, NothingLeaked, registry,
         tasks, gates, bounds, RestOK, Registry, SyncType, BeatType
  <2>4. QED
      BY <2>1, <2>2, <2>3
<1>19. ASSUME NEW g \in Gateways, Restart(g) PROVE IInv'
  <2>1. TypeOK'
      BY <1>19, <1>t DEF Restart, TypeOK, Registry, Entry, SyncType, BeatType, registry, tasks,
         gates, bounds
  <2>2. DownIsEmpty' /\ TasksAtBots'
      BY <1>19, <1>t DEF Restart, DownIsEmpty, TasksAtBots, registry, tasks, gates, bounds, RestOK
  <2>3. Calm' => CalmInv'
      BY <1>19, <1>t DEF Restart, DownIsEmpty, TasksAtBots, Calm, CalmInv, TrackedIsLeased,
         BeatsSucceed, RunsTracked, NothingLeaked, registry, tasks, gates, bounds, RestOK,
         Registry, SyncType, BeatType
  <2>4. QED
      BY <2>1, <2>2, <2>3
<1>20. ASSUME NEW b \in Bots, Expire(b) PROVE IInv'
  <2>1. TypeOK'
      BY <1>20, <1>t DEF Expire, Renewed, TypeOK, Registry, Entry, SyncType, BeatType, registry,
         tasks, gates, bounds
  <2>2. DownIsEmpty' /\ TasksAtBots'
      BY <1>20, <1>t DEF Expire, Renewed, DownIsEmpty, TasksAtBots, registry, tasks, gates,
         bounds, RestOK
  <2>3. Calm' => CalmInv'
    <3>1. SUFFICES ASSUME Calm' PROVE CalmInv'
        OBVIOUS
    <3>2. /\ Calm /\ CalmInv /\ ~Renewed(b)
          /\ UNCHANGED <<stage, owned, entries, leaked, sync, beat>>
          /\ \A c \in Bots : c # b => lease'[c] = lease[c]
        BY <1>20, <1>t, <3>1 DEF Expire, gates, registry, tasks, bounds, Calm, RestOK
    <3>3. ASSUME NEW g \in Gateways
          PROVE  b \notin owned[g] /\ ~(sync[g].at = "claimed" /\ sync[g].ok /\ sync[g].bot = b)
      <4>1. CASE stage[g] = "up"
          BY <3>2, <4>1 DEF CalmInv, TrackedIsLeased, Renewed
      <4>2. CASE stage[g] = "down"
          BY <4>2 DEF DownIsEmpty, NoSync
      <4>3. QED
          BY <3>2, <4>1, <4>2 DEF CalmInv, TrackedIsLeased
    <3>4. \A g \in Gateways : owned[g] \subseteq Bots
        BY <1>t DEF RestOK
    <3>5. TrackedIsLeased'
        BY <3>2, <3>3, <3>4 DEF CalmInv, TrackedIsLeased, TasksAtBots
    <3>6. QED
        BY <3>2, <3>5 DEF CalmInv, BeatsSucceed, RunsTracked, NothingLeaked
  <2>4. QED
      BY <2>1, <2>2, <2>3
<1>21. ASSUME NEW b \in Bots, Lapse(b) PROVE IInv'
  <2>1. TypeOK'
      BY <1>21, <1>t DEF Lapse, Disturb, TypeOK, Registry, Entry, SyncType, BeatType, registry,
         tasks, gates, bounds
  <2>2. DownIsEmpty' /\ TasksAtBots'
      BY <1>21, <1>t DEF Lapse, Disturb, DownIsEmpty, TasksAtBots, registry, tasks, gates, bounds,
         RestOK
  <2>3. Calm' => CalmInv'
      BY <1>21, <1>t DEF Lapse, Disturb, DownIsEmpty, TasksAtBots, Calm, CalmInv, TrackedIsLeased,
         BeatsSucceed, RunsTracked, NothingLeaked, registry, tasks, gates, bounds, RestOK,
         Registry, SyncType, BeatType
  <2>4. QED
      BY <2>1, <2>2, <2>3
<1>22. CASE UNCHANGED vars
    BY <1>22 DEF vars, DownIsEmpty, TasksAtBots, Calm, CalmInv, TrackedIsLeased, BeatsSucceed,
       RunsTracked, NothingLeaked, TypeOK, Registry, Entry, SyncType, BeatType, registry, tasks,
       gates, bounds
<1>23. QED
    BY <1>1, <1>2, <1>3, <1>4, <1>5, <1>6, <1>7, <1>8, <1>9, <1>10, <1>11, <1>12, <1>13, <1>14,
       <1>15, <1>16, <1>17, <1>18, <1>19, <1>20, <1>21, <1>22 DEF Next, SyncStep, BeatStep,
       StopStep

LEMMA Invariance == Spec => []IInv
BY InitIInv, StepIInv, PTL DEF Spec

\* Every variable keeps its type.
THEOREM TypeCorrect == Spec => []TypeOK
<1>1. IInv => TypeOK
    BY DEF IInv
<1>2. QED
    BY Invariance, <1>1, PTL

\* No step passes a lease from one gateway to another.
LEMMA LeaseThroughFree ==
    ASSUME IInv, [Next]_vars, NEW b \in Bots
    PROVE  lease'[b] \in {lease[b], NoOwner} \/ (lease[b] = NoOwner /\ lease'[b] \in Gateways)
<1>1. lease \in [Bots -> Gateways \cup {NoOwner}]
    BY DEF IInv, TypeOK
<1>2. ASSUME NEW g \in Gateways, NEW a \in Bots, SyncClaim(g, a) \/ SyncClaimError(g, a)
      PROVE  lease'[b] = lease[b] \/ (lease[b] = NoOwner /\ lease'[b] = g)
    BY <1>1, <1>2 DEF SyncClaim, SyncClaimError, Granted
<1>3. ASSUME NEW g \in Gateways, NEW a \in Bots, StopRelease(g, a)
      PROVE  lease'[b] \in {lease[b], NoOwner}
    BY <1>1, <1>3 DEF StopRelease
<1>4. ASSUME NEW a \in Bots, Expire(a) \/ Lapse(a)
      PROVE  lease'[b] \in {lease[b], NoOwner}
    BY <1>1, <1>4 DEF Expire, Lapse
<1>5. ASSUME NEW g \in Gateways,
             \/ SyncStart(g) \/ SyncRefused(g) \/ SyncGranted(g) \/ SyncStarted(g) \/ SyncEnd(g)
             \/ BeatStep(g) \/ StopAll(g) \/ Exit(g) \/ StopBegin(g) \/ Crash(g) \/ Restart(g)
             \/ \E a \in Bots : BeatError(g, a)
      PROVE  lease' = lease
    BY <1>5 DEF SyncStart, SyncRefused, SyncGranted, SyncStarted, SyncEnd, BeatStep, BeatStart,
       BeatRenew, BeatRenewed, BeatEnd, StopAll, Exit, StopBegin, Crash, Restart, Ends, BeatError
<1>6. CASE UNCHANGED vars \/ \E a \in Bots : Reconfigure(a)
    BY <1>6 DEF vars, Reconfigure
<1>7. CASE \E g \in Gateways : SyncStep(g) \/ StopStep(g) \/ \E a \in Bots : SyncClaimError(g, a)
    BY <1>2, <1>3, <1>5, <1>7 DEF SyncStep, StopStep
<1>8. QED
    BY <1>4, <1>5, <1>6, <1>7 DEF Next

\* The owner keys of the bots are leases in the sense of LeaseContract: a bot passes from
\* gateway to gateway only through a free key, and, while nothing but crashes disturbs
\* them, never while a gateway is connected.
THEOREM BotContract == Spec => ImplementsContract
<1>1. Init => Contract!Init
    BY DEF Init, Contract!Init, ConnectionRelies, Connected, NoEntry
<1>2. ASSUME IInv, IInv', [Next]_vars
      PROVE  Contract!Next
    <2>1. lease' \in [Bots -> Gateways \cup {NoOwner}]
        BY <1>2 DEF IInv, TypeOK
    <2>2. \A r \in ConnectionRelies' : r \in Gateways \X Bots /\ lease'[r[2]] = r[1]
        BY <1>2 DEF IInv, Calm, CalmInv, TrackedIsLeased, RunsTracked, NothingLeaked,
           ConnectionRelies, Connected
    <2>3. ASSUME NEW b \in Bots
          PROVE  Contract!Keeps(b) \/ Contract!Grants(b) \/ Contract!Frees(b)
        <3>1. CASE lease'[b] = NoOwner
            BY <2>2, <3>1, SentinelAssumption DEF Contract!Frees
        <3>2. CASE lease'[b] # NoOwner
            BY <1>2, <3>2, LeaseThroughFree DEF Contract!Keeps, Contract!Grants
        <3>3. QED
            BY <3>1, <3>2
    <2>4. QED
        BY <2>1, <2>2, <2>3 DEF Contract!Next, Contract!Claims
<1>3. IInv /\ IInv' /\ [Next]_vars => [Contract!Next]_<<lease, ConnectionRelies>>
    BY <1>2
<1>4. QED
    BY Invariance, <1>1, <1>3, PTL DEF Spec, ImplementsContract, Contract!Spec

\* While nothing but crashes disturbs the gateways, no two of them are connected to
\* one bot ("one bot, one WebSocket", ownership.ts:4-5).
THEOREM OneConnectionHolds == Spec => []OneConnection
<1>1. IInv => OneConnection
    BY DEF IInv, Calm, CalmInv, TrackedIsLeased, RunsTracked, NothingLeaked, OneConnection,
       Connected
<1>2. QED
    BY Invariance, <1>1, PTL

-----------------------------------------------------------------------------
(* ReplyStreams: the invariant *)

Streams == Nodes \cup {Fallback}

\* The consumer group in which gateway g gets the entries of stream k.
GroupOf(g, k) == IF k = Fallback THEN g ELSE k

\* The same delivery, whether its handler awaits the end of a reply or not.
Same(d, e) == d.stream = e.stream /\ d.id = e.id /\ d.group = e.group

Within(c, e) ==
    /\ e.stream = Fallback \/ e.stream = e.group
    /\ e.id \in 1..c[e.group][e.stream]

Delivered(e) == Within(cursor, e)

\* What gateways work on was delivered, to them if it is of the fallback stream, and ...
HandsOK ==
    /\ IsFiniteSet(orphans)
    /\ \A g \in Nodes, l \in Loops : \A i \in DOMAIN hand[g][l] :
          Delivered(hand[g][l][i]) /\ hand[g][l][i].group = GroupOf(g, hand[g][l][i].stream)
    /\ \A e \in orphans : Delivered(e) /\ ~e.closing

\* ... is in one hand at a time, once.
OneHand ==
    /\ \A g, h \in Nodes, l, m \in Loops : \A i \in DOMAIN hand[g][l], j \in DOMAIN hand[h][m] :
          Same(hand[g][l][i], hand[h][m][j]) => g = h /\ l = m /\ i = j
    /\ \A g \in Nodes, l \in Loops : \A i \in DOMAIN hand[g][l] : \A e \in orphans :
          ~Same(hand[g][l][i], e)

\* A reply stands open once.
OpenOnce ==
    /\ Len(asked) <= MaxRequests
    /\ \A g, h \in Nodes, s, t \in Sessions :
          open[g][s] = open[h][t] /\ open[g][s] # 0 => g = h /\ s = t
    /\ \A r \in Requests : r > Len(asked) => text[r] = <<>>

\* The delivery that the n-th event of reply r came with, if gateway g handled it.
Shown(g, r, n) ==
    LET k == text[r][n][1] IN [stream |-> k, id |-> text[r][n][2], group |-> GroupOf(g, k)]

\* A delivery that is done, but for an entry whose handler awaits, at g, the end of a reply.
Settled(g, d) ==
    /\ d.id <= cursor[d.group][d.stream]
    /\ \A e \in orphans : ~Same(d, e)
    /\ \A h \in Nodes, l \in Loops : \A i \in DOMAIN hand[h][l] :
          Same(d, hand[h][l][i]) => h = g /\ hand[h][l][i].closing

\* What an open reply has shown was delivered to its gateway and is settled there.
ShownIsDone ==
    \A g \in Nodes, s \in Sessions : open[g][s] # 0 =>
        \A n \in DOMAIN text[open[g][s]] : Settled(g, Shown(g, open[g][s], n))

ReplyIInv == ReplyTypeOK /\ HandsOK /\ OneHand /\ OpenOnce /\ ShownIsDone /\ NoRepeatInReply

-----------------------------------------------------------------------------
(* ReplyStreams: types *)

LEMMA TailOf ==
    ASSUME NEW T, NEW s \in Seq(T), s # <<>>
    PROVE  /\ Tail(s) \in Seq(T) /\ Head(s) = s[1] /\ Head(s) \in T /\ 1 \in DOMAIN s
           /\ \A i \in DOMAIN Tail(s) : i + 1 \in DOMAIN s /\ Tail(s)[i] = s[i + 1]
    OBVIOUS

LEMMA InitReplyTypes == ReplyInit => ReplyTypeOK
    BY ReplyBounds, StreamAssumption
    DEF ReplyInit, ReplyTypeOK, Nothing, Idle, Requests, Final, Entries

LEMMA OneOrNone ==
    ASSUME NEW T, NEW a \in T, NEW u, u = <<>> \/ u = <<a>>
    PROVE  /\ u \in Seq(T)
           /\ u = <<>> => Len(u) = 0
           /\ u = <<a>> => Len(u) = 1 /\ u[1] = a
<1>1. <<>> \in Seq(T) /\ Len(<<>>) = 0
    OBVIOUS
<1>2. <<a>> \in Seq(T) /\ Len(<<a>>) = 1 /\ <<a>>[1] = a
    OBVIOUS
<1>3. QED
    BY <1>1, <1>2

LEMMA Joined ==
    ASSUME NEW T, NEW u \in Seq(T), NEW v \in Seq(T)
    PROVE  /\ u \o v \in Seq(T) /\ Len(u \o v) = Len(u) + Len(v)
           /\ Len(u) \in Nat /\ Len(v) \in Nat /\ DOMAIN (u \o v) = 1..Len(u \o v)
           /\ \A i \in 1..Len(u \o v) : (u \o v)[i] = IF i <= Len(u) THEN u[i] ELSE v[i - Len(u)]
    OBVIOUS

LEMMA Cursors ==
    ASSUME ReplyTypeOK
    PROVE  /\ cursor \in [Nodes -> [Streams -> Nat]] /\ log \in [Streams -> Seq(Event)]
           /\ \A x \in Nodes, k \in Streams :
                 cursor[x][k] \in Nat /\ Len(log[k]) \in Nat /\ cursor[x][k] <= Len(log[k])
<1>1. cursor \in [Nodes -> [Streams -> Nat]] /\ log \in [Streams -> Seq(Event)]
    BY DEF ReplyTypeOK, Streams
<1>2. \A x \in Nodes, k \in DOMAIN log : cursor[x][k] \in 0..Len(log[k])
    BY DEF ReplyTypeOK
<1>3. \A k \in Streams : Len(log[k]) \in Nat
    BY <1>1
<1>4. QED
    BY <1>1, <1>2, <1>3

\* What one XREADGROUP gives is the next entry of each stream.
LEMMA BatchOf ==
    ASSUME ReplyTypeOK, NEW g \in Nodes, NEW x \in Nodes
    PROVE  LET batch == Batch(g, x) IN
           /\ batch \in Seq(Entries)
           /\ \A i \in DOMAIN batch : LET e == batch[i] IN
                 /\ e.stream = x \/ (e.stream = Fallback /\ x = g)
                 /\ e.group = x /\ ~e.closing /\ e.stream \in Streams
                 /\ e.id = cursor[x][e.stream] + 1 /\ e.id <= Len(log[e.stream])
           /\ \A i, j \in DOMAIN batch : batch[i].stream = batch[j].stream => i = j
<1> DEFINE a == EntryOf(x, x, cursor[x][x] + 1)
           b == EntryOf(Fallback, x, cursor[x][Fallback] + 1)
           u == NextOf(x, x)
           v == IF x = g THEN NextOf(x, Fallback) ELSE <<>>
           batch == Batch(g, x)
<1>1. a \in Entries /\ b \in Entries
    BY Cursors DEF EntryOf, Entries, Streams
<1>2. /\ a.stream = x /\ a.group = x /\ ~a.closing /\ a.id = cursor[x][x] + 1
      /\ b.stream = Fallback /\ b.group = x /\ ~b.closing /\ b.id = cursor[x][Fallback] + 1
    BY DEF EntryOf
<1>3. cursor[x][x] \in Nat /\ cursor[x][Fallback] \in Nat /\ Len(log[x]) \in Nat /\ Len(log[Fallback]) \in Nat
    BY Cursors DEF Streams
<1>4. \/ u = <<>>
      \/ u = <<a>> /\ a.id <= Len(log[x])
    BY <1>2, <1>3 DEF NextOf
<1>5. \/ v = <<>>
      \/ v = <<b>> /\ b.id <= Len(log[Fallback]) /\ x = g
    BY <1>2, <1>3 DEF NextOf
<1>6. batch = u \o v
    BY DEF Batch
<1> HIDE DEF a, b, u, v, batch
<1>7. u \in Seq(Entries) /\ (Len(u) = 0 \/ (Len(u) = 1 /\ u[1] = a /\ a.id <= Len(log[x])))
    BY <1>1, <1>4, OneOrNone
<1>8. v \in Seq(Entries) /\ (Len(v) = 0 \/ (Len(v) = 1 /\ v[1] = b /\ b.id <= Len(log[Fallback]) /\ x = g))
    BY <1>1, <1>5, OneOrNone
<1>9. /\ batch \in Seq(Entries) /\ Len(batch) = Len(u) + Len(v) /\ DOMAIN batch = 1..Len(batch)
      /\ \A i \in 1..Len(batch) : batch[i] = IF i <= Len(u) THEN u[i] ELSE v[i - Len(u)]
    BY <1>6, <1>7, <1>8, Joined
<1>10. \A i \in DOMAIN batch :
          \/ i = 1 /\ batch[i] = a /\ a.id <= Len(log[x])
          \/ i = Len(u) + 1 /\ batch[i] = b /\ b.id <= Len(log[Fallback]) /\ x = g
    BY <1>7, <1>8, <1>9
<1>11. x # Fallback
    BY StreamAssumption
<1>12. ASSUME NEW i \in DOMAIN batch
       PROVE  LET e == batch[i] IN
                 /\ e.stream = x \/ (e.stream = Fallback /\ x = g)
                 /\ e.group = x /\ ~e.closing /\ e.stream \in Streams
                 /\ e.id = cursor[x][e.stream] + 1 /\ e.id <= Len(log[e.stream])
    BY <1>2, <1>10 DEF Streams
<1>13. \A i, j \in DOMAIN batch : batch[i].stream = batch[j].stream => i = j
    BY <1>2, <1>10, <1>11
<1>14. QED
    BY <1>9, <1>12, <1>13 DEF batch

LEMMA AdvancedOf ==
    ASSUME ReplyTypeOK, NEW g \in Nodes, NEW x \in Nodes
    PROVE  LET now == Advanced(x, Batch(g, x)) IN
           /\ now \in [Streams -> Nat]
           /\ \A k \in Streams : cursor[x][k] <= now[k] /\ now[k] <= Len(log[k])
           /\ \A i \in DOMAIN Batch(g, x) : Batch(g, x)[i].id <= now[Batch(g, x)[i].stream]
<1> DEFINE batch == Batch(g, x)
           now == Advanced(x, batch)
<1>1. \A i \in DOMAIN batch :
         /\ batch[i].stream \in Streams
         /\ batch[i].id = cursor[x][batch[i].stream] + 1 /\ batch[i].id <= Len(log[batch[i].stream])
    BY BatchOf
<1>2. DOMAIN cursor[x] = Streams
    BY Cursors
<1>3. Range(batch) = {batch[i] : i \in DOMAIN batch}
    BY DEF Range
<1>4. now = [k \in Streams |-> IF \E i \in DOMAIN batch : batch[i].stream = k
                                  THEN cursor[x][k] + 1 ELSE cursor[x][k]]
    BY <1>2, <1>3 DEF Advanced
<1> HIDE DEF batch, now
<1>5. ASSUME NEW k \in Streams
      PROVE  now[k] \in Nat /\ cursor[x][k] <= now[k] /\ now[k] <= Len(log[k])
    BY <1>1, <1>4, Cursors
<1>6. \A i \in DOMAIN batch : batch[i].id <= now[batch[i].stream]
    BY <1>1, <1>4, Cursors
<1>7. now \in [Streams -> Nat]
    BY <1>4, <1>5
<1>8. QED
    BY <1>5, <1>6, <1>7 DEF batch, now

\* A batch that XAUTOCLAIM gives is in the order of the ids.
LEMMA OrderedOf ==
    ASSUME NEW S \in SUBSET Entries, IsFiniteSet(S), NEW batch \in InOrder(S)
    PROVE  /\ batch \in Seq(Entries) /\ \A i \in DOMAIN batch : batch[i] \in S
           /\ \A i, j \in DOMAIN batch : batch[i].id = batch[j].id => i = j
<1>1. Cardinality(S) \in Nat
    BY FS_CardinalityType
<1>2. batch \in [1..Cardinality(S) -> S] /\ \A i, j \in DOMAIN batch : i < j => batch[i].id < batch[j].id
    BY DEF InOrder
<1>3. \A i \in DOMAIN batch : batch[i] \in Entries /\ batch[i].id \in Nat /\ i \in Int
    BY <1>1, <1>2 DEF Entries
<1>4. batch \in Seq(Entries)
    BY <1>1, <1>2, <1>3
<1>5. QED
    BY <1>2, <1>3, <1>4

\* The first entry is set to await the end of a reply.
LEMMA ClosingHead ==
    ASSUME NEW s \in Seq(Entries), s # <<>>
    PROVE  LET t == [s EXCEPT ![1].closing = TRUE] IN
           /\ t \in Seq(Entries) /\ DOMAIN t = DOMAIN s /\ 1 \in DOMAIN s
           /\ \A i \in DOMAIN s : Same(t[i], s[i]) /\ (i # 1 => t[i] = s[i])
           /\ t[1].closing
<1>1. Len(s) \in Nat /\ DOMAIN s = 1..Len(s) /\ 1 \in DOMAIN s /\ \A i \in DOMAIN s : s[i] \in Entries
    OBVIOUS
<1> DEFINE first == [s[1] EXCEPT !.closing = TRUE]
           t == [s EXCEPT ![1] = first]
<1>2. first \in Entries /\ first.closing /\ Same(first, s[1])
    BY <1>1 DEF Entries, Same
<1>3. t = [s EXCEPT ![1].closing = TRUE]
    OBVIOUS
<1>4. t[1] = first /\ DOMAIN t = DOMAIN s /\ \A i \in DOMAIN s : i # 1 => t[i] = s[i]
    BY <1>1
<1> HIDE DEF first
<1>5. t \in Seq(Entries)
    BY <1>1, <1>2
<1> HIDE DEF t
<1>6. \A i \in DOMAIN s : Same(t[i], s[i])
    BY <1>2, <1>4 DEF Same
<1>7. QED
    BY <1>1, <1>2, <1>3, <1>4, <1>5, <1>6

LEMMA FiniteHand ==
    ASSUME NEW s \in Seq(Entries)
    PROVE  IsFiniteSet({[e EXCEPT !.closing = FALSE] : e \in Range(s)})
<1> DEFINE T == {[e EXCEPT !.closing = FALSE] : e \in Range(s)}
           f == [i \in 1..Len(s) |-> [s[i] EXCEPT !.closing = FALSE]]
<1>1. Len(s) \in Nat /\ DOMAIN s = 1..Len(s)
    OBVIOUS
<1>2. T = {[s[i] EXCEPT !.closing = FALSE] : i \in 1..Len(s)}
    BY <1>1 DEF Range
<1>3. f \in Surjection(1..Len(s), T)
    BY <1>2 DEF Surjection
<1>4. IsFiniteSet(1..Len(s))
    BY <1>1, FS_Interval
<1>5. QED
    BY <1>3, <1>4, FS_Surjection

\* The types of the streams' variables.
StreamType ==
    /\ log \in [Streams -> Seq(Event)]
    /\ cursor \in [Nodes -> [Streams -> Nat]]
    /\ \A x \in Nodes, k \in Streams : cursor[x][k] \in 0..Len(log[k])
    /\ orphans \subseteq Entries
    /\ hand \in [Nodes -> [Loops -> Seq(Entries)]]

ClusterType ==
    /\ up \subseteq Nodes /\ serving \subseteq up
    /\ owner \in Nodes \cup {NoNode} /\ prev \in Nodes \cup {NoNode}
    /\ reads \in [Nodes -> SUBSET Nodes]
    /\ faults \in 0..MaxFaults

UserType ==
    /\ open \in [Nodes -> [Sessions -> 0..Len(asked)]]
    /\ asked \in Seq(Sessions)
    /\ sent \in [Requests -> 0..Final]
    /\ text \in [Requests -> Seq(Streams \X Nat)]

LEMMA TypeParts == ReplyTypeOK <=> StreamType /\ ClusterType /\ UserType
    BY DEF ReplyTypeOK, StreamType, ClusterType, UserType, Streams

LEMMA PutInHand ==
    ASSUME hand \in [Nodes -> [Loops -> Seq(Entries)]], NEW g \in Nodes, NEW l \in Loops,
           NEW t \in Seq(Entries), hand' = [hand EXCEPT ![g][l] = t]
    PROVE  /\ hand' \in [Nodes -> [Loops -> Seq(Entries)]] /\ hand'[g][l] = t
           /\ \A h \in Nodes, m \in Loops : h # g \/ m # l => hand'[h][m] = hand[h][m]
    OBVIOUS

LEMMA DoneOf ==
    ASSUME StreamType, NEW g \in Nodes, NEW l \in Loops, hand[g][l] # <<>>, Done(g, l)
    PROVE  /\ hand' \in [Nodes -> [Loops -> Seq(Entries)]] /\ orphans' = orphans
           /\ \A h \in Nodes, m \in Loops : h # g \/ m # l => hand'[h][m] = hand[h][m]
           /\ \A i \in DOMAIN hand'[g][l] :
                 i + 1 \in DOMAIN hand[g][l] /\ hand'[g][l][i] = hand[g][l][i + 1]
<1>1. hand[g][l] \in Seq(Entries) /\ hand \in [Nodes -> [Loops -> Seq(Entries)]]
    BY DEF StreamType
<1>2. hand' = [hand EXCEPT ![g][l] = Tail(hand[g][l])] /\ orphans' = orphans
    BY DEF Done, Unacked
<1>3. Tail(hand[g][l]) \in Seq(Entries)
    BY <1>1, TailOf
<1>4. hand'[g][l] = Tail(hand[g][l])
    BY <1>1, <1>2
<1>5. QED
    BY <1>1, <1>2, <1>3, <1>4, TailOf

LEMMA ClosingOf ==
    ASSUME StreamType, NEW g \in Nodes, NEW l \in Loops, hand[g][l] # <<>>,
           hand' = [hand EXCEPT ![g][l][1].closing = TRUE]
    PROVE  /\ hand' \in [Nodes -> [Loops -> Seq(Entries)]]
           /\ \A h \in Nodes, m \in Loops : h # g \/ m # l => hand'[h][m] = hand[h][m]
           /\ DOMAIN hand'[g][l] = DOMAIN hand[g][l] /\ hand'[g][l][1].closing
           /\ \A i \in DOMAIN hand[g][l] :
                 Same(hand'[g][l][i], hand[g][l][i]) /\ (i # 1 => hand'[g][l][i] = hand[g][l][i])
<1>1. hand[g][l] \in Seq(Entries) /\ hand \in [Nodes -> [Loops -> Seq(Entries)]]
    BY DEF StreamType
<1> DEFINE t == [hand[g][l] EXCEPT ![1].closing = TRUE]
<1>2. hand' = [hand EXCEPT ![g][l] = t]
    OBVIOUS
<1>3. /\ t \in Seq(Entries) /\ DOMAIN t = DOMAIN hand[g][l] /\ t[1].closing
      /\ \A i \in DOMAIN hand[g][l] : Same(t[i], hand[g][l][i]) /\ (i # 1 => t[i] = hand[g][l][i])
    BY <1>1, ClosingHead
<1> HIDE DEF t
<1>4. /\ hand' \in [Nodes -> [Loops -> Seq(Entries)]] /\ hand'[g][l] = t
      /\ \A h \in Nodes, m \in Loops : h # g \/ m # l => hand'[h][m] = hand[h][m]
    BY <1>1, <1>2, <1>3, PutInHand
<1>5. QED
    BY <1>3, <1>4

LEMMA SameClusterType == ClusterType /\ UNCHANGED <<cluster, faults>> => ClusterType'
    BY DEF ClusterType, cluster

LEMMA SameStreamType == StreamType /\ UNCHANGED streams => StreamType'
    BY DEF StreamType, streams

LEMMA SameUserType == UserType /\ UNCHANGED <<users, sent>> => UserType'
    BY DEF UserType, users

LEMMA PublishTypes ==
    ASSUME StreamType, UserType, NEW r \in Requests, NEW n \in 0..Final, NEW k \in Streams, Turn(r), Publish(r, n, k)
    PROVE  /\ log' \in [Streams -> Seq(Event)] /\ sent' \in [Requests -> 0..Final]
           /\ \A j \in Streams : Len(log'[j]) >= Len(log[j])
<1>1. [session |-> asked[r], kind |-> KindAt(n)] \in Event
    BY DEF Event, Kinds, KindAt, Turn, UserType
<1>2. log \in [Streams -> Seq(Event)] /\ sent \in [Requests -> 0..Final]
    BY DEF StreamType, UserType
<1>3. PICK event \in Event : log' = [log EXCEPT ![k] = Append(@, event)]
    BY <1>1 DEF Publish
<1>4. log' \in [Streams -> Seq(Event)]
    BY <1>2, <1>3
<1>5. \A j \in Streams : Len(log'[j]) >= Len(log[j])
    BY <1>2, <1>3
<1>6. QED
    BY <1>2, <1>4, <1>5 DEF Publish

LEMMA PublishKeeps ==
    ASSUME StreamType, UserType, NEW r \in Requests, NEW n \in 0..Final, NEW k \in Streams,
           Turn(r), Publish(r, n, k), UNCHANGED <<cursor, orphans, hand, users>>
    PROVE  StreamType' /\ UserType'
<1>1. /\ log' \in [Streams -> Seq(Event)] /\ sent' \in [Requests -> 0..Final]
      /\ \A j \in Streams : Len(log'[j]) >= Len(log[j])
    BY PublishTypes
<1>2. \A j \in Streams : Len(log[j]) \in Nat /\ Len(log'[j]) \in Nat
    BY <1>1 DEF StreamType
<1>3. \A x \in Nodes, j \in Streams : cursor'[x][j] \in 0..Len(log'[j])
    BY <1>1, <1>2 DEF StreamType
<1>4. QED
    BY <1>1, <1>3 DEF StreamType, UserType, users

LEMMA TargetIsStream == ASSUME ClusterType PROVE Target \in Streams
    BY DEF ClusterType, Target, Streams

LEMMA FollowingIsEvent == \A n \in 0..Final : Following(n) \in 0..Final /\ Final - 1 \in 0..Final
    BY ReplyBounds DEF Following, Final

LEMMA CoreTypes ==
    ASSUME StreamType, ClusterType, UserType, NEW r \in Requests,
           Answer(r) \/ AnswerFails(r) \/ AnswerUnresolved(r)
    PROVE  StreamType' /\ ClusterType' /\ UserType' /\ UNCHANGED <<cursor, orphans, hand, users>>
<1>1. sent[r] \in 0..Final
    BY DEF UserType
<1>2. PICK n \in 0..Final, k \in Streams :
         Turn(r) /\ Publish(r, n, k) /\ UNCHANGED <<cluster, cursor, orphans, hand, users>>
    BY <1>1, TargetIsStream, FollowingIsEvent DEF Answer, AnswerFails, AnswerUnresolved, Streams
<1>3. StreamType' /\ UserType'
    BY <1>2, PublishKeeps
<1>4. faults' \in 0..MaxFaults
    BY ReplyBounds DEF Answer, AnswerFails, AnswerUnresolved, Fault, ClusterType
<1>5. QED
    BY <1>2, <1>3, <1>4 DEF ClusterType, cluster

LEMMA AskTypes ==
    ASSUME UserType, NEW g \in Nodes, NEW s \in Sessions, Ask(g, s)
    PROVE  /\ UserType' /\ UNCHANGED <<cluster, streams, text, faults>>
           /\ Len(asked) \in Nat /\ Len(asked') = Len(asked) + 1 /\ Len(asked) < MaxRequests
           /\ \A h \in Nodes, t \in Sessions :
                 open'[h][t] = IF h = g /\ t = s THEN Len(asked') ELSE open[h][t]
<1>1. asked \in Seq(Sessions) /\ open \in [Nodes -> [Sessions -> 0..Len(asked)]]
    BY DEF UserType
<1>2. asked' = Append(asked, s) /\ Len(asked) < MaxRequests
    BY DEF Ask
<1>3. asked' \in Seq(Sessions) /\ Len(asked') = Len(asked) + 1 /\ Len(asked) \in Nat
    BY <1>1, <1>2
<1>4. open' = [open EXCEPT ![g][s] = Len(asked')]
    BY DEF Ask
<1> DEFINE m == Len(asked)
           n == Len(asked')
<1>5. m \in Nat /\ n = m + 1 /\ open \in [Nodes -> [Sessions -> 0..m]] /\ open' = [open EXCEPT ![g][s] = n]
    BY <1>1, <1>3, <1>4
<1> HIDE DEF m, n
<1>6. \A i \in 0..m : i \in 0..n
    BY <1>5
<1>7. open \in [Nodes -> [Sessions -> 0..n]] /\ n \in 0..n
    BY <1>5, <1>6
<1>8. /\ open' \in [Nodes -> [Sessions -> 0..n]]
      /\ \A h \in Nodes, t \in Sessions : open'[h][t] = IF h = g /\ t = s THEN n ELSE open[h][t]
    BY <1>5, <1>7
<1>9. UNCHANGED <<cluster, streams, sent, text, faults>>
    BY DEF Ask
<1>10. QED
    BY <1>2, <1>3, <1>8, <1>9 DEF UserType, n

LEMMA ReadTypes ==
    ASSUME StreamType, ClusterType, UserType, NEW g \in Nodes, NEW x \in Nodes, Read(g, x)
    PROVE  /\ StreamType' /\ UNCHANGED <<cluster, log, orphans, users, sent, faults>>
           /\ hand'[g]["read"] = Batch(g, x) /\ hand[g]["read"] = <<>>
           /\ \A h \in Nodes, l \in Loops : h # g \/ l # "read" => hand'[h][l] = hand[h][l]
           /\ \A y \in Nodes, k \in Streams : cursor[y][k] <= cursor'[y][k]
           /\ \A i \in DOMAIN Batch(g, x) : Batch(g, x)[i].id <= cursor'[x][Batch(g, x)[i].stream]
<1>1. ReplyTypeOK
    BY TypeParts
<1> DEFINE batch == Batch(g, x)
           now == Advanced(x, batch)
<1>2. batch \in Seq(Entries)
    BY <1>1, BatchOf
<1>3. /\ now \in [Streams -> Nat]
      /\ \A k \in Streams : cursor[x][k] <= now[k] /\ now[k] <= Len(log[k])
      /\ \A i \in DOMAIN batch : batch[i].id <= now[batch[i].stream]
    BY <1>1, AdvancedOf
<1>4. /\ hand[g]["read"] = <<>> /\ hand' = [hand EXCEPT ![g]["read"] = batch]
      /\ cursor' = [cursor EXCEPT ![x] = now]
      /\ UNCHANGED <<cluster, log, orphans, users, sent, faults>>
    BY DEF Read
<1> HIDE DEF batch, now
<1>5. hand \in [Nodes -> [Loops -> Seq(Entries)]] /\ "read" \in Loops
    BY DEF StreamType, Loops
<1>6. /\ hand' \in [Nodes -> [Loops -> Seq(Entries)]] /\ hand'[g]["read"] = batch
      /\ \A h \in Nodes, l \in Loops : h # g \/ l # "read" => hand'[h][l] = hand[h][l]
    BY <1>2, <1>4, <1>5, PutInHand
<1>7. cursor' \in [Nodes -> [Streams -> Nat]] /\ cursor'[x] = now /\ \A y \in Nodes \ {x} : cursor'[y] = cursor[y]
    BY <1>3, <1>4 DEF StreamType
<1>8. \A y \in Nodes, k \in Streams : cursor[y][k] \in Nat /\ Len(log[k]) \in Nat /\ cursor[y][k] <= Len(log[k])
    BY <1>1, Cursors
<1>9. \A y \in Nodes, k \in Streams : cursor[y][k] <= cursor'[y][k] /\ cursor'[y][k] \in 0..Len(log[k])
    <2>1. ASSUME NEW y \in Nodes, NEW k \in Streams
          PROVE  cursor[y][k] <= cursor'[y][k] /\ cursor'[y][k] \in 0..Len(log[k])
        <3>1. CASE y = x
            <4>1. cursor'[y][k] = now[k] /\ now[k] \in Nat
                BY <1>3, <1>7, <3>1
            <4>2. QED
                BY <1>3, <1>8, <3>1, <4>1
        <3>2. CASE y # x
            BY <1>7, <1>8, <3>2
        <3>3. QED
            BY <3>1, <3>2
    <2>2. QED
        BY <2>1
<1>10. StreamType'
    BY <1>4, <1>6, <1>7, <1>9 DEF StreamType
<1>11. QED
    BY <1>3, <1>4, <1>6, <1>7, <1>9, <1>10 DEF batch

LEMMA ReclaimTypes ==
    ASSUME StreamType, ClusterType, IsFiniteSet(orphans), NEW g \in Nodes, NEW k \in Streams, Reclaim(g, k)
    PROVE  /\ StreamType' /\ UNCHANGED <<cluster, log, cursor, users, sent, faults>>
           /\ hand[g]["reclaim"] = <<>> /\ orphans' = orphans \ Claimable(g, k)
           /\ \A h \in Nodes, l \in Loops : h # g \/ l # "reclaim" => hand'[h][l] = hand[h][l]
           /\ \A i \in DOMAIN hand'[g]["reclaim"] : hand'[g]["reclaim"][i] \in Claimable(g, k)
           /\ \A i, j \in DOMAIN hand'[g]["reclaim"] :
                 hand'[g]["reclaim"][i].id = hand'[g]["reclaim"][j].id => i = j
<1>1. Claimable(g, k) \in SUBSET orphans /\ orphans \in SUBSET Entries
    BY DEF Claimable, StreamType
<1>2. IsFiniteSet(Claimable(g, k))
    BY <1>1, FS_Subset
<1>3. PICK batch \in InOrder(Claimable(g, k)) : hand' = [hand EXCEPT ![g]["reclaim"] = batch]
    BY DEF Reclaim
<1>4. /\ batch \in Seq(Entries) /\ \A i \in DOMAIN batch : batch[i] \in Claimable(g, k)
      /\ \A i, j \in DOMAIN batch : batch[i].id = batch[j].id => i = j
    BY <1>1, <1>2, OrderedOf
<1>5. hand \in [Nodes -> [Loops -> Seq(Entries)]] /\ "reclaim" \in Loops
    BY DEF StreamType, Loops
<1>6. /\ hand' \in [Nodes -> [Loops -> Seq(Entries)]] /\ hand'[g]["reclaim"] = batch
      /\ \A h \in Nodes, l \in Loops : h # g \/ l # "reclaim" => hand'[h][l] = hand[h][l]
    BY <1>3, <1>4, <1>5, PutInHand
<1>7. /\ hand[g]["reclaim"] = <<>> /\ orphans' = orphans \ Claimable(g, k)
      /\ UNCHANGED <<cluster, log, cursor, users, sent, faults>>
    BY DEF Reclaim
<1>8. StreamType'
    BY <1>1, <1>6, <1>7 DEF StreamType
<1>9. QED
    BY <1>4, <1>6, <1>7, <1>8

\* What work on the first entry of a hand does to the hands: it goes (c = 1), or it
\* stays and awaits the end of its reply (c = 0).
Moved(g, l, c) ==
    /\ \A h \in Nodes, m \in Loops : h # g \/ m # l => hand'[h][m] = hand[h][m]
    /\ \A i \in DOMAIN hand'[g][l] :
          /\ i + c \in DOMAIN hand[g][l] /\ Same(hand'[g][l][i], hand[g][l][i + c])
          /\ hand'[g][l][i].closing <=> hand[g][l][i + c].closing \/ (c = 0 /\ i = 1)

LEMMA DoneMoves ==
    ASSUME StreamType, NEW g \in Nodes, NEW l \in Loops, hand[g][l] # <<>>, Done(g, l)
    PROVE  Moved(g, l, 1) /\ hand' \in [Nodes -> [Loops -> Seq(Entries)]] /\ orphans' = orphans
<1>1. /\ hand' \in [Nodes -> [Loops -> Seq(Entries)]] /\ orphans' = orphans
      /\ \A h \in Nodes, m \in Loops : h # g \/ m # l => hand'[h][m] = hand[h][m]
      /\ \A i \in DOMAIN hand'[g][l] :
            i + 1 \in DOMAIN hand[g][l] /\ hand'[g][l][i] = hand[g][l][i + 1]
    BY DoneOf
<1>2. QED
    BY <1>1 DEF Moved, Same

LEMMA ClosingMoves ==
    ASSUME StreamType, NEW g \in Nodes, NEW l \in Loops, hand[g][l] # <<>>,
           hand' = [hand EXCEPT ![g][l][1].closing = TRUE]
    PROVE  Moved(g, l, 0) /\ hand' \in [Nodes -> [Loops -> Seq(Entries)]]
<1> DEFINE s == hand[g][l]
           t == hand'[g][l]
<1>1. /\ hand' \in [Nodes -> [Loops -> Seq(Entries)]]
      /\ \A h \in Nodes, m \in Loops : h # g \/ m # l => hand'[h][m] = hand[h][m]
      /\ DOMAIN t = DOMAIN s /\ t[1].closing
      /\ \A i \in DOMAIN s : Same(t[i], s[i]) /\ (i # 1 => t[i] = s[i])
    BY ClosingOf
<1>2. s \in Seq(Entries)
    BY DEF StreamType
<1> HIDE DEF s, t
<1>3. \A i \in DOMAIN t : i + 0 = i
    BY <1>1, <1>2
<1>4. \A i \in DOMAIN t : /\ i + 0 \in DOMAIN s /\ Same(t[i], s[i + 0])
                          /\ t[i].closing <=> s[i + 0].closing \/ (0 = 0 /\ i = 1)
    BY <1>1, <1>3
<1>5. QED
    BY <1>1, <1>4 DEF Moved, s, t

LEMMA HandleOf ==
    ASSUME StreamType, UserType, NEW g \in Nodes, NEW l \in Loops, hand[g][l] # <<>>, Handle(g, l)
    PROVE  LET e == hand[g][l][1]
               r == open[g][EventOf(e).session] IN
           /\ StreamType' /\ UserType'
           /\ UNCHANGED <<cluster, log, cursor, orphans, open, asked, sent, faults>>
           /\ e \in Entries /\ 1 \in DOMAIN hand[g][l] /\ ~e.closing
           /\ Moved(g, l, 0) \/ Moved(g, l, 1)
           /\ text' = IF r = 0 THEN text ELSE [text EXCEPT ![r] = Append(@, <<e.stream, e.id>>)]
<1> DEFINE e == hand[g][l][1]
           r == open[g][EventOf(e).session]
<1>1. hand[g][l] \in Seq(Entries)
    BY DEF StreamType
<1>2. Head(hand[g][l]) = e /\ e \in Entries /\ 1 \in DOMAIN hand[g][l]
    BY <1>1, TailOf
<1>3. /\ ~e.closing
      /\ text' = IF r = 0 THEN text ELSE [text EXCEPT ![r] = Append(@, <<e.stream, e.id>>)]
      /\ UNCHANGED <<cluster, log, cursor, open, asked, sent, faults>>
      /\ \/ hand' = [hand EXCEPT ![g][l][1].closing = TRUE] /\ UNCHANGED orphans
         \/ Done(g, l)
    BY <1>2 DEF Handle
<1> HIDE DEF e, r
<1>4. /\ hand' \in [Nodes -> [Loops -> Seq(Entries)]] /\ orphans' = orphans
      /\ Moved(g, l, 0) \/ Moved(g, l, 1)
    BY <1>3, DoneMoves, ClosingMoves
<1>5. <<e.stream, e.id>> \in Streams \X Nat
    BY <1>2 DEF Entries, Streams
<1>6. text' \in [Requests -> Seq(Streams \X Nat)]
    <2>1. text \in [Requests -> Seq(Streams \X Nat)]
        BY DEF UserType
    <2>2. r \in Requests => Append(text[r], <<e.stream, e.id>>) \in Seq(Streams \X Nat)
        BY <2>1, <1>5
    <2>3. QED
        BY <1>3, <2>1, <2>2
<1>7. StreamType'
    BY <1>3, <1>4 DEF StreamType
<1>8. UserType'
    BY <1>3, <1>6 DEF UserType
<1>9. QED
    BY <1>2, <1>3, <1>4, <1>7, <1>8 DEF e, r

LEMMA CloseOf ==
    ASSUME StreamType, UserType, NEW g \in Nodes, NEW l \in Loops, hand[g][l] # <<>>, Close(g, l)
    PROVE  /\ StreamType' /\ UserType' /\ Moved(g, l, 1)
           /\ UNCHANGED <<cluster, log, cursor, orphans, asked, sent, text, faults>>
           /\ \A h \in Nodes, s \in Sessions : open'[h][s] \in {open[h][s], 0}
<1> DEFINE s == EventOf(Head(hand[g][l])).session
<1>1. Done(g, l) /\ open' = [open EXCEPT ![g][s] = 0]
    BY DEF Close
<1>2. UNCHANGED <<cluster, log, cursor, asked, sent, text, faults>>
    BY DEF Close
<1>3. Moved(g, l, 1) /\ hand' \in [Nodes -> [Loops -> Seq(Entries)]] /\ orphans' = orphans
    BY <1>1, DoneMoves
<1> HIDE DEF s
<1>4. open \in [Nodes -> [Sessions -> 0..Len(asked)]] /\ 0 \in 0..Len(asked)
    BY DEF UserType
<1>5. /\ open' \in [Nodes -> [Sessions -> 0..Len(asked)]]
      /\ \A h \in Nodes, t \in Sessions : open'[h][t] \in {open[h][t], 0}
    BY <1>1, <1>4
<1>6. StreamType'
    BY <1>2, <1>3 DEF StreamType
<1>7. UserType'
    BY <1>2, <1>5 DEF UserType
<1>8. QED
    BY <1>2, <1>3, <1>5, <1>6, <1>7

LEMMA ClaimTypes ==
    ASSUME ClusterType, NEW g \in Nodes, Claim(g)
    PROVE  ClusterType' /\ UNCHANGED <<streams, users, sent>>
<1>1. PICK seen \in {{prev} \ {NoNode}, {}} : reads' = [reads EXCEPT ![g] = @ \cup seen]
    BY DEF Claim
<1>2. seen \in SUBSET Nodes
    BY DEF ClusterType
<1>3. reads' \in [Nodes -> SUBSET Nodes]
    BY <1>1, <1>2 DEF ClusterType
<1>4. QED
    BY <1>3 DEF Claim, ClusterType

LEMMA LoseTypes ==
    ASSUME ClusterType, UserType, NEW g \in Nodes, Lose(g)
    PROVE  /\ ClusterType' /\ UserType' /\ UNCHANGED <<streams, asked, text, sent>>
           /\ \A h \in Nodes, s \in Sessions : open'[h][s] \in {open[h][s], 0}
<1>1. Nothing \in [Sessions -> 0..Len(asked)] /\ \A s \in Sessions : Nothing[s] = 0
    BY DEF Nothing, UserType
<1>2. /\ open' \in [Nodes -> [Sessions -> 0..Len(asked)]]
      /\ \A h \in Nodes, s \in Sessions : open'[h][s] \in {open[h][s], 0}
    BY <1>1 DEF Lose, UserType
<1>3. QED
    BY <1>2 DEF Lose, ClusterType, UserType

LEMMA LapseTypes ==
    ASSUME ClusterType, OwnerLapses
    PROVE  ClusterType' /\ UNCHANGED <<streams, users, sent>>
<1>1. faults' \in 0..MaxFaults
    BY ReplyBounds DEF OwnerLapses, Fault, ClusterType
<1>2. QED
    BY <1>1 DEF OwnerLapses, ClusterType

LEMMA RestartTypes ==
    ASSUME ClusterType, NEW g \in Nodes, NodeRestarts(g)
    PROVE  ClusterType' /\ UNCHANGED <<streams, users, sent>>
    BY DEF NodeRestarts, ClusterType

LEMMA DiesTypes ==
    ASSUME StreamType, ClusterType, UserType, IsFiniteSet(orphans), NEW g \in Nodes, NodeDies(g)
    PROVE  /\ StreamType' /\ ClusterType' /\ UserType' /\ UNCHANGED <<log, cursor, asked, text, sent>>
           /\ IsFiniteSet(orphans') /\ orphans \subseteq orphans'
           /\ \A e \in orphans' \ orphans : ~e.closing /\
                 \E l \in Loops : \E i \in DOMAIN hand[g][l] : Same(e, hand[g][l][i])
           /\ \A h \in Nodes, l \in Loops : hand'[h][l] = IF h = g THEN <<>> ELSE hand[h][l]
           /\ \A h \in Nodes, s \in Sessions : open'[h][s] = IF h = g THEN 0 ELSE open[h][s]
<1> DEFINE a == hand[g]["read"]
           b == hand[g]["reclaim"]
           A == {[e EXCEPT !.closing = FALSE] : e \in Range(a)}
           B == {[e EXCEPT !.closing = FALSE] : e \in Range(b)}
<1>1. "read" \in Loops /\ "reclaim" \in Loops /\ a \in Seq(Entries) /\ b \in Seq(Entries)
    BY DEF Loops, StreamType
<1>2. orphans' = orphans \cup A \cup B
    BY DEF NodeDies
<1>3. ASSUME NEW s \in Seq(Entries), NEW d \in {[e EXCEPT !.closing = FALSE] : e \in Range(s)}
      PROVE  d \in Entries /\ ~d.closing /\ \E i \in DOMAIN s : Same(d, s[i])
    <2>1. PICK i \in DOMAIN s : d = [s[i] EXCEPT !.closing = FALSE]
        BY DEF Range
    <2>2. s[i] \in Entries
        OBVIOUS
    <2>3. d \in Entries /\ ~d.closing /\ Same(d, s[i])
        BY <2>1, <2>2 DEF Entries, Same
    <2>4. QED
        BY <2>3
<1>4. IsFiniteSet(A) /\ IsFiniteSet(B)
    BY <1>1, FiniteHand
<1>5. \A d \in A : d \in Entries /\ ~d.closing /\ \E i \in DOMAIN a : Same(d, a[i])
    BY <1>1, <1>3
<1>6. \A d \in B : d \in Entries /\ ~d.closing /\ \E i \in DOMAIN b : Same(d, b[i])
    BY <1>1, <1>3
<1>7. \A d \in A \cup B : d \in Entries /\ ~d.closing /\
          \E l \in Loops : \E i \in DOMAIN hand[g][l] : Same(d, hand[g][l][i])
    BY <1>1, <1>5, <1>6
<1> HIDE DEF A, B, a, b
<1>8. /\ IsFiniteSet(orphans') /\ orphans \subseteq orphans' /\ orphans' \subseteq Entries
      /\ \A e \in orphans' \ orphans : ~e.closing /\
            \E l \in Loops : \E i \in DOMAIN hand[g][l] : Same(e, hand[g][l][i])
    BY <1>2, <1>4, <1>7, FS_Union DEF StreamType
<1>9. Idle \in [Loops -> Seq(Entries)] /\ \A l \in Loops : Idle[l] = <<>>
    BY DEF Idle
<1>10. hand' = [hand EXCEPT ![g] = Idle] /\ hand \in [Nodes -> [Loops -> Seq(Entries)]]
    BY DEF NodeDies, StreamType
<1>11. /\ hand' \in [Nodes -> [Loops -> Seq(Entries)]]
       /\ \A h \in Nodes, l \in Loops : hand'[h][l] = IF h = g THEN <<>> ELSE hand[h][l]
    BY <1>9, <1>10
<1>12. Nothing \in [Sessions -> 0..Len(asked)] /\ \A s \in Sessions : Nothing[s] = 0
    BY DEF Nothing, UserType
<1>13. /\ open' \in [Nodes -> [Sessions -> 0..Len(asked)]]
       /\ \A h \in Nodes, s \in Sessions : open'[h][s] = IF h = g THEN 0 ELSE open[h][s]
    BY <1>12 DEF NodeDies, UserType
<1>14. UNCHANGED <<owner, prev, log, cursor, asked, text, sent>>
    BY DEF NodeDies
<1>15. StreamType'
    BY <1>8, <1>11, <1>14 DEF StreamType
<1>16. UserType'
    BY <1>13, <1>14 DEF UserType
<1>17. ClusterType'
    BY <1>14, ReplyBounds DEF NodeDies, Fault, ClusterType
<1>18. QED
    BY <1>8, <1>11, <1>13, <1>14, <1>15, <1>16, <1>17

-----------------------------------------------------------------------------
(* ReplyStreams: the invariant is inductive *)

LEMMA InitReplyIInv == ReplyInit => ReplyIInv
<1> SUFFICES ASSUME ReplyInit PROVE ReplyIInv
    OBVIOUS
<1>1. ReplyTypeOK
    BY InitReplyTypes
<1>2. /\ orphans = {} /\ \A g \in Nodes, l \in Loops : hand[g][l] = <<>>
      /\ \A g \in Nodes, s \in Sessions : open[g][s] = 0
      /\ asked = <<>> /\ \A r \in Requests : text[r] = <<>>
    BY DEF ReplyInit, Idle, Nothing
<1>3. HandsOK
    BY <1>2, FS_EmptySet DEF HandsOK
<1>4. OneHand
    BY <1>2 DEF OneHand
<1>5. OpenOnce
    BY <1>2, ReplyBounds DEF OpenOnce
<1>6. ShownIsDone
    BY <1>2 DEF ShownIsDone
<1>7. NoRepeatInReply
    BY <1>2 DEF NoRepeatInReply, IsInjective
<1>8. QED
    BY <1>1, <1>3, <1>4, <1>5, <1>6, <1>7 DEF ReplyIInv

\* Steps that do not touch the streams' readers and at most forget replies.
LEMMA ForgettingKeeps ==
    ASSUME ReplyIInv, UNCHANGED <<cursor, orphans, hand, asked, text>>,
           \A g \in Nodes, s \in Sessions : open'[g][s] \in {open[g][s], 0}
    PROVE  HandsOK' /\ OneHand' /\ OpenOnce' /\ ShownIsDone' /\ NoRepeatInReply'
<1>1. HandsOK'
    BY DEF ReplyIInv, HandsOK, Delivered, Within
<1>2. OneHand'
    BY DEF ReplyIInv, OneHand
<1>3. OpenOnce'
    BY DEF ReplyIInv, OpenOnce
<1>4. NoRepeatInReply'
    BY DEF ReplyIInv, NoRepeatInReply
<1>5. ShownIsDone'
    <2>1. SUFFICES ASSUME NEW g \in Nodes, NEW s \in Sessions, open'[g][s] # 0,
                          NEW n \in DOMAIN text'[open'[g][s]]
                   PROVE  Settled(g, Shown(g, open[g][s], n))'
        BY DEF ShownIsDone
    <2> DEFINE d == Shown(g, open[g][s], n)
    <2>2. open'[g][s] = open[g][s] /\ n \in DOMAIN text[open[g][s]]
        BY <2>1
    <2>3. Settled(g, d)
        BY <2>1, <2>2 DEF ReplyIInv, ShownIsDone
    <2>4. d' = d
        BY <2>2 DEF Shown
    <2> HIDE DEF d
    <2>5. Settled(g, d)'
        BY <2>3, <2>4 DEF Settled
    <2>6. QED
        BY <2>5 DEF d
<1>6. QED
    BY <1>1, <1>2, <1>3, <1>4, <1>5

LEMMA AskKeeps ==
    ASSUME ReplyIInv, NEW g \in Nodes, NEW s \in Sessions, Ask(g, s)
    PROVE  HandsOK' /\ OneHand' /\ OpenOnce' /\ ShownIsDone' /\ NoRepeatInReply'
<1>1. UserType
    BY TypeParts DEF ReplyIInv
<1> DEFINE m == Len(asked)
           n == Len(asked')
<1>2. /\ UNCHANGED <<streams, text>> /\ m \in Nat /\ n = m + 1 /\ m < MaxRequests
      /\ \A h \in Nodes, t \in Sessions : open'[h][t] = IF h = g /\ t = s THEN n ELSE open[h][t]
    BY <1>1, AskTypes
<1>3. \A h \in Nodes, t \in Sessions : open[h][t] \in 0..m
    BY <1>1 DEF UserType
<1>4. /\ \A r \in Requests : r > m => text[r] = <<>>
      /\ \A h, f \in Nodes, t, u \in Sessions : open[h][t] = open[f][u] /\ open[h][t] # 0 => h = f /\ t = u
    BY DEF ReplyIInv, OpenOnce
<1>5. HandsOK' /\ OneHand'
    BY <1>2 DEF ReplyIInv, HandsOK, OneHand, Delivered, Within, streams
<1> HIDE DEF m, n
<1>6. n \in Requests /\ text[n] = <<>>
    BY <1>2, <1>4, ReplyBounds DEF Requests
<1>7. OpenOnce'
    <2>1. n <= MaxRequests /\ \A r \in Requests : r > n => text'[r] = <<>>
        BY <1>2, <1>4, ReplyBounds DEF Requests
    <2>2. \A h, f \in Nodes, t, u \in Sessions : open'[h][t] = open'[f][u] /\ open'[h][t] # 0 => h = f /\ t = u
        BY SMTT(40), <1>2, <1>3, <1>4
    <2>3. QED
        BY <2>1, <2>2 DEF OpenOnce, n
<1>8. NoRepeatInReply'
    BY <1>2 DEF ReplyIInv, NoRepeatInReply
<1>9. ShownIsDone'
    <2>1. ASSUME NEW h \in Nodes, NEW t \in Sessions, open'[h][t] # 0, NEW i \in DOMAIN text[open'[h][t]]
          PROVE  open'[h][t] = open[h][t] /\ open[h][t] # 0
        BY <1>2, <1>6, <2>1
    <2>2. UNCHANGED <<cursor, orphans, hand, text>>
        BY <1>2 DEF streams
    <2>3. QED
        BY <2>1, <2>2 DEF ReplyIInv, ShownIsDone, Shown, Settled
<1>10. QED
    BY <1>5, <1>7, <1>8, <1>9

Deliveries == [stream : Streams, id : Nat, group : Nodes]

LEMMA ShownTypes ==
    ASSUME UserType, OpenOnce, NEW g \in Nodes, NEW s \in Sessions, open[g][s] # 0
    PROVE  /\ open[g][s] \in Requests
           /\ \A n \in DOMAIN text[open[g][s]] : Shown(g, open[g][s], n) \in Deliveries
<1>1. open[g][s] \in 1..Len(asked) /\ Len(asked) \in Nat
    BY DEF UserType
<1>2. open[g][s] \in Requests
    BY <1>1, ReplyBounds DEF OpenOnce, Requests
<1>3. \A n \in DOMAIN text[open[g][s]] : text[open[g][s]][n] \in Streams \X Nat
    BY <1>2 DEF UserType
<1>4. QED
    BY <1>2, <1>3 DEF Shown, Deliveries, GroupOf, Streams

\* Steps that show nothing.
LEMMA ShowingNothing ==
    ASSUME ReplyIInv, UNCHANGED <<asked, text>>,
           \A g \in Nodes, s \in Sessions : open'[g][s] \in {open[g][s], 0},
           \A g \in Nodes, s \in Sessions, d \in Deliveries :
               open'[g][s] # 0 /\ Settled(g, d) => Settled(g, d)'
    PROVE  OpenOnce' /\ ShownIsDone' /\ NoRepeatInReply'
<1>1. OpenOnce'
    BY DEF ReplyIInv, OpenOnce
<1>2. NoRepeatInReply'
    BY DEF ReplyIInv, NoRepeatInReply
<1>3. ASSUME NEW g \in Nodes, NEW s \in Sessions, open'[g][s] # 0, NEW n \in DOMAIN text'[open'[g][s]]
      PROVE  Settled(g, Shown(g, open[g][s], n))' /\ open'[g][s] = open[g][s]
    <2>1. open'[g][s] = open[g][s] /\ open[g][s] # 0 /\ n \in DOMAIN text[open[g][s]]
        BY <1>3
    <2>2. PICK d \in Deliveries : d = Shown(g, open[g][s], n)
        BY <2>1, ShownTypes, TypeParts DEF ReplyIInv
    <2>3. Settled(g, d)
        BY <2>1, <2>2 DEF ReplyIInv, ShownIsDone
    <2>4. Settled(g, d)'
        BY <1>3, <2>3
    <2>5. Shown(g, open[g][s], n)' = d
        BY <2>1, <2>2 DEF Shown
    <2>6. QED
        BY <2>1, <2>4, <2>5 DEF Settled
<1>4. ShownIsDone'
    BY <1>3 DEF ShownIsDone
<1>5. QED
    BY <1>1, <1>2, <1>4

LEMMA ReadKeeps ==
    ASSUME ReplyIInv, NEW g \in Nodes, NEW x \in Nodes, x \in reads[g], Read(g, x)
    PROVE  HandsOK' /\ OneHand' /\ OpenOnce' /\ ShownIsDone' /\ NoRepeatInReply'
<1> DEFINE batch == Batch(g, x)
<1>1. ReplyTypeOK /\ StreamType /\ ClusterType /\ UserType
    BY TypeParts DEF ReplyIInv
<1>2. /\ UNCHANGED <<log, orphans, users>> /\ hand'[g]["read"] = batch /\ hand[g]["read"] = <<>>
      /\ \A h \in Nodes, l \in Loops : h # g \/ l # "read" => hand'[h][l] = hand[h][l]
      /\ \A y \in Nodes, k \in Streams : cursor[y][k] <= cursor'[y][k]
      /\ \A i \in DOMAIN batch : batch[i].id <= cursor'[x][batch[i].stream]
    BY <1>1, ReadTypes
<1>3. /\ \A i \in DOMAIN batch :
            /\ batch[i].stream = x \/ (batch[i].stream = Fallback /\ x = g)
            /\ batch[i].group = x /\ ~batch[i].closing /\ batch[i].stream \in Streams
            /\ batch[i].id = cursor[x][batch[i].stream] + 1
      /\ \A i, j \in DOMAIN batch : batch[i].stream = batch[j].stream => i = j
    BY <1>1, BatchOf
<1> HIDE DEF batch
<1>4. /\ \A y \in Nodes, k \in Streams : cursor[y][k] \in Nat
      /\ cursor' \in [Nodes -> [Streams -> Nat]]
    BY <1>1, ReadTypes, Cursors DEF StreamType
<1>5. \A h \in Nodes, l \in Loops : \A i \in DOMAIN hand'[h][l] :
         \/ h = g /\ l = "read" /\ i \in DOMAIN batch /\ hand'[h][l][i] = batch[i]
         \/ (h # g \/ l # "read") /\ i \in DOMAIN hand[h][l] /\ hand'[h][l][i] = hand[h][l][i]
    BY <1>2
<1>6. \A h \in Nodes, l \in Loops : \A i \in DOMAIN hand[h][l] :
         hand[h][l][i] \in Entries /\ Delivered(hand[h][l][i]) /\ hand[h][l][i].group = GroupOf(h, hand[h][l][i].stream)
    BY <1>1 DEF StreamType, ReplyIInv, HandsOK
<1>7. \A e \in orphans : e \in Entries /\ Delivered(e)
    BY <1>1 DEF StreamType, ReplyIInv, HandsOK
<1>8. \A e \in Entries : Delivered(e) => Delivered(e)' /\ \A i \in DOMAIN batch : ~Same(batch[i], e) /\ ~Same(e, batch[i])
    <2>1. ASSUME NEW e \in Entries, Delivered(e)
          PROVE  Delivered(e)'
        <3>1. e.group \in Nodes /\ e.stream \in Streams /\ e.id \in Nat
            BY DEF Entries, Streams
        <3>2. e.id \in 1..cursor[e.group][e.stream] /\ (e.stream = Fallback \/ e.stream = e.group)
            BY <2>1 DEF Delivered, Within
        <3>3. cursor[e.group][e.stream] <= cursor'[e.group][e.stream]
              /\ cursor[e.group][e.stream] \in Nat /\ cursor'[e.group][e.stream] \in Nat
            BY <1>2, <1>4, <3>1
        <3>4. QED
            BY <3>2, <3>3 DEF Delivered, Within
    <2>2. ASSUME NEW e \in Entries, Delivered(e), NEW i \in DOMAIN batch, Same(batch[i], e) \/ Same(e, batch[i])
          PROVE  FALSE
        <3>1. e.stream = batch[i].stream /\ e.group = x /\ e.id = cursor[x][e.stream] + 1
            BY <2>2, <1>3 DEF Same
        <3>2. e.id <= cursor[x][e.stream] /\ cursor[x][e.stream] \in Nat
            BY <2>2, <3>1, <1>3, <1>4 DEF Delivered, Within
        <3>3. QED
            BY <3>1, <3>2
    <2>3. QED
        BY <2>1, <2>2
<1>9. HandsOK'
    <2>1. ASSUME NEW i \in DOMAIN batch
          PROVE  Within(cursor', batch[i]) /\ batch[i].group = GroupOf(g, batch[i].stream)
        <3>1. batch[i].id \in 1..cursor'[x][batch[i].stream]
            BY <1>2, <1>3, <1>4
        <3>2. QED
            BY <1>3, <3>1, StreamAssumption DEF Delivered, Within, GroupOf
    <2>2. \A h \in Nodes, l \in Loops : \A i \in DOMAIN hand'[h][l] :
             /\ hand'[h][l][i].stream = Fallback \/ hand'[h][l][i].stream = hand'[h][l][i].group
             /\ hand'[h][l][i].id \in 1..cursor'[hand'[h][l][i].group][hand'[h][l][i].stream]
             /\ hand'[h][l][i].group = GroupOf(h, hand'[h][l][i].stream)
        <3>1. ASSUME NEW h \in Nodes, NEW l \in Loops, NEW i \in DOMAIN hand'[h][l]
              PROVE  Within(cursor', hand'[h][l][i]) /\ hand'[h][l][i].group = GroupOf(h, hand'[h][l][i].stream)
            <4>1. CASE h = g /\ l = "read"
                BY <1>5, <2>1, <4>1
            <4>2. CASE h # g \/ l # "read"
                BY <1>5, <1>6, <1>8, <4>2 DEF Delivered
            <4>3. QED
                BY <4>1, <4>2
        <3>2. QED
            BY <3>1 DEF Within
    <2>3. IsFiniteSet(orphans') /\ \A e \in orphans' : Delivered(e)' /\ ~e.closing
        BY <1>2, <1>7, <1>8 DEF ReplyIInv, HandsOK
    <2>4. QED
        BY <2>2, <2>3 DEF HandsOK, Delivered, Within, GroupOf
<1>10. OneHand'
    <2>1. \A h, f \in Nodes, l, m \in Loops : \A i \in DOMAIN hand[h][l], j \in DOMAIN hand[f][m] :
             Same(hand[h][l][i], hand[f][m][j]) => h = f /\ l = m /\ i = j
        BY DEF ReplyIInv, OneHand
    <2>2. ASSUME NEW h \in Nodes, NEW f \in Nodes, NEW l \in Loops, NEW m \in Loops,
                 NEW i \in DOMAIN hand'[h][l], NEW j \in DOMAIN hand'[f][m], Same(hand'[h][l][i], hand'[f][m][j])
          PROVE  h = f /\ l = m /\ i = j
        <3>1. CASE (h = g /\ l = "read") /\ (f = g /\ m = "read")
            BY <1>3, <1>5, <2>2, <3>1 DEF Same
        <3>2. CASE (h = g /\ l = "read") /\ ~(f = g /\ m = "read")
            BY <1>5, <1>6, <1>8, <2>2, <3>2
        <3>3. CASE ~(h = g /\ l = "read") /\ (f = g /\ m = "read")
            BY <1>5, <1>6, <1>8, <2>2, <3>3
        <3>4. CASE ~(h = g /\ l = "read") /\ ~(f = g /\ m = "read")
            BY <1>5, <2>1, <2>2, <3>4
        <3>5. QED
            BY <3>1, <3>2, <3>3, <3>4
    <2>3. ASSUME NEW h \in Nodes, NEW l \in Loops, NEW i \in DOMAIN hand'[h][l], NEW e \in orphans
          PROVE  ~Same(hand'[h][l][i], e)
        BY <1>5, <1>7, <1>8 DEF ReplyIInv, OneHand
    <2>4. orphans' = orphans
        BY <1>2
    <2>5. QED
        BY <2>2, <2>3, <2>4 DEF OneHand, Same
<1>11. ASSUME NEW h \in Nodes, NEW d \in Deliveries, Settled(h, d)
       PROVE  Settled(h, d)'
    <2>1. d.group \in Nodes /\ d.stream \in Streams /\ d.id \in Nat
        BY DEF Deliveries
    <2>2. /\ d.id <= cursor[d.group][d.stream]
          /\ cursor[d.group][d.stream] \in Nat /\ cursor'[d.group][d.stream] \in Nat
          /\ cursor[d.group][d.stream] <= cursor'[d.group][d.stream]
        BY <1>2, <1>4, <1>11, <2>1 DEF Settled
    <2>3. \A i \in DOMAIN batch : ~Same(d, batch[i])
        BY <1>3, <2>2 DEF Same
    <2>4. \A f \in Nodes, l \in Loops : \A i \in DOMAIN hand'[f][l] :
             Same(d, hand'[f][l][i]) => f = h /\ hand'[f][l][i].closing
        BY <1>5, <1>11, <2>3 DEF Settled
    <2>5. d.id <= cursor'[d.group][d.stream] /\ \A e \in orphans' : ~Same(d, e)
        BY <1>2, <1>11, <2>1, <2>2 DEF Settled
    <2>6. QED
        BY <2>4, <2>5 DEF Settled, Same
<1>12. UNCHANGED <<open, asked, text>>
    BY <1>2 DEF users
<1>13. OpenOnce' /\ ShownIsDone' /\ NoRepeatInReply'
    BY <1>11, <1>12, ShowingNothing
<1>14. QED
    BY <1>9, <1>10, <1>13

LEMMA ReclaimKeeps ==
    ASSUME ReplyIInv, NEW g \in Nodes, NEW k \in Streams, Reclaim(g, k)
    PROVE  HandsOK' /\ OneHand' /\ OpenOnce' /\ ShownIsDone' /\ NoRepeatInReply'
<1> DEFINE old == Claimable(g, k)
<1>1. StreamType /\ ClusterType /\ UserType /\ IsFiniteSet(orphans)
    BY TypeParts DEF ReplyIInv, HandsOK
<1>2. /\ UNCHANGED <<log, cursor, users>> /\ hand[g]["reclaim"] = <<>> /\ orphans' = orphans \ old
      /\ \A h \in Nodes, l \in Loops : h # g \/ l # "reclaim" => hand'[h][l] = hand[h][l]
      /\ \A i \in DOMAIN hand'[g]["reclaim"] : hand'[g]["reclaim"][i] \in old
      /\ \A i, j \in DOMAIN hand'[g]["reclaim"] : hand'[g]["reclaim"][i].id = hand'[g]["reclaim"][j].id => i = j
    BY <1>1, ReclaimTypes
<1>3. \A e \in orphans : Delivered(e) /\ ~e.closing
    BY DEF ReplyIInv, HandsOK
<1>4. \A e \in old : e \in orphans /\ e.group = GroupOf(g, e.stream)
    BY <1>1, <1>3, StreamAssumption DEF Claimable, Delivered, Within, GroupOf, ClusterType
<1> HIDE DEF old
<1>5. \A h \in Nodes, l \in Loops : \A i \in DOMAIN hand'[h][l] :
         \/ h = g /\ l = "reclaim" /\ hand'[h][l][i] \in old
         \/ (h # g \/ l # "reclaim") /\ i \in DOMAIN hand[h][l] /\ hand'[h][l][i] = hand[h][l][i]
    BY <1>2
<1>6. HandsOK'
    <2>1. \A h \in Nodes, l \in Loops : \A i \in DOMAIN hand[h][l] :
             Delivered(hand[h][l][i]) /\ hand[h][l][i].group = GroupOf(h, hand[h][l][i].stream)
        BY DEF ReplyIInv, HandsOK
    <2>2. \A h \in Nodes, l \in Loops : \A i \in DOMAIN hand'[h][l] :
             Within(cursor, hand'[h][l][i]) /\ hand'[h][l][i].group = GroupOf(h, hand'[h][l][i].stream)
        BY <1>3, <1>4, <1>5, <2>1 DEF Delivered
    <2>3. IsFiniteSet(orphans') /\ cursor' = cursor
        BY <1>1, <1>2, FS_Subset
    <2>4. \A e \in orphans' : Within(cursor, e) /\ ~e.closing
        BY <1>2, <1>3 DEF Delivered
    <2>5. QED
        BY <2>2, <2>3, <2>4 DEF HandsOK, Delivered, Within, GroupOf
<1>7. /\ \A h, f \in Nodes, l, m \in Loops : \A i \in DOMAIN hand[h][l], j \in DOMAIN hand[f][m] :
            Same(hand[h][l][i], hand[f][m][j]) => h = f /\ l = m /\ i = j
      /\ \A h \in Nodes, l \in Loops : \A i \in DOMAIN hand[h][l] : \A e \in orphans :
            ~Same(hand[h][l][i], e) /\ ~Same(e, hand[h][l][i])
    BY DEF ReplyIInv, OneHand, Same
<1>8. OneHand'
    <2>1. ASSUME NEW h \in Nodes, NEW f \in Nodes, NEW l \in Loops, NEW m \in Loops,
                 NEW i \in DOMAIN hand'[h][l], NEW j \in DOMAIN hand'[f][m], Same(hand'[h][l][i], hand'[f][m][j])
          PROVE  h = f /\ l = m /\ i = j
        <3>1. CASE (h = g /\ l = "reclaim") /\ (f = g /\ m = "reclaim")
            BY <1>2, <2>1, <3>1 DEF Same
        <3>2. CASE (h = g /\ l = "reclaim") /\ ~(f = g /\ m = "reclaim")
            BY <1>4, <1>5, <1>7, <2>1, <3>2
        <3>3. CASE ~(h = g /\ l = "reclaim") /\ (f = g /\ m = "reclaim")
            BY <1>4, <1>5, <1>7, <2>1, <3>3
        <3>4. CASE ~(h = g /\ l = "reclaim") /\ ~(f = g /\ m = "reclaim")
            BY <1>5, <1>7, <2>1, <3>4
        <3>5. QED
            BY <3>1, <3>2, <3>3, <3>4
    <2>2. ASSUME NEW h \in Nodes, NEW l \in Loops, NEW i \in DOMAIN hand'[h][l], NEW e \in orphans'
          PROVE  ~Same(hand'[h][l][i], e)
        <3>1. e \in orphans /\ e \notin old
            BY <1>2
        <3>2. CASE h = g /\ l = "reclaim"
            <4>1. hand'[g]["reclaim"][i] \in orphans /\ hand'[g]["reclaim"][i] \in old
                BY <1>4, <1>5, <3>2
            <4>2. \A d \in orphans : Same(d, e) => d = e
                <5>1. orphans \subseteq Entries
                    BY <1>1 DEF StreamType
                <5>2. ASSUME NEW d \in orphans, Same(d, e) PROVE d = e
                    <6>1. d \in Entries /\ e \in Entries /\ d.closing = FALSE /\ e.closing = FALSE
                        BY <1>3, <3>1, <5>1 DEF Entries
                    <6>2. QED
                        BY <5>2, <6>1 DEF Same, Entries
                <5>3. QED
                    BY <5>2
            <4>3. QED
                BY <3>1, <3>2, <4>1, <4>2
        <3>3. CASE ~(h = g /\ l = "reclaim")
            BY <1>5, <1>7, <3>1, <3>3
        <3>4. QED
            BY <3>2, <3>3
    <2>3. QED
        BY <2>1, <2>2 DEF OneHand, Same
<1>9. ASSUME NEW h \in Nodes, NEW d \in Deliveries, Settled(h, d)
      PROVE  Settled(h, d)'
    <2>1. \A f \in Nodes, l \in Loops : \A i \in DOMAIN hand'[f][l] :
             Same(d, hand'[f][l][i]) => f = h /\ hand'[f][l][i].closing
        BY <1>4, <1>5, <1>9 DEF Settled
    <2>2. d.id <= cursor'[d.group][d.stream] /\ \A e \in orphans' : ~Same(d, e)
        BY <1>2, <1>9 DEF Settled
    <2>3. QED
        BY <2>1, <2>2 DEF Settled, Same
<1>10. UNCHANGED <<open, asked, text>>
    BY <1>2 DEF users
<1>11. OpenOnce' /\ ShownIsDone' /\ NoRepeatInReply'
    BY <1>9, <1>10, ShowingNothing
<1>12. QED
    BY <1>6, <1>8, <1>11

\* The hands and orphans after a step of work.
LEMMA MovedKeeps ==
    ASSUME ReplyIInv, NEW g \in Nodes, NEW l \in Loops, NEW c \in {0, 1}, Moved(g, l, c),
           StreamType', UNCHANGED <<cursor, orphans>>
    PROVE  /\ HandsOK' /\ OneHand'
           /\ \A h \in Nodes, m \in Loops : \A i \in DOMAIN hand'[h][m] :
                 \E j \in DOMAIN hand[h][m] :
                    /\ Same(hand'[h][m][i], hand[h][m][j])
                    /\ hand[h][m][j].closing => hand'[h][m][i].closing
                    /\ h = g /\ m = l /\ j = 1 => hand'[h][m][i].closing
<1>1. StreamType
    BY TypeParts DEF ReplyIInv
<1>2. \A h \in Nodes, m \in Loops : h # g \/ m # l => hand'[h][m] = hand[h][m]
    BY DEF Moved
<1>3. \A i \in DOMAIN hand'[g][l] :
         /\ i + c \in DOMAIN hand[g][l] /\ Same(hand'[g][l][i], hand[g][l][i + c])
         /\ hand'[g][l][i].closing <=> hand[g][l][i + c].closing \/ (c = 0 /\ i = 1)
    BY DEF Moved
<1>4. \A h \in Nodes, m \in Loops : \A i \in DOMAIN hand[h][m] :
         Delivered(hand[h][m][i]) /\ hand[h][m][i].group = GroupOf(h, hand[h][m][i].stream)
    BY DEF ReplyIInv, HandsOK
<1> DEFINE From(h, m, i) == IF h = g /\ m = l THEN i + c ELSE i
<1>5. \A h \in Nodes, m \in Loops : \A i \in DOMAIN hand'[h][m] : i \in Nat \ {0}
    BY DEF StreamType
<1>6. \A h \in Nodes, m \in Loops : \A i \in DOMAIN hand'[h][m] :
         From(h, m, i) \in DOMAIN hand[h][m] /\ Same(hand'[h][m][i], hand[h][m][From(h, m, i)])
    BY <1>2, <1>3 DEF Same
<1>7. \A h \in Nodes, m \in Loops : \A i, j \in DOMAIN hand'[h][m] : From(h, m, i) = From(h, m, j) => i = j
    BY <1>5
<1>8. \A h \in Nodes, m \in Loops : \A i \in DOMAIN hand'[h][m] :
         /\ hand[h][m][From(h, m, i)].closing => hand'[h][m][i].closing
         /\ h = g /\ m = l /\ From(h, m, i) = 1 => hand'[h][m][i].closing
    BY <1>2, <1>3, <1>5
<1> HIDE DEF From
<1>9. HandsOK'
    <2>1. \A h \in Nodes, m \in Loops : \A i \in DOMAIN hand'[h][m] :
             Within(cursor, hand'[h][m][i]) /\ hand'[h][m][i].group = GroupOf(h, hand'[h][m][i].stream)
        BY <1>4, <1>6 DEF Delivered, Within, Same, GroupOf
    <2>2. IsFiniteSet(orphans) /\ \A e \in orphans : Within(cursor, e) /\ ~e.closing
        BY DEF ReplyIInv, HandsOK, Delivered
    <2>3. QED
        BY <2>1, <2>2 DEF HandsOK, Delivered, Within, GroupOf
<1>10. OneHand'
    <2>1. ASSUME NEW h \in Nodes, NEW f \in Nodes, NEW m \in Loops, NEW o \in Loops,
                 NEW i \in DOMAIN hand'[h][m], NEW j \in DOMAIN hand'[f][o], Same(hand'[h][m][i], hand'[f][o][j])
          PROVE  h = f /\ m = o /\ i = j
        <3>1. Same(hand[h][m][From(h, m, i)], hand[f][o][From(f, o, j)])
            BY <1>6, <2>1 DEF Same
        <3>2. h = f /\ m = o /\ From(h, m, i) = From(f, o, j)
            BY <1>6, <3>1 DEF ReplyIInv, OneHand
        <3>3. QED
            BY <1>7, <3>2
    <2>2. ASSUME NEW h \in Nodes, NEW m \in Loops, NEW i \in DOMAIN hand'[h][m], NEW e \in orphans
          PROVE  ~Same(hand'[h][m][i], e)
        <3>1. ~Same(hand[h][m][From(h, m, i)], e)
            BY <1>6 DEF ReplyIInv, OneHand
        <3>2. QED
            BY <1>6, <3>1 DEF Same
    <2>3. QED
        BY <2>1, <2>2 DEF OneHand, Same
<1>11. QED
    BY <1>6, <1>8, <1>9, <1>10

\* Work leaves what was settled settled.
LEMMA WorkSettles ==
    ASSUME ReplyIInv, NEW g \in Nodes, NEW l \in Loops, NEW c \in {0, 1}, Moved(g, l, c),
           StreamType', UNCHANGED <<cursor, orphans>>,
           NEW h \in Nodes, NEW d, Settled(h, d)
    PROVE  Settled(h, d)'
<1>1. \A f \in Nodes, m \in Loops : \A i \in DOMAIN hand'[f][m] :
         \E j \in DOMAIN hand[f][m] :
            Same(hand'[f][m][i], hand[f][m][j]) /\ (hand[f][m][j].closing => hand'[f][m][i].closing)
    BY SMTT(40), MovedKeeps
<1>2. \A f \in Nodes, m \in Loops : \A i \in DOMAIN hand'[f][m] :
         Same(d, hand'[f][m][i]) => f = h /\ hand'[f][m][i].closing
    BY <1>1 DEF Settled, Same
<1>3. QED
    BY <1>2 DEF Settled, Same

LEMMA CloseKeeps ==
    ASSUME ReplyIInv, NEW g \in Nodes, NEW l \in Loops, hand[g][l] # <<>>, Close(g, l)
    PROVE  HandsOK' /\ OneHand' /\ OpenOnce' /\ ShownIsDone' /\ NoRepeatInReply'
<1>1. StreamType /\ UserType
    BY TypeParts DEF ReplyIInv
<1>2. /\ StreamType' /\ Moved(g, l, 1) /\ UNCHANGED <<cursor, orphans, asked, text>>
      /\ \A h \in Nodes, s \in Sessions : open'[h][s] \in {open[h][s], 0}
    BY <1>1, CloseOf
<1>3. HandsOK' /\ OneHand'
    BY <1>2, MovedKeeps
<1>4. \A h \in Nodes, d \in Deliveries : Settled(h, d) => Settled(h, d)'
    BY <1>2, WorkSettles
<1>5. OpenOnce' /\ ShownIsDone' /\ NoRepeatInReply'
    BY <1>2, <1>4, ShowingNothing
<1>6. QED
    BY <1>3, <1>5

LEMMA DiesKeeps ==
    ASSUME ReplyIInv, NEW g \in Nodes, NodeDies(g)
    PROVE  HandsOK' /\ OneHand' /\ OpenOnce' /\ ShownIsDone' /\ NoRepeatInReply'
<1>1. StreamType /\ ClusterType /\ UserType /\ IsFiniteSet(orphans)
    BY TypeParts DEF ReplyIInv, HandsOK
<1>2. /\ UNCHANGED <<cursor, asked, text>> /\ IsFiniteSet(orphans') /\ orphans \subseteq orphans'
      /\ \A e \in orphans' \ orphans : ~e.closing /\
            \E l \in Loops : \E i \in DOMAIN hand[g][l] : Same(e, hand[g][l][i])
      /\ \A h \in Nodes, l \in Loops : hand'[h][l] = IF h = g THEN <<>> ELSE hand[h][l]
      /\ \A h \in Nodes, s \in Sessions : open'[h][s] = IF h = g THEN 0 ELSE open[h][s]
    BY <1>1, DiesTypes
<1>3. \A h \in Nodes, l \in Loops : \A i \in DOMAIN hand'[h][l] :
         h # g /\ i \in DOMAIN hand[h][l] /\ hand'[h][l][i] = hand[h][l][i]
    BY <1>2
<1>4. HandsOK'
    <2>1. \A h \in Nodes, l \in Loops : \A i \in DOMAIN hand'[h][l] :
             Within(cursor, hand'[h][l][i]) /\ hand'[h][l][i].group = GroupOf(h, hand'[h][l][i].stream)
        BY <1>3 DEF ReplyIInv, HandsOK, Delivered
    <2>2. ASSUME NEW e \in orphans'
          PROVE  Within(cursor, e) /\ ~e.closing
        <3>1. CASE e \in orphans
            BY <3>1 DEF ReplyIInv, HandsOK, Delivered
        <3>2. CASE e \notin orphans
            <4>1. PICK l \in Loops : \E i \in DOMAIN hand[g][l] : Same(e, hand[g][l][i])
                BY <1>2, <3>2
            <4>2. PICK i \in DOMAIN hand[g][l] : Same(e, hand[g][l][i])
                BY <4>1
            <4>3. Within(cursor, hand[g][l][i])
                BY DEF ReplyIInv, HandsOK, Delivered
            <4>4. QED
                BY <1>2, <3>2, <4>2, <4>3 DEF Within, Same
        <3>3. QED
            BY <3>1, <3>2
    <2>3. QED
        BY <1>2, <2>1, <2>2 DEF HandsOK, Delivered, Within, GroupOf
<1>5. OneHand'
    <2>1. ASSUME NEW h \in Nodes, NEW l \in Loops, NEW i \in DOMAIN hand'[h][l], NEW e \in orphans',
                 Same(hand'[h][l][i], e)
          PROVE  FALSE
        <3>1. h # g /\ i \in DOMAIN hand[h][l] /\ Same(hand[h][l][i], e)
            BY <1>3, <2>1
        <3>2. e \notin orphans
            BY <3>1 DEF ReplyIInv, OneHand
        <3>3. PICK m \in Loops : \E j \in DOMAIN hand[g][m] : Same(e, hand[g][m][j])
            BY <1>2, <3>2
        <3>4. PICK j \in DOMAIN hand[g][m] : Same(e, hand[g][m][j])
            BY <3>3
        <3>5. Same(hand[h][l][i], hand[g][m][j])
            BY <3>1, <3>4 DEF Same
        <3>6. QED
            BY <3>1, <3>5 DEF ReplyIInv, OneHand
    <2>2. \A h, f \in Nodes, l, m \in Loops : \A i \in DOMAIN hand'[h][l], j \in DOMAIN hand'[f][m] :
             Same(hand'[h][l][i], hand'[f][m][j]) => h = f /\ l = m /\ i = j
        BY <1>3 DEF ReplyIInv, OneHand
    <2>3. QED
        BY <2>1, <2>2 DEF OneHand, Same
<1>6. ASSUME NEW h \in Nodes, NEW s \in Sessions, NEW d \in Deliveries, open'[h][s] # 0, Settled(h, d)
      PROVE  Settled(h, d)'
    <2>1. h # g
        BY <1>2, <1>6
    <2>2. ASSUME NEW e \in orphans', Same(d, e)
          PROVE  FALSE
        <3>1. e \notin orphans
            BY <1>6, <2>2 DEF Settled
        <3>2. PICK m \in Loops : \E j \in DOMAIN hand[g][m] : Same(e, hand[g][m][j])
            BY <1>2, <3>1
        <3>3. \E j \in DOMAIN hand[g][m] : Same(d, hand[g][m][j])
            BY <2>2, <3>2 DEF Same
        <3>4. QED
            BY <1>6, <2>1, <3>3 DEF Settled
    <2>3. \A f \in Nodes, l \in Loops : \A i \in DOMAIN hand'[f][l] :
             Same(d, hand'[f][l][i]) => f = h /\ hand'[f][l][i].closing
        BY <1>3, <1>6 DEF Settled
    <2>4. d.id <= cursor'[d.group][d.stream]
        BY <1>2, <1>6 DEF Settled
    <2>5. QED
        BY <2>2, <2>3, <2>4 DEF Settled, Same
<1>7. OpenOnce' /\ ShownIsDone' /\ NoRepeatInReply'
    BY <1>2, <1>6, ShowingNothing
<1>8. QED
    BY <1>4, <1>5, <1>7

LEMMA AppendOnce ==
    ASSUME NEW T, NEW s \in Seq(T), NEW a \in T
    PROVE  LET t == Append(s, a) IN
           /\ \A n \in DOMAIN t : (n \in DOMAIN s /\ t[n] = s[n]) \/ (n = Len(s) + 1 /\ t[n] = a)
           /\ IsInjective(s) /\ (\A n \in DOMAIN s : s[n] # a) => IsInjective(t)
<1> DEFINE t == Append(s, a)
<1>1. \A n \in DOMAIN t : (n \in DOMAIN s /\ t[n] = s[n]) \/ (n = Len(s) + 1 /\ t[n] = a)
    OBVIOUS
<1> HIDE DEF t
<1>2. IsInjective(s) /\ (\A n \in DOMAIN s : s[n] # a) => IsInjective(t)
    BY <1>1 DEF IsInjective
<1>3. QED
    BY <1>1, <1>2 DEF t

Shows(r, e) == text' = [text EXCEPT ![r] = Append(@, <<e.stream, e.id>>)]

\* What the first entry of a hand, whose handler does not await the end of a reply,
\* shows was not shown before, and is settled from then on.
LEMMA ShowKeeps ==
    ASSUME ReplyIInv, StreamType', NEW g \in Nodes, NEW l \in Loops, NEW c \in {0, 1}, Moved(g, l, c),
           UNCHANGED <<cursor, orphans, open, asked>>,
           NEW e, e = hand[g][l][1], e \in Entries, 1 \in DOMAIN hand[g][l], ~e.closing,
           NEW s \in Sessions, NEW r, r = open[g][s], r # 0, Shows(r, e)
    PROVE  OpenOnce' /\ ShownIsDone' /\ NoRepeatInReply'
<1>1. StreamType /\ UserType
    BY TypeParts DEF ReplyIInv
<1>2. /\ Delivered(e) /\ e.group = GroupOf(g, e.stream)
      /\ e.group \in Nodes /\ e.stream \in Streams /\ e.id \in Nat
    BY DEF ReplyIInv, HandsOK, Entries, Streams
<1>3. r \in Requests /\ r \in 1..Len(asked) /\ Len(asked) \in Nat
    BY <1>1, ShownTypes DEF ReplyIInv, UserType
<1>4. PICK a : a = <<e.stream, e.id>>
    OBVIOUS
<1>5. text[r] \in Seq(Streams \X Nat) /\ a \in Streams \X Nat /\ a[1] = e.stream /\ a[2] = e.id
    BY <1>1, <1>2, <1>3, <1>4 DEF UserType
<1>6. text'[r] = Append(text[r], a) /\ \A q \in Requests \ {r} : text'[q] = text[q]
    BY <1>1, <1>3, <1>4 DEF UserType, Shows
<1>7. PICK d \in Deliveries : d = [stream |-> e.stream, id |-> e.id, group |-> GroupOf(g, e.stream)]
    BY <1>2 DEF Deliveries
<1>8. Same(d, e)
    BY <1>2, <1>7 DEF Same
<1>9. ASSUME NEW n \in DOMAIN text[r], text[r][n] = a
      PROVE  FALSE
    <2>1. Shown(g, r, n) = d
        BY <1>5, <1>7, <1>9 DEF Shown
    <2>2. Settled(g, d)
        BY <2>1 DEF ReplyIInv, ShownIsDone
    <2>3. e.closing
        BY <1>8, <2>2 DEF Settled
    <2>4. QED
        BY <2>3
<1>10. NoRepeatInReply'
    <2>1. IsInjective(text[r])
        BY <1>3 DEF ReplyIInv, NoRepeatInReply
    <2>2. IsInjective(Append(text[r], a))
        BY <1>5, <1>9, <2>1, AppendOnce
    <2>3. ASSUME NEW q \in Requests
          PROVE  IsInjective(text'[q])
        <3>1. CASE q = r
            BY <1>6, <2>2, <3>1
        <3>2. CASE q # r
            BY <1>6, <3>2 DEF ReplyIInv, NoRepeatInReply
        <3>3. QED
            BY <3>1, <3>2
    <2>4. QED
        BY <2>3 DEF NoRepeatInReply
<1>11. Settled(g, d)'
    <2>1. d.id <= cursor[d.group][d.stream]
        <3>1. d.id = e.id /\ d.group = e.group /\ d.stream = e.stream
            BY <1>8 DEF Same
        <3>2. cursor[e.group][e.stream] \in Nat
            BY <1>1, <1>2 DEF StreamType
        <3>3. QED
            BY <1>2, <3>1, <3>2 DEF Delivered, Within
    <2>2. \A o \in orphans : ~Same(d, o)
        <3>1. \A o \in orphans : ~Same(e, o)
            BY DEF ReplyIInv, OneHand
        <3>2. QED
            BY <1>8, <3>1 DEF Same
    <2>3. ASSUME NEW h \in Nodes, NEW m \in Loops, NEW i \in DOMAIN hand'[h][m], Same(d, hand'[h][m][i])
          PROVE  h = g /\ hand'[h][m][i].closing
        <3>1. PICK j \in DOMAIN hand[h][m] :
                 /\ Same(hand'[h][m][i], hand[h][m][j])
                 /\ h = g /\ m = l /\ j = 1 => hand'[h][m][i].closing
            BY MovedKeeps
        <3>2. Same(hand[g][l][1], hand[h][m][j])
            BY <1>8, <2>3, <3>1 DEF Same
        <3>3. h = g /\ m = l /\ j = 1
            BY <3>2 DEF ReplyIInv, OneHand
        <3>4. QED
            BY <3>1, <3>3
    <2>4. QED
        BY <2>1, <2>2, <2>3 DEF Settled, Same
<1>12. OpenOnce'
    <2>1. \A q \in Requests : q > Len(asked) => text'[q] = <<>>
        BY <1>3, <1>6 DEF ReplyIInv, OpenOnce
    <2>2. QED
        BY <2>1 DEF ReplyIInv, OpenOnce
<1>13. ShownIsDone'
    <2>1. ASSUME NEW h \in Nodes, NEW t \in Sessions, NEW q \in Requests, q = open[h][t], q # 0,
                 NEW n \in DOMAIN text'[q]
          PROVE  Settled(h, Shown(h, q, n))'
        <3>1. CASE n \in DOMAIN text[q] /\ text'[q][n] = text[q][n]
            <4>1. PICK f \in Deliveries : f = Shown(h, q, n)
                BY <1>1, <2>1, <3>1, ShownTypes DEF ReplyIInv
            <4>2. Settled(h, f)
                BY <2>1, <3>1, <4>1 DEF ReplyIInv, ShownIsDone
            <4>3. Settled(h, f)'
                BY <4>2, WorkSettles
            <4>4. Shown(h, q, n)' = f
                BY <3>1, <4>1 DEF Shown
            <4>5. QED
                BY <4>3, <4>4 DEF Settled
        <3>2. CASE q = r /\ text'[q][n] = a
            <4>1. h = g
                <5>1. open[h][t] = open[g][s] /\ open[h][t] # 0
                    BY <2>1, <3>2
                <5>2. QED
                    BY <5>1 DEF ReplyIInv, OpenOnce
            <4>2. Shown(h, q, n)' = d
                BY <1>5, <1>7, <3>2, <4>1 DEF Shown
            <4>3. QED
                BY <1>11, <4>1, <4>2 DEF Settled
        <3>3. CASE q = r
            <4>1. n \in DOMAIN Append(text[r], a)
                BY <1>6, <2>1, <3>3
            <4>2. \/ n \in DOMAIN text[r] /\ Append(text[r], a)[n] = text[r][n]
                  \/ Append(text[r], a)[n] = a
                BY <1>5, <4>1, AppendOnce
            <4>3. (n \in DOMAIN text[q] /\ text'[q][n] = text[q][n]) \/ text'[q][n] = a
                BY <1>6, <3>3, <4>2
            <4>4. QED
                BY <3>1, <3>2, <3>3, <4>3
        <3>4. CASE q # r
            <4>1. text'[q] = text[q] /\ n \in DOMAIN text[q]
                BY <1>6, <2>1, <3>4
            <4>2. QED
                BY <3>1, <4>1
        <3>5. QED
            BY <3>3, <3>4
    <2>2. ASSUME NEW h \in Nodes, NEW t \in Sessions, open'[h][t] # 0, NEW n \in DOMAIN text'[open'[h][t]]
          PROVE  Settled(h, Shown(h, open[h][t], n))'
        <3>1. PICK q \in Requests : q = open[h][t]
            BY <1>1, <2>2, ShownTypes DEF ReplyIInv
        <3>2. q = open'[h][t] /\ q # 0 /\ n \in DOMAIN text'[q]
            BY <2>2, <3>1
        <3>3. Settled(h, Shown(h, q, n))'
            BY <2>1, <3>1, <3>2
        <3>4. QED
            BY <3>2, <3>3 DEF Shown, Settled
    <2>3. QED
        BY <2>2 DEF ShownIsDone
<1>14. QED
    BY <1>10, <1>12, <1>13

LEMMA HandleKeeps ==
    ASSUME ReplyIInv, NEW g \in Nodes, NEW l \in Loops, hand[g][l] # <<>>, Handle(g, l)
    PROVE  HandsOK' /\ OneHand' /\ OpenOnce' /\ ShownIsDone' /\ NoRepeatInReply'
<1>1. StreamType /\ UserType
    BY TypeParts DEF ReplyIInv
<1>2. PICK e, s, r : e = hand[g][l][1] /\ s = EventOf(hand[g][l][1]).session /\ r = open[g][s]
    OBVIOUS
<1>3. /\ StreamType' /\ UserType' /\ UNCHANGED <<log, cursor, orphans, open, asked>>
      /\ e \in Entries /\ 1 \in DOMAIN hand[g][l] /\ ~e.closing
      /\ text' = IF r = 0 THEN text ELSE [text EXCEPT ![r] = Append(@, <<e.stream, e.id>>)]
    BY <1>1, <1>2, HandleOf
<1>4. PICK c \in {0, 1} : Moved(g, l, c)
    BY <1>1, HandleOf
<1>5. HandsOK' /\ OneHand'
    BY <1>3, <1>4, MovedKeeps
<1>6. s \in Sessions
    <2>1. /\ Delivered(e) /\ e.group \in Nodes /\ e.stream \in Streams /\ e.id \in Nat
        BY <1>2, <1>3 DEF ReplyIInv, HandsOK, Entries, Streams
    <2>2. e.id \in 1..cursor[e.group][e.stream]
        BY <2>1 DEF Delivered, Within
    <2>3. cursor[e.group][e.stream] \in 0..Len(log[e.stream]) /\ log[e.stream] \in Seq(Event)
        BY <1>1, <2>1 DEF StreamType
    <2>4. e.id \in 1..Len(log[e.stream])
        BY <2>2, <2>3
    <2>5. log[e.stream][e.id] \in Event
        BY <2>3, <2>4
    <2>6. QED
        BY <1>2, <2>5 DEF EventOf, Event
<1>7. CASE r = 0
    <2>1. UNCHANGED text
        BY <1>3, <1>7
    <2>2. \A h \in Nodes, d \in Deliveries : Settled(h, d) => Settled(h, d)'
        BY <1>3, <1>4, WorkSettles
    <2>3. OpenOnce' /\ ShownIsDone' /\ NoRepeatInReply'
        BY <1>3, <2>1, <2>2, ShowingNothing
    <2>4. QED
        BY <1>5, <2>3
<1>8. CASE r # 0
    <2>1. Shows(r, e)
        BY <1>3, <1>8 DEF Shows
    <2>2. /\ UNCHANGED <<cursor, orphans, open, asked>> /\ StreamType' /\ r = open[g][s]
          /\ e = hand[g][l][1] /\ e \in Entries /\ 1 \in DOMAIN hand[g][l] /\ ~e.closing
        BY <1>2, <1>3
    <2>3. OpenOnce' /\ ShownIsDone' /\ NoRepeatInReply'
        BY <1>4, <1>6, <1>8, <2>1, <2>2, ShowKeeps
    <2>4. QED
        BY <1>5, <2>3
<1>9. QED
    BY <1>7, <1>8

LEMMA ReplyStep == ReplyIInv /\ [ReplyNext]_replyVars => ReplyIInv'
<1> SUFFICES ASSUME ReplyIInv, [ReplyNext]_replyVars
             PROVE  ReplyIInv'
    OBVIOUS
<1> DEFINE Rest == HandsOK /\ OneHand /\ OpenOnce /\ ShownIsDone /\ NoRepeatInReply
<1>1. ReplyTypeOK /\ StreamType /\ ClusterType /\ UserType /\ IsFiniteSet(orphans)
    BY TypeParts DEF ReplyIInv, HandsOK
<1>2. StreamType' /\ ClusterType' /\ UserType' /\ Rest' => ReplyIInv'
    BY TypeParts DEF ReplyIInv, StreamType, ClusterType, UserType, ReplyTypeOK, Streams
<1>3. ASSUME UNCHANGED <<cluster, streams, users, sent, faults>>
      PROVE  ReplyIInv'
    <2>1. StreamType' /\ ClusterType' /\ UserType'
        BY <1>1, <1>3, SameStreamType, SameClusterType, SameUserType
    <2>2. Rest'
        BY <1>3, ForgettingKeeps DEF streams, users
    <2>3. QED
        BY <1>2, <2>1, <2>2
<1>4. ASSUME NEW g \in Nodes, NEW s \in Sessions, Ask(g, s)
      PROVE  ReplyIInv'
    <2>1. UserType' /\ UNCHANGED <<cluster, streams, faults>>
        BY <1>1, <1>4, AskTypes
    <2>2. StreamType' /\ ClusterType'
        BY <1>1, <2>1, SameStreamType, SameClusterType
    <2>3. Rest'
        BY <1>4, AskKeeps
    <2>4. QED
        BY <1>2, <2>1, <2>2, <2>3
<1>5. ASSUME NEW g \in Nodes, NEW x \in Nodes, Read(g, x)
      PROVE  ReplyIInv'
    <2>1. StreamType' /\ UNCHANGED <<cluster, users, sent, faults>>
        BY <1>1, <1>5, ReadTypes
    <2>2. ClusterType' /\ UserType'
        BY <1>1, <2>1, SameClusterType, SameUserType
    <2>3. Rest'
        BY <1>5, ReadKeeps DEF Read
    <2>4. QED
        BY <1>2, <2>1, <2>2, <2>3
<1>6. ASSUME NEW g \in Nodes, NEW k \in Streams, Reclaim(g, k)
      PROVE  ReplyIInv'
    <2>1. StreamType' /\ UNCHANGED <<cluster, users, sent, faults>>
        BY <1>1, <1>6, ReclaimTypes
    <2>2. ClusterType' /\ UserType'
        BY <1>1, <2>1, SameClusterType, SameUserType
    <2>3. Rest'
        BY <1>6, ReclaimKeeps
    <2>4. QED
        BY <1>2, <2>1, <2>2, <2>3
<1>7. ASSUME NEW g \in Nodes, NEW l \in Loops, Work(g, l)
      PROVE  ReplyIInv'
    <2>1. hand[g][l] # <<>> /\ (Handle(g, l) \/ Close(g, l))
        BY <1>7 DEF Work
    <2>2. StreamType' /\ UserType' /\ UNCHANGED <<cluster, faults>>
        BY <1>1, <2>1, HandleOf, CloseOf
    <2>3. ClusterType'
        BY <1>1, <2>2, SameClusterType
    <2>4. Rest'
        BY <2>1, HandleKeeps, CloseKeeps
    <2>5. QED
        BY <1>2, <2>2, <2>3, <2>4
<1>8. ASSUME NEW g \in Nodes, Claim(g) \/ OwnerLapses \/ NodeRestarts(g)
      PROVE  ReplyIInv'
    <2>1. ClusterType' /\ UNCHANGED <<streams, users, sent>>
        BY <1>1, <1>8, ClaimTypes, LapseTypes, RestartTypes
    <2>2. StreamType' /\ UserType'
        BY <1>1, <2>1, SameStreamType, SameUserType
    <2>3. Rest'
        BY <2>1, ForgettingKeeps DEF streams, users
    <2>4. QED
        BY <1>2, <2>1, <2>2, <2>3
<1>9. ASSUME NEW g \in Nodes, Lose(g)
      PROVE  ReplyIInv'
    <2>1. /\ ClusterType' /\ UserType' /\ UNCHANGED <<streams, asked, text, sent>>
          /\ \A h \in Nodes, s \in Sessions : open'[h][s] \in {open[h][s], 0}
        BY <1>1, <1>9, LoseTypes
    <2>2. StreamType'
        BY <1>1, <2>1, SameStreamType
    <2>3. Rest'
        BY <2>1, ForgettingKeeps DEF streams
    <2>4. QED
        BY <1>2, <2>1, <2>2, <2>3
<1>10. ASSUME NEW g \in Nodes, NodeDies(g)
       PROVE  ReplyIInv'
    <2>1. StreamType' /\ ClusterType' /\ UserType'
        BY <1>1, <1>10, DiesTypes
    <2>2. Rest'
        BY <1>10, DiesKeeps
    <2>3. QED
        BY <1>2, <2>1, <2>2
<1>11. ASSUME NEW r \in Requests, Answer(r) \/ AnswerFails(r) \/ AnswerUnresolved(r)
       PROVE  ReplyIInv'
    <2>1. StreamType' /\ ClusterType' /\ UserType' /\ UNCHANGED <<cursor, orphans, hand, users>>
        BY <1>1, <1>11, CoreTypes
    <2>2. Rest'
        BY <2>1, ForgettingKeeps DEF users
    <2>3. QED
        BY <1>2, <2>1, <2>2
<1> HIDE DEF Rest
<1>12. CASE UNCHANGED replyVars
    BY <1>3, <1>12 DEF replyVars
<1>13. CASE ReplyNext
    <2>1. CASE Core
        BY <1>11, <2>1 DEF Core
    <2>2. CASE OwnerLapses
        <3>1. PICK g \in Nodes : TRUE
            BY <2>2, <1>1 DEF OwnerLapses, ClusterType
        <3>2. QED
            BY <1>8, <2>2
    <2>3. ASSUME NEW g \in Nodes, ReadLoop(g) \/ ReclaimLoop(g)
          PROVE  ReplyIInv'
        BY <1>5, <1>6, <1>7, <2>3 DEF ReadLoop, ReclaimLoop, Loops, Streams
    <2>4. QED
        BY <1>4, <1>8, <1>9, <1>10, <1>13, <2>1, <2>2, <2>3 DEF ReplyNext
<1>14. QED
    BY <1>12, <1>13

LEMMA ReplyInvariance == ReplySpec => []ReplyIInv
<1>1. QED
    BY InitReplyIInv, ReplyStep, PTL DEF ReplySpec

-----------------------------------------------------------------------------
(* ReplyStreams: theorems *)

\* Every variable of the reply streams keeps its type: no group's cursor passes the
\* end of its stream, and a reply that stands open answers a message that was asked.
THEOREM ReplyTypeCorrect == ReplySpec => []ReplyTypeOK
<1>1. ReplyIInv => ReplyTypeOK
    BY DEF ReplyIInv
<1>2. QED
    BY <1>1, ReplyInvariance, PTL

\* At-least-once delivery through XREADGROUP, XAUTOCLAIM and takeovers of streams
\* (redisStream.ts) writes an event into a reply (WecomBotAdapter) at most once, for
\* any number of gateways, messages, crashes and lapses.
THEOREM NoRepeat == ReplySpec => []NoRepeatInReply
<1>1. ReplyIInv => NoRepeatInReply
    BY DEF ReplyIInv
<1>2. QED
    BY <1>1, ReplyInvariance, PTL
=============================================================================
