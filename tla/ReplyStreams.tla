---------------------------- MODULE ReplyStreams ----------------------------
(***************************************************************************)
(* The way of an answer from the agent cores back to a WeCom bot's user:   *)
(* the cores publish events (backend/src/queue/redis_stream.py,            *)
(* inbound_worker.py) to the event stream of the gateway that owns the bot *)
(* or to the fallback stream, and the gateways read them                   *)
(* (gateway/src/queue/redisStream.ts, index.ts) and write them into the    *)
(* reply that stands open in their process (WecomBotAdapter.ts).           *)
(*                                                                         *)
(* One bot.  How its lease moves is GatewayBots' subject: here a gateway   *)
(* claims a free lease and connects in one step.                           *)
(***************************************************************************)
EXTENDS Integers, Sequences, FiniteSets, Functions

CONSTANTS
    Nodes,              \* the gateways, by their node ids
    Sessions,           \* chats with the bot
    Fallback,           \* the stream of events whose owner is unknown
    NoNode,
    Deltas,             \* bound: text events of an answer
    MaxRequests,        \* bound: messages of the users
    MaxFaults           \* bound: crashes, lapses, errors

ASSUME StreamAssumption == Fallback \notin Nodes /\ NoNode \notin Nodes
ASSUME ReplyBounds == Deltas \in Nat /\ MaxRequests \in Nat /\ MaxFaults \in Nat

VARIABLES
    up,         \* the gateway processes that run
    owner,      \* aip:bot:{botId}:owner
    prev,       \* the last owner, as the others' BotRegistry.observedPrev has it
    serving,    \* the gateways whose adapter is started
    reads,      \* the gateways whose streams a gateway reads (streamGroups)
    log,        \* the event streams
    cursor,     \* cursor[x][k]: what group gw-x has been delivered of stream k
    orphans,    \* pending entries whose consumer is gone
    hand,       \* entries a gateway's read loop and its reclaim loop work on
    open,       \* pendingBySession: the request whose reply stands open, or 0
    asked,      \* the users' messages on the inbound stream: their sessions
    sent,       \* how many events of each answer are published
    text,       \* the events each reply has shown
    faults

streams == <<log, cursor, orphans, hand>>
users == <<open, asked, text>>
cluster == <<up, owner, prev, serving, reads>>
replyVars == <<cluster, streams, users, sent, faults>>

Requests == 1..MaxRequests
Final == Deltas + 2     \* an answer: its texts, its failure, its end
Loops == {"read", "reclaim"}
Kinds == {"delta", "error", "done"}
Event == [session : Sessions, kind : Kinds]

\* An entry in hand or orphaned: its stream and id, and the group it is pending in.
\* While `closing` its handler awaits the last frame of a reply.
EntryOf(k, x, i) == [stream |-> k, id |-> i, group |-> x, closing |-> FALSE]
Entries == [stream : Nodes \cup {Fallback}, id : Nat, group : Nodes, closing : BOOLEAN]

ReplyTypeOK ==
    /\ up \subseteq Nodes /\ serving \subseteq up
    /\ owner \in Nodes \cup {NoNode} /\ prev \in Nodes \cup {NoNode}
    /\ reads \in [Nodes -> SUBSET Nodes]
    /\ log \in [Nodes \cup {Fallback} -> Seq(Event)]
    /\ cursor \in [Nodes -> [Nodes \cup {Fallback} -> Nat]]
    /\ \A x \in Nodes, k \in DOMAIN log : cursor[x][k] \in 0..Len(log[k])
    /\ orphans \subseteq Entries
    /\ hand \in [Nodes -> [Loops -> Seq(Entries)]]
    /\ open \in [Nodes -> [Sessions -> 0..Len(asked)]]
    /\ asked \in Seq(Sessions)
    /\ sent \in [Requests -> 0..Final]
    /\ text \in [Requests -> Seq((Nodes \cup {Fallback}) \X Nat)]
    /\ faults \in 0..MaxFaults

Nothing == [s \in Sessions |-> 0]
Idle == [l \in Loops |-> <<>>]

ReplyInit ==
    /\ up = Nodes /\ owner = NoNode /\ prev = NoNode /\ serving = {}
    /\ reads = [g \in Nodes |-> {g}]
    /\ log = [k \in Nodes \cup {Fallback} |-> <<>>]
    /\ cursor = [x \in Nodes |-> [k \in Nodes \cup {Fallback} |-> 0]]
    /\ orphans = {} /\ hand = [g \in Nodes |-> Idle]
    /\ open = [g \in Nodes |-> Nothing]
    /\ asked = <<>> /\ sent = [r \in Requests |-> 0] /\ text = [r \in Requests |-> <<>>]
    /\ faults = 0

Fault == faults < MaxFaults /\ faults' = faults + 1

-----------------------------------------------------------------------------
(* A user's message (WecomBotAdapter.handleInbound) *)

\* The reply is opened, over the one that may stand open already, and the message
\* is put on the inbound stream.  (A message whose gateway dies in between is one
\* never asked.)
Ask(g, s) ==
    /\ g \in serving /\ Len(asked) < MaxRequests
    /\ asked' = Append(asked, s)
    /\ open' = [open EXCEPT ![g][s] = Len(asked')]
    /\ UNCHANGED <<cluster, streams, sent, text, faults>>

-----------------------------------------------------------------------------
(* An agent core answers *)

KindAt(n) == IF n <= Deltas THEN "delta" ELSE IF n = Final THEN "done" ELSE "error"

\* publish_agent_event: the stream of the bot's owner, if one is known.
Target == IF owner = NoNode THEN Fallback ELSE owner

Publish(r, n, k) ==
    /\ log' = [log EXCEPT ![k] = Append(@, [session |-> asked[r], kind |-> KindAt(n)])]
    /\ sent' = [sent EXCEPT ![r] = n]

\* The messages of a session are answered one after the other.
Turn(r) ==
    /\ r \in DOMAIN asked /\ sent[r] < Final
    /\ \A q \in 1..r - 1 : asked[q] = asked[r] => sent[q] = Final

Following(n) == IF n < Deltas THEN n + 1 ELSE Final

Answer(r) ==
    /\ Turn(r)
    /\ Publish(r, Following(sent[r]), Target)
    /\ UNCHANGED <<cluster, cursor, orphans, hand, users, faults>>

\* The agent fails: what comes next is an error, and then the end.
AnswerFails(r) ==
    /\ Turn(r) /\ sent[r] <= Deltas /\ Fault
    /\ Publish(r, Final - 1, Target)
    /\ UNCHANGED <<cluster, cursor, orphans, hand, users>>

\* Redis fails a lookup of the owner.
AnswerUnresolved(r) ==
    /\ Turn(r) /\ Fault
    /\ Publish(r, Following(sent[r]), Fallback)
    /\ UNCHANGED <<cluster, cursor, orphans, hand, users>>

-----------------------------------------------------------------------------
(* StreamConsumer *)

NextOf(x, k) ==
    IF cursor[x][k] < Len(log[k]) THEN <<EntryOf(k, x, cursor[x][k] + 1)>> ELSE <<>>

Advanced(x, batch) ==
    [k \in DOMAIN cursor[x] |->
        IF \E e \in Range(batch) : e.stream = k THEN cursor[x][k] + 1 ELSE cursor[x][k]]

\* consumeLoop: XREADGROUP of one entry from each stream of a group, handled
\* before the next read.  A gateway's own group also reads the fallback stream.
Batch(g, x) == NextOf(x, x) \o (IF x = g THEN NextOf(x, Fallback) ELSE <<>>)

Read(g, x) ==
    /\ g \in up /\ x \in reads[g] /\ hand[g]["read"] = <<>> /\ Batch(g, x) # <<>>
    /\ hand' = [hand EXCEPT ![g]["read"] = Batch(g, x)]
    /\ cursor' = [cursor EXCEPT ![x] = Advanced(x, Batch(g, x))]
    /\ UNCHANGED <<cluster, log, orphans, users, sent, faults>>

\* reclaimLoop, and the claim of drainAndClaim: XAUTOCLAIM of the entries of one
\* stream that have been pending for minIdleMs.  (Bound: a handler takes less.)
MutClaimable(g, k) == {e \in orphans : e.stream = k /\ k \in reads[g] \ {g}}
Claimable(g, k) == {e \in orphans : e.stream = k /\ (k \in reads[g] \/ (k = Fallback /\ e.group = g))}
InOrder(S) == {b \in [1..Cardinality(S) -> S] : \A i, j \in DOMAIN b : i < j => b[i].id < b[j].id}
Reclaim(g, k) ==
    /\ g \in up /\ hand[g]["reclaim"] = <<>> /\ Claimable(g, k) # {}
    /\ \E batch \in InOrder(Claimable(g, k)) : hand' = [hand EXCEPT ![g]["reclaim"] = batch]
    /\ orphans' = orphans \ Claimable(g, k)
    /\ UNCHANGED <<cluster, log, cursor, users, sent, faults>>

-----------------------------------------------------------------------------
(* The callback of index.ts: dispatch to the adapter, and WecomBotAdapter's  *)
(* onAgentTextDelta, onAgentDone and finishWithError                         *)

EventOf(e) == log[e.stream][e.id]

\* The callback catches every error, so the entry is acknowledged in any case.
\* (Callback and XACK are one step: a gateway that dies in between has forgotten
\* the reply that the callback wrote to.)
MutUnacked(e) == {[e EXCEPT !.closing = FALSE]}
Unacked(e) == {}
Done(g, l) ==
    /\ hand' = [hand EXCEPT ![g][l] = Tail(@)]
    /\ orphans' = orphans \cup Unacked(Head(hand[g][l]))

\* An event finds no open reply or adds to it; the end of an answer sends the last
\* frame ...
MutCloses(kind) == FALSE
Closes(kind) == kind \in {"done", "error"}

Handle(g, l) ==
    LET e == Head(hand[g][l])
        r == open[g][EventOf(e).session]
    IN  /\ ~e.closing
        /\ text' = IF r = 0 THEN text ELSE [text EXCEPT ![r] = Append(@, <<e.stream, e.id>>)]
        /\ IF r # 0 /\ Closes(EventOf(e).kind)
             THEN hand' = [hand EXCEPT ![g][l][1].closing = TRUE] /\ UNCHANGED orphans
             ELSE Done(g, l)
        /\ UNCHANGED <<cluster, log, cursor, open, asked, sent, faults>>

\* ... and then deletes whatever reply is open in the session.
Close(g, l) ==
    LET e == Head(hand[g][l]) IN
    /\ e.closing
    /\ Done(g, l)
    /\ open' = [open EXCEPT ![g][EventOf(e).session] = 0]
    /\ UNCHANGED <<cluster, log, cursor, asked, sent, text, faults>>

-----------------------------------------------------------------------------
(* The bot's lease, crashes and restarts *)

\* acquireBot: the gateway that takes over from an owner it has seen reads that
\* gateway's stream from now on, in its group.
Claim(g) ==
    /\ g \in up /\ owner = NoNode
    /\ owner' = g /\ serving' = serving \cup {g}
    /\ \E seen \in {{prev} \ {NoNode}, {}} : reads' = [reads EXCEPT ![g] = @ \cup seen]
    /\ UNCHANGED <<up, prev, streams, users, sent, faults>>

\* onLost stops the adapter, which forgets its open replies.
Lose(g) ==
    /\ g \in serving /\ owner # g
    /\ serving' = serving \ {g}
    /\ open' = [open EXCEPT ![g] = Nothing]
    /\ UNCHANGED <<up, owner, prev, reads, streams, asked, text, sent, faults>>

\* The lease runs out, under a running owner or after its death.
OwnerLapses ==
    /\ owner # NoNode
    /\ IF owner \in up THEN Fault ELSE UNCHANGED faults
    /\ owner' = NoNode /\ prev' = owner
    /\ UNCHANGED <<up, serving, reads, streams, users, sent>>

NodeDies(g) ==
    /\ g \in up /\ Fault
    /\ up' = up \ {g} /\ serving' = serving \ {g}
    /\ orphans' = orphans \cup {[e EXCEPT !.closing = FALSE] :
                                   e \in Range(hand[g]["read"]) \cup Range(hand[g]["reclaim"])}
    /\ hand' = [hand EXCEPT ![g] = Idle]
    /\ open' = [open EXCEPT ![g] = Nothing]
    /\ reads' = [reads EXCEPT ![g] = {g}]
    /\ UNCHANGED <<owner, prev, log, cursor, asked, text, sent>>

\* A restarted owner finds its lease, if that is still there.
NodeRestarts(g) ==
    /\ g \in Nodes \ up
    /\ up' = up \cup {g}
    /\ serving' = IF owner = g THEN serving \cup {g} ELSE serving
    /\ UNCHANGED <<owner, prev, reads, streams, users, sent, faults>>

-----------------------------------------------------------------------------

Work(g, l) == hand[g][l] # <<>> /\ (Handle(g, l) \/ Close(g, l))
ReadLoop(g) == Work(g, "read") \/ \E x \in Nodes : Read(g, x)
ReclaimLoop(g) == Work(g, "reclaim") \/ \E k \in Nodes \cup {Fallback} : Reclaim(g, k)

Core == \E r \in Requests : Answer(r) \/ AnswerFails(r) \/ AnswerUnresolved(r)

ReplyNext ==
    \/ \E g \in Nodes : \/ \E s \in Sessions : Ask(g, s)
                           \/ ReadLoop(g) \/ ReclaimLoop(g) \/ Claim(g) \/ Lose(g)
                           \/ NodeDies(g) \/ NodeRestarts(g)
    \/ Core \/ OwnerLapses

ReplySpec == ReplyInit /\ [][ReplyNext]_replyVars

\* Loops run, cores go on answering, gateways that died are restarted.
FairReplySpec ==
    /\ ReplySpec
    /\ \A r \in Requests : WF_replyVars(Answer(r))
    /\ \A g \in Nodes :
          WF_replyVars(NodeRestarts(g)) /\ WF_replyVars(ReadLoop(g)) /\ WF_replyVars(ReclaimLoop(g))

-----------------------------------------------------------------------------
(* Properties *)

\* An event is written into a reply at most once, though it is delivered at least
\* once: what a gateway that died has left is reclaimed, what was handled is not.
NoRepeatInReply == \A r \in Requests : IsInjective(text[r])

\* A reply that stands open ("thinking ...") is closed in the end by an event of its
\* session or gives way to another, whichever stream the events take and whoever
\* crashes, unless the lease has ever been lost: from then on events may go to a
\* gateway where the reply is not open, or be read by one.
ReplyCloses ==
    \A g \in Nodes, s \in Sessions, r \in Requests :
        open[g][s] = r ~> (open[g][s] # r \/ prev # NoNode)

\* Entries of a gateway that died do not stay pending for ever (reclaimLoop).
OrphansReclaimed == []<>(orphans = {})

\* The stream of a gateway that runs is read by no other (index.ts: exclusive to
\* this gateway).  Does not hold: what drainAndClaim attaches is never detached.
HomeStream ==
    \A h \in Nodes, l \in Loops :
        \A e \in Range(hand[h][l]) : e.stream \in up => e.stream = h

=============================================================================
