------------------------ MODULE InboundStreamProofs ------------------------
(***************************************************************************)
(* Proofs about InboundStream.tla, for any cores, agents, messages and     *)
(* streams and any number of faults: what is lost, and below what is       *)
(* processed twice.                                                        *)
(*                                                                         *)
(* LossesHaveCauses is not inductive: a message whose handler is about to  *)
(* acknowledge its entry is not lost yet, and will be if nothing else      *)
(* holds it.  AtRisk adds those messages to the lost ones.  A handler that *)
(* rerouted is backed by the entry it added, or, when that entry has been  *)
(* rerouted in its turn, by one behind it in the agent's stream: Later is  *)
(* the order in which a message moves on, and it ends in an open entry.    *)
(***************************************************************************)
EXTENDS InboundStream, FiniteSetTheorems, FunctionTheorems, TLAPS

Open(s, i) == i > group[s] \/ <<s, i>> \in pel

\* A reroute moves a message from the channel to its agent's stream, and from an
\* entry there to one behind it.
Later(t, s, i) == s # Channel /\ (t.stream = Channel \/ (t.stream = s /\ i > t.index))

Backed(t) ==
    \E s \in Streams : \E i \in Entries(s) :
        log[s][i] = Message(t) /\ Open(s, i) /\ Later(t, s, i)

AtRisk ==
    {m \in Messages :
        /\ Published(m) /\ processed[m] = 0
        /\ \/ ~Recoverable(m)
           \/ \E t \in tasks : t.at = "acking" /\ Message(t) = m /\ ~Backed(t)}

StreamTypes ==
    /\ log \in [Streams -> Seq(Messages)] /\ group \in [Streams -> Int]
    /\ \A s \in Streams : group[s] \in -1..Len(log[s])
    /\ pel \subseteq Streams \X Nat /\ skipped \subseteq Agents \X Nat
    /\ \A e \in pel : e[2] \in 1..group[e[1]]
    /\ \A e \in skipped : e[2] \in 1..group[e[1]]

OwnerTypes ==
    /\ up \subseteq Cores /\ owner \in [Agents -> Cores \cup {NoOwner}]
    /\ subs \in [Cores -> SUBSET Agents]

TaskTypes ==
    /\ tasks \subseteq [core : Cores, stream : Streams, index : Nat, copy : 0..MaxSlow, at : Stages]
    /\ \A t \in tasks : t.core \in up /\ t.index \in Entries(t.stream)

CountTypes ==
    /\ orphans \subseteq Sessions /\ processed \in [Messages -> Nat]
    /\ lapses \in 0..MaxLapses /\ errors \in 0..MaxErrors /\ lostAdds \in 0..MaxLostAdds
    /\ lostAcks \in 0..MaxLostAcks /\ slow \in 0..MaxSlow /\ downs \in 0..MaxDowns
    /\ stale \in 0..MaxStale

Types == StreamTypes /\ OwnerTypes /\ TaskTypes /\ CountTypes

\* An agent's stream has that agent's messages only.
Filed == \A a \in Agents : \A i \in Entries(a) : AgentOf[log[a][i]] = a

FewAtRisk ==
    /\ IsFiniteSet(skipped) /\ IsFiniteSet(AtRisk)
    /\ Cardinality(AtRisk) <= lostAdds + Cardinality(skipped)

IInv == Types /\ Filed /\ FewAtRisk

-----------------------------------------------------------------------------
(* The operators *)

\* The message of a task is a published one.
LEMMA MessageOfTask ==
    ASSUME StreamTypes, TaskTypes, NEW t \in tasks
    PROVE  /\ t.stream \in Streams /\ t.index \in Entries(t.stream)
           /\ Message(t) \in Messages /\ Published(Message(t))
BY DEF StreamTypes, TaskTypes, Message, Published, Entries

\* XADD appends an entry and keeps the others.
LEMMA AddAppends ==
    ASSUME StreamTypes, NEW m \in Messages, NEW s \in Streams, Add(m, s)
    PROVE  /\ log' \in [Streams -> Seq(Messages)]
           /\ Len(log'[s]) = Len(log[s]) + 1 /\ log'[s][Len(log[s]) + 1] = m
           /\ \A r \in Streams \ {s} : log'[r] = log[r]
           /\ \A i \in Entries(s) : log'[s][i] = log[s][i]
           /\ \A r \in Streams : Len(log'[r]) \in Nat /\ Len(log[r]) \in Nat
BY DEF StreamTypes, Add, Entries

\* A step of a handler changes its stage or ends it.
LEMMA HandlersKeepTypes ==
    ASSUME TaskTypes, StreamTypes, StreamTypes', UNCHANGED up,
           \A s \in Streams : Len(log'[s]) >= Len(log[s]),
           NEW t \in tasks, Ends(t) \/ \E at \in Stages : Moves(t, at)
    PROVE  TaskTypes'
<1> DEFINE R == [core : Cores, stream : Streams, index : Nat, copy : 0..MaxSlow, at : Stages]
<1>1. \A u \in tasks' : u \in R /\ u.core \in up /\ u.index \in Entries(u.stream)
    <2>1. CASE Ends(t)
        BY <2>1 DEF Ends, TaskTypes
    <2>2. ASSUME NEW at \in Stages, Moves(t, at)
          PROVE  \A u \in tasks' : u \in R /\ u.core \in up /\ u.index \in Entries(u.stream)
        <3>1. t \in R /\ t.core \in up /\ t.index \in Entries(t.stream)
            BY DEF TaskTypes
        <3>2. LET u == [t EXCEPT !.at = at] IN
                u \in R /\ u.core = t.core /\ u.stream = t.stream /\ u.index = t.index
            BY <3>1
        <3>3. QED
            BY <2>2, <3>1, <3>2 DEF Moves, TaskTypes
    <2>3. QED
        BY <2>1, <2>2
<1>2. \A u \in R : u.index \in Entries(u.stream) => u.index \in Entries(u.stream)'
    <2>1. \A s \in Streams : Len(log[s]) \in Nat /\ Len(log'[s]) \in Nat
        BY DEF StreamTypes
    <2>2. QED
        BY <2>1 DEF Entries
<1>3. QED
    BY <1>1, <1>2 DEF TaskTypes

\* A task handed out by Deliver, Reclaim and ReclaimSlow.
LEMMA NewTask ==
    ASSUME TaskTypes, StreamTypes, UNCHANGED <<log, up>>,
           NEW c \in up, up \subseteq Cores, NEW s \in Streams, NEW i \in Entries(s),
           NEW n \in 0..MaxSlow, tasks' = tasks \cup {Task(c, s, i, n, "queued")}
    PROVE  TaskTypes'
<1>1. i \in Nat
    BY DEF Entries, StreamTypes
<1>2. QED
    BY <1>1 DEF TaskTypes, Task, Stages, Entries

-----------------------------------------------------------------------------
(* Types *)

LEMMA InitTypes == Init => Types /\ Filed
<1> SUFFICES ASSUME Init PROVE Types /\ Filed
    OBVIOUS
<1>1. \A s \in Streams : log[s] = <<>> /\ Len(log[s]) = 0 /\ group[s] \in {-1, 0}
    BY DEF Init
<1>2. StreamTypes
    BY <1>1 DEF Init, StreamTypes
<1>3. OwnerTypes /\ TaskTypes
    BY DEF Init, OwnerTypes, TaskTypes
<1>4. CountTypes
    BY BoundAssumption DEF Init, CountTypes
<1>5. Filed
    BY <1>1 DEF Filed, Entries, Streams
<1>6. QED
    BY <1>2, <1>3, <1>4, <1>5 DEF Types

LEMMA PublishTypes ==
    ASSUME Types, NEW m \in Messages, Publish(m)
    PROVE  Types'
<1>1. PICK s \in {Channel, AgentOf[m]} : Add(m, s)
    BY DEF Publish
<1>2. s \in Streams
    BY StreamAssumption DEF Streams
<1> HIDE DEF Streams
<1>3. \A r \in Streams : /\ Len(log[r]) \in Nat /\ Len(log'[r]) \in Nat
                           /\ Len(log[r]) <= Len(log'[r])
    BY <1>1, <1>2, AddAppends DEF Types
<1>4. StreamTypes'
    BY <1>1, <1>2, <1>3, AddAppends DEF Types, StreamTypes, Publish
<1>5. TaskTypes'
    <2>1. \A t \in tasks : t.stream \in Streams /\ t.index \in 1..Len(log[t.stream])
        BY DEF Types, TaskTypes, Entries
    <2>2. \A t \in tasks : t.index \in 1..Len(log'[t.stream])
        BY <2>1, <1>3
    <2>3. QED
        BY <2>2 DEF Types, TaskTypes, Publish, Entries, owners
<1>6. QED
    BY <1>4, <1>5 DEF Types, OwnerTypes, CountTypes, Publish, owners, bounds

LEMMA OwnerStepTypes ==
    ASSUME Types, NEW c \in Cores, NEW a \in Agents, Claim(c, a) \/ Expire(a) \/ Lapse(a)
    PROVE  Types'
<1>1. OwnerTypes'
    BY DEF Types, OwnerTypes, Claim, Expire, Lapse
<1>2. CountTypes'
    BY BoundAssumption DEF Types, CountTypes, Claim, Expire, Lapse, bounds
<1>3. QED
    BY <1>1, <1>2 DEF Types, StreamTypes, TaskTypes, Claim, Expire, Lapse, streams, Entries

LEMMA RefreshTypes ==
    ASSUME Types, NEW c \in Cores, Refresh(c)
    PROVE  Types'
<1> DEFINE new == AgentStreams(c) \ subs[c]
<1>1. new \subseteq Agents /\ new \subseteq Streams
    BY DEF AgentStreams, Streams
<1>2. \A s \in Streams : Len(log[s]) \in Nat /\ group[s] \in -1..Len(log[s])
    BY DEF Types, StreamTypes
<1>3. \A s \in Streams : group'[s] \in group[s]..Len(log[s]) /\ group'[s] \in Int
    BY <1>2 DEF Refresh, GroupStart
<1>4. group' \in [Streams -> Int] /\ UNCHANGED <<log, pel>>
    BY <1>3 DEF Refresh
<1>5. \A e \in pel : e[2] \in 1..group'[e[1]]
    BY <1>2, <1>3, <1>4 DEF Types, StreamTypes
<1>6. \A e \in skipped : e \in Agents \X Nat /\ e[2] \in 1..group'[e[1]]
    BY <1>2, <1>3, <1>4 DEF Types, StreamTypes, Streams
<1>7. ASSUME NEW e \in UNION {{a} \X Entries(a) : a \in {b \in new : group[b] = -1}}
      PROVE  e \in Agents \X Nat /\ e[2] \in 1..group'[e[1]]
    <2>1. PICK a \in new : group[a] = -1 /\ e \in {a} \X Entries(a)
        BY <1>7
    <2>2. a \in Agents /\ a \in Streams /\ e[1] = a /\ e[2] \in 1..Len(log[a]) /\ e = <<a, e[2]>>
        BY <2>1, <1>1 DEF Entries
    <2>3. group'[a] = Len(log[a])
        BY <2>1, <2>2 DEF Refresh, GroupStart
    <2>4. QED
        BY <2>2, <2>3, <1>2
<1>8. \A e \in skipped' : e \in Agents \X Nat /\ e[2] \in 1..group'[e[1]]
    BY <1>6, <1>7 DEF Refresh
<1>9. StreamTypes'
    BY <1>2, <1>3, <1>4, <1>5, <1>8 DEF Types, StreamTypes
<1>10. OwnerTypes'
    BY <1>1 DEF Types, OwnerTypes, Refresh, AgentStreams
<1>11. QED
    BY <1>9, <1>10 DEF Types, TaskTypes, CountTypes, Refresh, Entries, bounds

LEMMA DeliverTypes ==
    ASSUME Types, NEW c \in Cores, NEW s \in Streams, Deliver(c, s)
    PROVE  Types'
<1>1. \A r \in Streams : Len(log[r]) \in Nat /\ group[r] \in -1..Len(log[r])
    BY DEF Types, StreamTypes
<1>2. /\ group[s] + 1 \in Entries(s) /\ group'[s] = group[s] + 1 /\ group' \in [Streams -> Int]
      /\ \A r \in Streams : group'[r] \in group[r]..Len(log[r])
    BY <1>1 DEF Deliver, Entries, Types, StreamTypes
<1>3. StreamTypes'
    <2>1. \A e \in pel \cup skipped : e[1] \in Streams /\ e[2] \in 1..group[e[1]]
        BY DEF Types, StreamTypes, Streams
    <2>2. \A e \in pel \cup skipped : e[2] \in 1..group'[e[1]]
        BY <2>1, <1>1, <1>2
    <2>3. <<s, group[s] + 1>> \in Streams \X Nat /\ group[s] + 1 \in 1..group'[s]
        BY <1>1, <1>2 DEF Entries
    <2>4. QED
        BY <2>2, <2>3, <1>1, <1>2 DEF Deliver, Types, StreamTypes
<1>4. TaskTypes'
    <2>1. 0 \in 0..MaxSlow
        BY BoundAssumption
    <2>2. QED
        BY <2>1, <1>2, NewTask DEF Deliver, Types, OwnerTypes, owners
<1>5. CountTypes'
    BY BoundAssumption DEF Deliver, CountStale, Types, CountTypes
<1>6. QED
    BY <1>3, <1>4, <1>5 DEF Types, OwnerTypes, Deliver, owners

LEMMA ReclaimTypes ==
    ASSUME Types, NEW c \in Cores, NEW e \in pel, Reclaim(c, e) \/ ReclaimSlow(c, e)
    PROVE  Types'
<1>1. e[1] \in Streams /\ e[2] \in Entries(e[1])
    BY DEF Types, StreamTypes, Entries
<1>2. PICK n \in 0..MaxSlow : tasks' = tasks \cup {Task(c, e[1], e[2], n, "queued")}
    BY BoundAssumption DEF Reclaim, ReclaimSlow, Types, CountTypes
<1>3. TaskTypes'
    BY <1>1, <1>2, NewTask DEF Reclaim, ReclaimSlow, Types, OwnerTypes, owners, streams
<1>4. CountTypes'
    BY BoundAssumption DEF Reclaim, ReclaimSlow, CountStale, Types, CountTypes
<1>5. QED
    BY <1>3, <1>4 DEF Types, OwnerTypes, StreamTypes, Reclaim, ReclaimSlow, owners, streams

LEMMA HandlerTypes ==
    ASSUME Types, NEW t \in tasks, HandlerStep(t)
    PROVE  Types'
<1> USE DEF HandlerStep
<1>1. UNCHANGED owners /\ UNCHANGED orphans /\ Message(t) \in Messages
    BY MessageOfTask DEF Permit, Lock, GiveUp, Route, Work, WorkFails, Reroute, Ack, AckFails, Types
<1>2. Ends(t) \/ \E at \in Stages : Moves(t, at)
    BY DEF Permit, Lock, GiveUp, Route, Work, WorkFails, Reroute, Ack, AckFails, Stages
<1>3. StreamTypes' /\ \A s \in Streams : Len(log'[s]) >= Len(log[s])
    <2>1. CASE UNCHANGED streams
        BY <2>1 DEF Types, StreamTypes, streams
    <2>2. CASE Ack(t)
        BY <2>2 DEF Types, StreamTypes, Ack
    <2>3. CASE Reroute(t) /\ Add(Message(t), AgentOf[Message(t)])
        <3> DEFINE a == AgentOf[Message(t)]
        <3>1. a \in Streams
            BY <1>1, StreamAssumption DEF Streams
        <3> HIDE DEF a, Streams
        <3>2. Add(Message(t), a)
            BY <2>3 DEF a
        <3>3. \A r \in Streams : /\ Len(log[r]) \in Nat /\ Len(log'[r]) \in Nat
                                   /\ Len(log[r]) <= Len(log'[r])
            BY <1>1, <3>1, <3>2, AddAppends DEF Types
        <3>4. log' \in [Streams -> Seq(Messages)]
            BY <1>1, <3>1, <3>2, AddAppends DEF Types
        <3>5. QED
            BY <2>3, <3>3, <3>4 DEF Types, StreamTypes, Reroute
    <2>4. QED
        BY <2>1, <2>2, <2>3
        DEF Permit, Lock, GiveUp, Route, Work, WorkFails, Reroute, AckFails, streams
<1>4. TaskTypes'
    BY <1>1, <1>2, <1>3, HandlersKeepTypes DEF Types, owners
<1>5. CountTypes'
    <2>1. \/ UNCHANGED bounds
          \/ Error \/ LostAdd \/ LostAck
        BY DEF Permit, Lock, GiveUp, Route, Work, WorkFails, Reroute, Ack, AckFails
    <2>2. processed' \in [Messages -> Nat]
        BY <1>1 DEF Types, CountTypes, Permit, Lock, GiveUp, Route, Work, WorkFails, Reroute,
           Ack, AckFails
    <2>3. QED
        BY <1>1, <2>1, <2>2, BoundAssumption
        DEF Types, CountTypes, bounds, Error, LostAdd, LostAck
<1>6. QED
    BY <1>1, <1>3, <1>4, <1>5 DEF Types, OwnerTypes, owners

LEMMA DownTypes ==
    ASSUME Types, NEW c \in Cores, Crash(c) \/ Stop(c)
    PROVE  Types'
<1>1. GoesDown(c)
    BY DEF Crash, Stop
<1>2. OwnerTypes' /\ StreamTypes'
    BY <1>1 DEF Types, OwnerTypes, StreamTypes, GoesDown, streams
<1>3. TaskTypes'
    BY <1>1 DEF Types, TaskTypes, GoesDown, Surviving, TasksOf, streams, Entries
<1>4. orphans' \subseteq Sessions
    <2>1. \A t \in tasks : Session(t) \in Sessions
        BY MessageOfTask DEF Types, Session, Sessions
    <2>2. QED
        BY <2>1 DEF Crash, Stop, TasksOf, Types, CountTypes
<1>5. CountTypes'
    BY <1>1, <1>4, BoundAssumption DEF Types, CountTypes, GoesDown
<1>6. QED
    BY <1>2, <1>3, <1>5 DEF Types

LEMMA StepTypes == Types /\ [Next]_vars => Types'
<1> SUFFICES ASSUME Types, [Next]_vars PROVE Types'
    OBVIOUS
<1>1. ASSUME UNCHANGED vars PROVE Types'
    BY <1>1 DEF vars, streams, owners, bounds, Types, StreamTypes, OwnerTypes, TaskTypes,
       CountTypes, Entries
<1>2. ASSUME NEW s \in Sessions, LockExpires(s) PROVE Types'
    BY <1>2 DEF LockExpires, streams, owners, bounds, Types, StreamTypes, OwnerTypes, TaskTypes,
       CountTypes, Entries
<1>3. ASSUME NEW c \in Cores,
             \/ ReadStep(c) \/ Refresh(c) \/ Crash(c) \/ Stop(c)
             \/ \E a \in Agents : Claim(c, a)
             \/ \E e \in pel : ReclaimSlow(c, e)
      PROVE  Types'
    BY <1>3, OwnerStepTypes, RefreshTypes, DeliverTypes, ReclaimTypes, DownTypes DEF ReadStep
<1>4. ASSUME NEW a \in Agents, Expire(a) \/ Lapse(a) PROVE Types'
    <2>1. PICK c \in Cores : TRUE
        BY <1>4 DEF Expire, Lapse, Types, OwnerTypes
    <2>2. QED
        BY <1>4, <2>1, OwnerStepTypes
<1>5. QED
    BY <1>1, <1>2, <1>3, <1>4, PublishTypes, HandlerTypes DEF Next

-----------------------------------------------------------------------------
(* An agent's stream has that agent's messages *)

\* A message is added to the channel's stream or to the stream of its agent.
LEMMA FilesByAgent ==
    ASSUME StreamTypes, Filed, NEW m \in Messages, NEW s \in {Channel, AgentOf[m]}, Add(m, s)
    PROVE  Filed'
<1> SUFFICES ASSUME NEW a \in Agents, NEW i \in Entries(a)' PROVE AgentOf[log'[a][i]] = a
    BY DEF Filed
<1>1. a \in Streams /\ s \in Streams
    BY StreamAssumption DEF Streams
<1>2. CASE i \in Entries(a)
    BY <1>1, <1>2, AddAppends DEF Filed
<1>3. CASE i \notin Entries(a)
    <2>1. a = s /\ i = Len(log[s]) + 1
        BY <1>1, <1>3, AddAppends DEF Entries
    <2>2. QED
        BY <1>1, <2>1, AddAppends, StreamAssumption
<1>4. QED
    BY <1>2, <1>3

LEMMA StepFiled == Types /\ Filed /\ [Next]_vars => Filed'
<1> SUFFICES ASSUME Types, Filed, [Next]_vars PROVE Filed'
    OBVIOUS
<1>1. CASE UNCHANGED log
    BY <1>1 DEF Filed, Entries
<1>2. ASSUME NEW m \in Messages, Publish(m) PROVE Filed'
    BY <1>2, FilesByAgent DEF Publish, Types
<1>3. ASSUME NEW t \in tasks, Reroute(t) PROVE Filed'
    BY <1>1, <1>3, FilesByAgent, MessageOfTask DEF Reroute, Types
<1>4. QED
    BY <1>1, <1>2, <1>3
    DEF Next, ReadStep, HandlerStep, vars, streams, owners, Claim, Expire, Lapse, Refresh, Deliver,
        Reclaim, ReclaimSlow, Permit, Lock, GiveUp, Route, Work, WorkFails, Ack, AckFails, GoesDown,
        Crash, Stop, LockExpires

-----------------------------------------------------------------------------
(* Messages at risk *)

\* A step puts no message outside X at risk if the entries of the others stay, and
\* stay open when they were; if a handler comes to acknowledge one of the others
\* unprocessed only when it is backed; and if a new message is recoverable.
LEMMA Frame ==
    ASSUME Types, Types', NEW X,
           \A s \in Streams : \A i \in Entries(s) :
              /\ i \in Entries(s)' /\ log'[s][i] = log[s][i]
              /\ Open(s, i) => Open(s, i)' \/ log[s][i] \in X,
           \A t \in tasks' : t.at = "acking" =>
              \/ t \in tasks \/ Backed(t)'
              \/ Message(t)' \in X \/ processed'[Message(t)'] # 0,
           \A m \in Messages : processed'[m] = 0 => processed[m] = 0,
           \A m \in Messages : Published(m)' => Published(m) \/ Recoverable(m)'
    PROVE  AtRisk' \subseteq AtRisk \cup X
<1> SUFFICES ASSUME NEW m \in AtRisk', m \notin X PROVE m \in AtRisk
    OBVIOUS
<1>1. m \in Messages /\ Published(m)' /\ processed'[m] = 0 /\ processed[m] = 0
    BY DEF AtRisk
<1>2. CASE ~Recoverable(m)'
    <2>1. Published(m)
        BY <1>1, <1>2
    <2>2. ASSUME NEW s \in Streams, NEW i \in Entries(s), log[s][i] = m, Open(s, i)
          PROVE  FALSE
        <3>1. i \in Entries(s)' /\ log'[s][i] = m /\ Open(s, i)'
            BY <2>2
        <3>2. QED
            BY <1>2, <3>1 DEF Recoverable, Open
    <2>3. ~Recoverable(m)
        BY <2>2 DEF Recoverable, Open
    <2>4. QED
        BY <1>1, <2>1, <2>3 DEF AtRisk
<1>3. ASSUME NEW t \in tasks', t.at = "acking", Message(t)' = m, ~Backed(t)'
      PROVE  m \in AtRisk
    <2>1. t \in tasks
        BY <1>1, <1>3
    <2>2. Message(t) = m /\ Published(m)
        BY <1>3, <2>1, MessageOfTask DEF Types, Message
    <2>3. ~Backed(t)
        BY <1>3, <2>2 DEF Backed
    <2>4. QED
        BY <1>1, <1>3, <2>1, <2>2, <2>3 DEF AtRisk
<1>4. QED
    BY <1>2, <1>3 DEF AtRisk

\* Steps that leave the streams alone and let no handler come to acknowledge an
\* unprocessed message.
LEMMA StreamsStay ==
    ASSUME Types, Types', UNCHANGED <<log, group, pel>>,
           \A t \in tasks' : t.at = "acking" => t \in tasks \/ processed'[Message(t)'] # 0,
           \A m \in Messages : processed'[m] = 0 => processed[m] = 0
    PROVE  AtRisk' \subseteq AtRisk
<1>1. \A s \in Streams : \A i \in Entries(s) :
         i \in Entries(s)' /\ log'[s][i] = log[s][i] /\ (Open(s, i) => Open(s, i)')
    BY DEF Entries, Open
<1>2. \A m \in Messages : Published(m)' => Published(m)
    BY DEF Published, Entries
<1>3. AtRisk' \subseteq AtRisk \cup {}
    BY <1>1, <1>2, Frame
<1>4. QED
    BY <1>3

\* The weights of FewAtRisk.
LEMMA NoMoreAtRisk ==
    ASSUME FewAtRisk, AtRisk' \subseteq AtRisk, UNCHANGED <<lostAdds, skipped>>, lostAdds \in Nat
    PROVE  FewAtRisk'
<1>1. IsFiniteSet(AtRisk') /\ Cardinality(AtRisk') <= Cardinality(AtRisk)
    BY FS_Subset DEF FewAtRisk
<1>2. Cardinality(AtRisk') \in Nat /\ Cardinality(AtRisk) \in Nat /\ Cardinality(skipped) \in Nat
    BY <1>1, FS_CardinalityType DEF FewAtRisk
<1>3. QED
    BY <1>1, <1>2 DEF FewAtRisk

LEMMA OneMoreAtRisk ==
    ASSUME FewAtRisk, NEW m, AtRisk' \subseteq AtRisk \cup {m}, UNCHANGED skipped,
           lostAdds' = lostAdds + 1, lostAdds \in Nat
    PROVE  FewAtRisk'
<1>1. /\ IsFiniteSet(AtRisk \cup {m})
      /\ Cardinality(AtRisk \cup {m}) <= Cardinality(AtRisk) + 1
    <2>1. IsFiniteSet(AtRisk) /\ Cardinality(AtRisk) \in Nat
        BY FS_CardinalityType DEF FewAtRisk
    <2> HIDE DEF AtRisk
    <2>2. QED
        BY <2>1, FS_AddElement
<1>2. IsFiniteSet(AtRisk') /\ Cardinality(AtRisk') <= Cardinality(AtRisk \cup {m})
    BY <1>1, FS_Subset
<1>3. /\ Cardinality(AtRisk') \in Nat /\ Cardinality(AtRisk) \in Nat
      /\ Cardinality(AtRisk \cup {m}) \in Nat /\ Cardinality(skipped) \in Nat
    BY <1>1, <1>2, FS_CardinalityType DEF FewAtRisk
<1>4. QED
    BY <1>1, <1>2, <1>3 DEF FewAtRisk

\* XADD keeps what there is, and the message it adds is recoverable.
LEMMA AddedIsOpen ==
    ASSUME StreamTypes, NEW m \in Messages, NEW s \in Streams, Add(m, s), UNCHANGED <<group, pel>>
    PROVE  /\ \A r \in Streams : \A i \in Entries(r) :
                i \in Entries(r)' /\ log'[r][i] = log[r][i] /\ (Open(r, i) => Open(r, i)')
           /\ \A i : i = Len(log[s]) + 1 =>
                i \in Entries(s)' /\ log'[s][i] = m /\ Open(s, i)'
           /\ \A n \in Messages : Published(n)' => Published(n) \/ Recoverable(n)'
<1>1. /\ Len(log'[s]) = Len(log[s]) + 1 /\ log'[s][Len(log[s]) + 1] = m
      /\ \A r \in Streams \ {s} : log'[r] = log[r]
      /\ \A i \in Entries(s) : log'[s][i] = log[s][i]
      /\ Len(log[s]) \in Nat /\ group[s] \in -1..Len(log[s])
    BY AddAppends DEF StreamTypes
<1>2. \A r \in Streams : \A i \in Entries(r) : i \in Entries(r)' /\ log'[r][i] = log[r][i]
    BY <1>1 DEF Entries
<1>3. \A r \in Streams : \A i \in Entries(r) : Open(r, i) => Open(r, i)'
    BY DEF Open
<1>4. ASSUME NEW i, i = Len(log[s]) + 1
      PROVE  i \in Entries(s)' /\ log'[s][i] = m /\ Open(s, i)'
    BY <1>1, <1>4 DEF Entries, Open
<1>5. Recoverable(m)'
    BY <1>4 DEF Recoverable, Open
<1>6. ASSUME NEW n \in Messages, Published(n)' PROVE Published(n) \/ Recoverable(n)'
    <2>0. PICK r \in Streams : \E i \in Entries(r)' : log'[r][i] = n
        BY <1>6 DEF Published
    <2>1. PICK i \in Entries(r)' : log'[r][i] = n
        BY <2>0
    <2>2. CASE i \in Entries(r)
        BY <1>2, <2>1, <2>2 DEF Published
    <2>3. CASE i \notin Entries(r)
        <3>1. r = s
            BY <1>1, <2>1, <2>3 DEF Entries
        <3>2. i = Len(log[s]) + 1
            BY <1>1, <2>1, <2>3, <3>1 DEF Entries
        <3>3. QED
            BY <1>1, <1>5, <2>1, <3>1, <3>2
    <2>4. QED
        BY <2>2, <2>3
<1>7. QED
    BY <1>1, <1>2, <1>3, <1>4, <1>6

LEMMA PublishAtRisk ==
    ASSUME Types, Types', FewAtRisk, NEW m \in Messages, Publish(m)
    PROVE  FewAtRisk'
<1>1. PICK s \in Streams : Add(m, s)
    BY StreamAssumption DEF Publish, Streams
<1>2. UNCHANGED <<group, pel, tasks, processed, lostAdds, skipped>> /\ lostAdds \in Nat
    BY BoundAssumption DEF Publish, bounds, Types, CountTypes
<1>3. AtRisk' \subseteq AtRisk \cup {}
    BY <1>1, <1>2, AddedIsOpen, Frame DEF Types
<1>4. QED
    BY <1>2, <1>3, NoMoreAtRisk

LEMMA DeliverAtRisk ==
    ASSUME Types, Types', FewAtRisk, NEW c \in Cores, NEW s \in Streams, Deliver(c, s)
    PROVE  FewAtRisk'
<1>1. UNCHANGED <<log, processed, lostAdds, skipped>> /\ lostAdds \in Nat
    BY BoundAssumption DEF Deliver, Types, CountTypes
<1>2. \A t \in tasks' : t.at = "acking" => t \in tasks
    BY DEF Deliver, Task
<1>3. ASSUME NEW r \in Streams, NEW i \in Entries(r), Open(r, i) PROVE Open(r, i)'
    <2>1. i \in Int /\ group[r] \in Int
        BY DEF Types, StreamTypes, Entries
    <2>2. r # s => group'[r] = group[r]
        BY DEF Deliver, Types, StreamTypes
    <2>3. group'[s] = group[s] + 1 /\ <<s, group[s] + 1>> \in pel' /\ pel \subseteq pel'
        BY DEF Deliver, Types, StreamTypes
    <2>4. CASE <<r, i>> \in pel
        BY <2>3, <2>4 DEF Open
    <2>5. CASE i > group[r] /\ r # s
        BY <2>2, <2>5 DEF Open
    <2>6. CASE i > group[r] /\ r = s
        BY <2>1, <2>3, <2>6 DEF Open
    <2>7. QED
        BY <1>3, <2>4, <2>5, <2>6 DEF Open
<1>4. \A r \in Streams : \A i \in Entries(r) : i \in Entries(r)' /\ log'[r][i] = log[r][i]
    BY <1>1 DEF Entries
<1>5. \A m \in Messages : Published(m)' => Published(m)
    BY <1>1 DEF Published, Entries
<1>6. AtRisk' \subseteq AtRisk \cup {}
    BY <1>1, <1>2, <1>3, <1>4, <1>5, Frame
<1>7. QED
    BY <1>1, <1>6, NoMoreAtRisk

\* The steps that leave the streams as they are.
LEMMA QuietAtRisk ==
    ASSUME Types, Types', FewAtRisk, UNCHANGED <<streams, lostAdds>>,
           \A t \in tasks' : t.at = "acking" => t \in tasks \/ processed'[Message(t)'] # 0,
           \A m \in Messages : processed'[m] = 0 => processed[m] = 0
    PROVE  FewAtRisk'
<1>1. UNCHANGED <<log, group, pel, skipped>> /\ lostAdds \in Nat
    BY BoundAssumption DEF streams, Types, CountTypes
<1>2. AtRisk' \subseteq AtRisk
    BY <1>1, StreamsStay
<1>3. QED
    BY <1>1, <1>2, NoMoreAtRisk

LEMMA TasksAtRisk ==
    ASSUME Types, Types', FewAtRisk, NEW c \in Cores,
           \/ \E e \in pel : Reclaim(c, e) \/ ReclaimSlow(c, e)
           \/ Crash(c) \/ Stop(c)
    PROVE  FewAtRisk'
<1>1. UNCHANGED <<streams, processed, lostAdds>>
    BY DEF Reclaim, ReclaimSlow, Crash, Stop, GoesDown
<1>2. \A t \in tasks' : t.at = "acking" => t \in tasks
    BY DEF Reclaim, ReclaimSlow, Crash, Stop, GoesDown, Task, Surviving
<1>3. QED
    BY <1>1, <1>2, QuietAtRisk

LEMMA OwnerStepAtRisk ==
    ASSUME Types, Types', FewAtRisk,
           \/ \E a \in Agents : (\E c \in Cores : Claim(c, a)) \/ Expire(a) \/ Lapse(a)
           \/ \E s \in Sessions : LockExpires(s)
    PROVE  FewAtRisk'
<1>1. UNCHANGED <<streams, processed, tasks, lostAdds>>
    BY DEF Claim, Expire, Lapse, LockExpires, bounds
<1>2. QED
    BY <1>1, QuietAtRisk

LEMMA WorkerAtRisk ==
    ASSUME Types, Types', FewAtRisk, NEW t \in tasks,
           \/ Permit(t) \/ Lock(t) \/ GiveUp(t) \/ Route(t) \/ WorkFails(t) \/ AckFails(t)
    PROVE  FewAtRisk'
<1>1. UNCHANGED <<streams, processed, lostAdds>>
    BY DEF Permit, Lock, GiveUp, Route, WorkFails, AckFails, Error, LostAck, bounds
<1>2. Ends(t) \/ \E at \in Stages \ {"acking"} : Moves(t, at)
    BY DEF Permit, Lock, GiveUp, Route, WorkFails, AckFails, Stages
<1>3. \A u \in tasks' : u.at = "acking" => u \in tasks
    <2>1. \A at \in Stages : [t EXCEPT !.at = at].at = at
        BY DEF Types, TaskTypes
    <2>2. QED
        BY <1>2, <2>1 DEF Ends, Moves
<1>4. QED
    BY <1>1, <1>3, QuietAtRisk

LEMMA WorkAtRisk ==
    ASSUME Types, Types', FewAtRisk, NEW t \in tasks, Work(t)
    PROVE  FewAtRisk'
<1> DEFINE new == [t EXCEPT !.at = "acking"]
<1>1. UNCHANGED <<streams, lostAdds, log>> /\ tasks' = (tasks \ {t}) \cup {new}
    BY DEF Work, Moves, bounds, streams
<1>2. new.stream = t.stream /\ new.index = t.index
    BY DEF Types, TaskTypes
<1>3. Message(new)' = Message(t) /\ Message(t) \in Messages
    BY <1>1, <1>2, MessageOfTask DEF Message, Types
<1>4. /\ processed'[Message(t)] = processed[Message(t)] + 1
      /\ \A m \in Messages : m # Message(t) => processed'[m] = processed[m]
      /\ \A m \in Messages : processed[m] \in Nat
    BY <1>3 DEF Work, Types, CountTypes
<1>5. \A u \in tasks' : u \in tasks \/ processed'[Message(u)'] # 0
    BY <1>1, <1>3, <1>4
<1>6. \A m \in Messages : processed'[m] = 0 => processed[m] = 0
    BY <1>3, <1>4
<1>7. QED
    BY <1>1, <1>5, <1>6, QuietAtRisk

\* A handler that rerouted is backed by the entry it added.
LEMMA AddBacks ==
    ASSUME Types, Types', NEW t \in tasks, NEW m \in Messages, m = Message(t),
           NEW a \in Agents, t.stream \in {Channel, a}, Add(m, a),
           UNCHANGED <<group, pel, processed>>,
           tasks' = (tasks \ {t}) \cup {[t EXCEPT !.at = "acking"]}
    PROVE  AtRisk' \subseteq AtRisk
<1>1. PICK new : new = [t EXCEPT !.at = "acking"]
    OBVIOUS
<1>2. PICK i : i = Len(log[a]) + 1
    OBVIOUS
<1>3. a \in Streams /\ a # Channel
    BY StreamAssumption DEF Streams
<1>4. \A r \in Streams : \A j \in Entries(r) :
          j \in Entries(r)' /\ log'[r][j] = log[r][j] /\ (Open(r, j) => Open(r, j)')
    BY <1>3, AddedIsOpen DEF Types
<1>5. i \in Entries(a)' /\ log'[a][i] = m /\ Open(a, i)'
    BY <1>2, <1>3, AddedIsOpen DEF Types
<1>6. \A n \in Messages : Published(n)' => Published(n) \/ Recoverable(n)'
    BY <1>3, AddedIsOpen DEF Types
<1>7. /\ t.stream \in Streams /\ t.index \in Entries(t.stream)
      /\ new.stream = t.stream /\ new.index = t.index
    BY <1>1, MessageOfTask DEF Types, TaskTypes
<1>8. Message(new)' = m
    BY <1>4, <1>7 DEF Message
<1>9. Later(new, a, i)
    <2>1. Len(log[a]) \in Nat /\ (t.stream = a => t.index \in 1..Len(log[a]))
        BY <1>3, <1>7 DEF Entries, Types, StreamTypes
    <2>2. QED
        BY <1>2, <1>3, <1>7, <2>1 DEF Later
<1>10. Backed(new)'
    BY <1>3, <1>5, <1>8, <1>9 DEF Backed, Later
<1>11. \A u \in tasks' : u \in tasks \/ Backed(u)'
    BY <1>1, <1>10
<1>12. AtRisk' \subseteq AtRisk \cup {}
    BY <1>4, <1>6, <1>11, Frame
<1>13. QED
    BY <1>12

\* Only an XADD that raises puts the message at risk, and lostAdds counts it.
LEMMA RerouteAtRisk ==
    ASSUME Types, Types', Filed, FewAtRisk, NEW t \in tasks, Reroute(t)
    PROVE  FewAtRisk'
<1>1. /\ UNCHANGED <<group, pel, skipped, processed>> /\ lostAdds \in Nat
      /\ tasks' = (tasks \ {t}) \cup {[t EXCEPT !.at = "acking"]}
    BY BoundAssumption DEF Reroute, Moves, Types, CountTypes
<1>2. t.stream \in Streams /\ t.index \in Entries(t.stream) /\ Message(t) \in Messages
    BY MessageOfTask DEF Types
<1>3. PICK m \in Messages : m = Message(t)
    BY <1>2
<1>4. CASE Add(Message(t), AgentOf[Message(t)]) /\ UNCHANGED bounds
  <2>1. PICK a \in Agents : a = AgentOf[m]
    BY StreamAssumption
  <2>2. t.stream \in {Channel, a}
    BY <1>2, <1>3, <2>1 DEF Streams, Filed, Message
  <2>3. Add(m, a)
    BY <1>3, <1>4, <2>1
  <2>4. AtRisk' \subseteq AtRisk
    BY <1>1, <1>3, <2>2, <2>3, AddBacks
  <2>5. QED
    BY <1>1, <1>4, <2>4, NoMoreAtRisk DEF bounds
<1>5. CASE UNCHANGED log /\ LostAdd
  <2>1. \A r \in Streams : \A j \in Entries(r) :
            j \in Entries(r)' /\ log'[r][j] = log[r][j] /\ (Open(r, j) => Open(r, j)')
    BY <1>1, <1>5 DEF Entries, Open
  <2>2. \A n \in Messages : Published(n)' => Published(n)
    BY <1>5 DEF Published, Entries
  <2>3. PICK new : new = [t EXCEPT !.at = "acking"]
    OBVIOUS
  <2>4. Message(new)' = m
    BY <1>3, <1>5, <2>3 DEF Message, Types, TaskTypes
  <2>5. \A u \in tasks' : u \in tasks \/ Message(u)' \in {m}
    BY <1>1, <2>3, <2>4
  <2>6. AtRisk' \subseteq AtRisk \cup {m}
    BY <1>1, <2>1, <2>2, <2>5, Frame
  <2>7. lostAdds' = lostAdds + 1
    BY <1>5 DEF LostAdd
  <2>8. QED
    BY <1>1, <2>6, <2>7, OneMoreAtRisk
<1>6. QED
    BY <1>4, <1>5 DEF Reroute

\* What backs the handler that acknowledges stays open, and backs every handler
\* that was backed by the acknowledged entry.
LEMMA AckAtRisk ==
    ASSUME Types, Types', FewAtRisk, NEW t \in tasks, Ack(t)
    PROVE  FewAtRisk'
<1>m. PICK m : m = Message(t)
    OBVIOUS
<1>1. /\ t.at = "acking" /\ pel' = pel \ {<<t.stream, t.index>>} /\ tasks' = tasks \ {t}
      /\ UNCHANGED <<log, group, skipped, processed, lostAdds>> /\ lostAdds \in Nat
    BY BoundAssumption DEF Ack, Ends, bounds, Types, CountTypes
<1>2. /\ t.stream \in Streams /\ t.index \in Entries(t.stream) /\ m \in Messages
    BY <1>m, MessageOfTask DEF Types
<1>3. ASSUME NEW r \in Streams, NEW j \in Entries(r), Open(r, j), <<r, j>> # <<t.stream, t.index>>
      PROVE  Open(r, j)'
    BY <1>1, <1>3 DEF Open
<1>4. \A r \in Streams : \A j \in Entries(r) :
         /\ j \in Entries(r)' /\ log'[r][j] = log[r][j]
         /\ Open(r, j) => Open(r, j)' \/ log[r][j] \in {m}
    BY <1>m, <1>1, <1>3 DEF Entries, Message
<1>5. \A n \in Messages : Published(n)' => Published(n)
    BY <1>1 DEF Published, Entries
<1>6. AtRisk' \subseteq AtRisk \cup {m}
    BY <1>1, <1>4, <1>5, Frame
<1>7. ASSUME m \in AtRisk', m \notin AtRisk PROVE FALSE
  <2>1. Published(m) /\ processed[m] = 0
    BY <1>1, <1>2, <1>5, <1>7 DEF AtRisk
  <2>2. \A u \in tasks : u.at = "acking" /\ Message(u) = m => Backed(u)
    BY <1>2, <1>7, <2>1 DEF AtRisk
  <2>3. Backed(t)
    BY <1>m, <1>1, <2>2
  <2>4. PICK s \in Streams : \E i \in Entries(s) :
           log[s][i] = m /\ Open(s, i) /\ Later(t, s, i)
    BY <1>m, <2>3 DEF Backed
  <2>5. PICK i \in Entries(s) : log[s][i] = m /\ Open(s, i) /\ Later(t, s, i)
    BY <2>4
  <2>6. i \in Int /\ t.index \in Int
    BY <1>2 DEF Entries, Types, StreamTypes
  <2>7. Open(s, i)' /\ i \in Entries(s)' /\ log'[s][i] = m
    BY <1>1, <1>3, <1>4, <2>5, <2>6 DEF Later
  <2>8. Recoverable(m)'
    BY <2>7 DEF Recoverable, Open
  <2>9. ASSUME NEW u \in tasks, u.at = "acking", Message(u) = m PROVE Backed(u)'
    <3>1. PICK r \in Streams : \E j \in Entries(r) :
             log[r][j] = m /\ Open(r, j) /\ Later(u, r, j)
        BY <2>2, <2>9 DEF Backed
    <3>2. PICK j \in Entries(r) : log[r][j] = m /\ Open(r, j) /\ Later(u, r, j)
        BY <3>1
    <3>3. Message(u)' = m
        BY <1>1, <2>9 DEF Message
    <3>4. CASE <<r, j>> # <<t.stream, t.index>>
        <4>1. Open(r, j)' /\ j \in Entries(r)' /\ log'[r][j] = Message(u)' /\ Later(u, r, j)'
            BY <1>3, <1>4, <3>2, <3>3, <3>4 DEF Later
        <4>2. QED
            BY <4>1 DEF Backed
    <3>5. CASE <<r, j>> = <<t.stream, t.index>>
        <4>1. r = t.stream /\ j = t.index
            BY <3>5
        <4>2. u.index \in Int
            BY DEF Types, TaskTypes
        <4>3. Later(u, s, i)
            BY <2>5, <2>6, <3>2, <4>1, <4>2 DEF Later
        <4>4. log'[s][i] = Message(u)' /\ Later(u, s, i)'
            BY <2>7, <3>3, <4>3 DEF Later
        <4>5. QED
            BY <2>7, <4>4 DEF Backed
    <3>6. QED
        BY <3>4, <3>5
  <2>10. \A u \in tasks' : u \in tasks /\ Message(u)' = Message(u)
    BY <1>1 DEF Message
  <2>11. \A u \in tasks' : u.at = "acking" /\ Message(u)' = m => Backed(u)'
    BY <2>9, <2>10
  <2>12. QED
    BY <1>7, <2>8, <2>11 DEF AtRisk
<1>8. AtRisk' \subseteq AtRisk
    BY <1>6, <1>7
<1>9. QED
    BY <1>1, <1>8, NoMoreAtRisk

\* The entries of finitely many streams, or of some of them, are finitely many.
LEMMA EntriesFinite ==
    ASSUME StreamTypes, NEW A \in SUBSET Agents
    PROVE  IsFiniteSet(UNION {{a} \X Entries(a) : a \in A})
<1> DEFINE E == {{a} \X Entries(a) : a \in A}
           F == [a \in A |-> {a} \X Entries(a)]
<1>1. IsFiniteSet(A)
    BY FiniteAssumption, FS_Subset
<1>2. F \in Surjection(A, E)
    <2>1. F \in [A -> E] /\ \A e \in E : \E a \in A : F[a] = e
        OBVIOUS
    <2>2. QED
        BY <2>1 DEF Surjection
<1>3. IsFiniteSet(E)
    BY <1>1, <1>2, FS_Surjection
<1>4. ASSUME NEW a \in A PROVE IsFiniteSet({a} \X Entries(a))
    <2>1. Len(log[a]) \in Int /\ 1 \in Int
        BY DEF StreamTypes, Streams
    <2>2. IsFiniteSet(Entries(a)) /\ IsFiniteSet({a})
        BY <2>1, FS_Interval, FS_Singleton DEF Entries
    <2>3. QED
        BY <2>2, FS_Product
<1>5. QED
    BY <1>3, <1>4, FS_UNION

\* Behind a new group stand entries that were recoverable; each is counted once.
LEMMA RefreshAtRisk ==
    ASSUME Types, Types', FewAtRisk, NEW c \in Cores, Refresh(c)
    PROVE  FewAtRisk'
<1> DEFINE T == {a \in AgentStreams(c) \ subs[c] : group[a] = -1}
<1>1. UNCHANGED <<log, pel, tasks, processed, lostAdds>> /\ lostAdds \in Nat
    BY BoundAssumption DEF Refresh, bounds, Types, CountTypes
<1>2. T \in SUBSET Agents
    BY DEF AgentStreams
<1>3. PICK A \in SUBSET Agents :
         /\ A = T /\ \A a \in A : group[a] = -1
         /\ \A s \in Streams : group'[s] # group[s] => s \in A
    BY <1>2 DEF Refresh, GroupStart
<1>4. PICK new : new = UNION {{a} \X Entries(a) : a \in A}
    OBVIOUS
<1>5. IsFiniteSet(new)
    BY <1>4, EntriesFinite DEF Types
<1>6. skipped' = skipped \cup new
    BY <1>3, <1>4 DEF Refresh
<1>7. skipped \cap new = {}
    <2>1. \A e \in new : e[1] \in Agents /\ group[e[1]] = -1
        BY <1>3, <1>4
    <2>2. \A e \in skipped : e[2] \in 1..group[e[1]]
        BY DEF Types, StreamTypes
    <2>3. QED
        BY <2>1, <2>2
<1>8. IsFiniteSet(skipped') /\ Cardinality(skipped') = Cardinality(skipped) + Cardinality(new)
    <2>1. IsFiniteSet(skipped) /\ Cardinality(skipped) \in Nat /\ Cardinality(new) \in Nat
        BY <1>5, FS_CardinalityType DEF FewAtRisk
    <2>2. Cardinality(skipped \cap new) = 0
        BY <1>7, FS_EmptySet
    <2>3. /\ IsFiniteSet(skipped \cup new)
          /\ Cardinality(skipped \cup new)
                = Cardinality(skipped) + Cardinality(new) - Cardinality(skipped \cap new)
        BY <1>5, <2>1, FS_Union
    <2>4. Cardinality(skipped \cup new) = Cardinality(skipped) + Cardinality(new)
        BY <2>1, <2>2, <2>3
    <2>5. QED
        BY <1>6, <2>3, <2>4
<1>9. PICK f : f = [e \in new |-> log[e[1]][e[2]]]
    OBVIOUS
<1>10. PICK X : X = {f[e] : e \in new}
    OBVIOUS
<1>11. IsFiniteSet(X) /\ Cardinality(X) <= Cardinality(new)
    <2>1. f \in [new -> X] /\ \A x \in X : \E e \in new : f[e] = x
        BY <1>9, <1>10
    <2>2. f \in Surjection(new, X)
        BY <2>1 DEF Surjection
    <2>3. QED
        BY <1>5, <2>2, FS_Surjection
<1>12. ASSUME NEW s \in Streams, NEW i \in Entries(s), Open(s, i)
       PROVE  Open(s, i)' \/ log[s][i] \in X
    <2>1. CASE s \in A
        <3>1. <<s, i>> \in new
            BY <1>4, <2>1
        <3>2. f[<<s, i>>] = log[s][i]
            BY <1>9, <3>1
        <3>3. QED
            BY <1>10, <3>1, <3>2
    <2>2. CASE s \notin A
        BY <1>1, <1>3, <1>12, <2>2 DEF Open
    <2>3. QED
        BY <2>1, <2>2
<1>13. \A s \in Streams : \A i \in Entries(s) : i \in Entries(s)' /\ log'[s][i] = log[s][i]
    BY <1>1 DEF Entries
<1>14. \A m \in Messages : Published(m)' => Published(m)
    BY <1>1 DEF Published, Entries
<1>15. AtRisk' \subseteq AtRisk \cup X
    BY <1>1, <1>12, <1>13, <1>14, Frame
<1>16. /\ IsFiniteSet(AtRisk') /\ Cardinality(AtRisk') <= Cardinality(AtRisk \cup X)
       /\ Cardinality(AtRisk \cup X) <= Cardinality(AtRisk) + Cardinality(X)
    <2>1. IsFiniteSet(AtRisk) /\ IsFiniteSet(AtRisk \cup X) /\ IsFiniteSet(AtRisk \cap X)
        BY <1>11, FS_Union, FS_Intersection DEF FewAtRisk
    <2>2. /\ Cardinality(AtRisk \cap X) \in Nat /\ Cardinality(AtRisk) \in Nat
          /\ Cardinality(X) \in Nat
        BY <1>11, <2>1, FS_CardinalityType
    <2>3. Cardinality(AtRisk \cup X) <= Cardinality(AtRisk) + Cardinality(X)
        BY <1>11, <2>1, <2>2, FS_Union
    <2>4. QED
        BY <1>15, <2>1, <2>3, FS_Subset
<1>17. /\ Cardinality(AtRisk') \in Nat /\ Cardinality(AtRisk) \in Nat
       /\ Cardinality(AtRisk \cup X) \in Nat /\ Cardinality(X) \in Nat
       /\ Cardinality(new) \in Nat /\ Cardinality(skipped) \in Nat
    BY <1>5, <1>11, <1>16, FS_CardinalityType, FS_Union DEF FewAtRisk
<1>18. QED
    BY <1>1, <1>8, <1>11, <1>16, <1>17 DEF FewAtRisk

-----------------------------------------------------------------------------
(* The theorems *)

LEMMA InitIInv == Init => IInv
<1> SUFFICES ASSUME Init PROVE IInv
    OBVIOUS
<1>1. AtRisk = {}
    BY DEF AtRisk, Published, Entries, Init
<1>2. skipped = {} /\ lostAdds = 0
    BY DEF Init
<1>3. FewAtRisk
    BY <1>1, <1>2, FS_EmptySet DEF FewAtRisk
<1>4. QED
    BY <1>3, InitTypes DEF IInv

LEMMA StepIInv == IInv /\ [Next]_vars => IInv'
<1> SUFFICES ASSUME IInv, [Next]_vars PROVE IInv'
    OBVIOUS
<1>1. Types /\ Types' /\ Filed /\ Filed' /\ FewAtRisk
    BY StepTypes, StepFiled DEF IInv
<1>2. CASE UNCHANGED vars
    <2>1. UNCHANGED <<streams, lostAdds, tasks, processed>>
        BY <1>2 DEF vars, bounds
    <2>2. FewAtRisk'
        BY <1>1, <2>1, QuietAtRisk
    <2>3. QED
        BY <1>1, <2>2 DEF IInv
<1>3. ASSUME NEW c \in Cores,
             \/ ReadStep(c) \/ Refresh(c) \/ Crash(c) \/ Stop(c)
             \/ \E a \in Agents : Claim(c, a)
             \/ \E e \in pel : ReclaimSlow(c, e)
      PROVE  FewAtRisk'
    <2>1. CASE \E s \in Streams : Deliver(c, s)
        BY <1>1, <2>1, DeliverAtRisk
    <2>2. CASE Refresh(c)
        BY <1>1, <2>2, RefreshAtRisk
    <2>3. CASE \E a \in Agents : Claim(c, a)
        BY <1>1, <2>3, OwnerStepAtRisk
    <2>4. CASE \/ \E e \in pel : Reclaim(c, e) \/ ReclaimSlow(c, e)
               \/ Crash(c) \/ Stop(c)
        BY <1>1, <2>4, TasksAtRisk
    <2>5. QED
        BY <1>3, <2>1, <2>2, <2>3, <2>4 DEF ReadStep
<1>4. ASSUME NEW t \in tasks, HandlerStep(t) PROVE FewAtRisk'
    BY <1>1, <1>4, WorkerAtRisk, WorkAtRisk, RerouteAtRisk, AckAtRisk DEF HandlerStep
<1>5. ASSUME \/ \E a \in Agents : Expire(a) \/ Lapse(a)
             \/ \E s \in Sessions : LockExpires(s)
      PROVE  FewAtRisk'
    BY <1>1, <1>5, OwnerStepAtRisk
<1>6. ASSUME NEW m \in Messages, Publish(m) PROVE FewAtRisk'
    BY <1>1, <1>6, PublishAtRisk
<1>7. CASE Next
    <2>1. FewAtRisk'
        BY <1>3, <1>4, <1>5, <1>6, <1>7 DEF Next
    <2>2. QED
        BY <1>1, <2>1 DEF IInv
<1>8. QED
    BY <1>2, <1>7

THEOREM Invariance == Spec => []IInv
BY InitIInv, StepIInv, PTL DEF Spec

\* Every variable keeps its type.
THEOREM TypeCorrect == Spec => []TypeOK
<1>1. IInv => TypeOK
    <2> SUFFICES ASSUME Types PROVE TypeOK
        BY DEF IInv
    <2>1. \A e \in pel : e[1] \in Streams
        BY DEF Types, StreamTypes
    <2>2. \A e \in skipped : e[1] \in Agents
        BY DEF Types, StreamTypes
    <2>3. QED
        BY <2>1, <2>2 DEF TypeOK, Types, StreamTypes, OwnerTypes, TaskTypes, CountTypes
<1>2. QED
    BY Invariance, <1>1, PTL

\* No message is lost without a cause (at-least-once delivery of InboundStreamWorker):
\* each lost message is paid for by an XADD of a reroute that raised or by an entry
\* behind which a group was created, for any number of crashes, changes of owner,
\* slow handlers, failed commands and lost acknowledgements.
THEOREM LossesAreCaused == Spec => []LossesHaveCauses
<1>1. IInv => LossesHaveCauses
    <2> SUFFICES ASSUME IInv PROVE LossesHaveCauses
        OBVIOUS
    <2>1. Lost \subseteq AtRisk
        BY DEF Lost, AtRisk
    <2>2. IsFiniteSet(Lost) /\ Cardinality(Lost) <= Cardinality(AtRisk)
        BY <2>1, FS_Subset DEF IInv, FewAtRisk
    <2>3. /\ Cardinality(Lost) \in Nat /\ Cardinality(AtRisk) \in Nat
          /\ Cardinality(skipped) \in Nat /\ lostAdds \in Nat
        BY <2>2, FS_CardinalityType, BoundAssumption DEF IInv, FewAtRisk, Types, CountTypes
    <2>4. QED
        BY <2>2, <2>3 DEF IInv, FewAtRisk, LossesHaveCauses
<1>2. QED
    BY Invariance, <1>1, PTL

\* In particular nothing is lost while no XADD of a reroute fails and no group is
\* created behind an entry.
COROLLARY NothingLostWithoutCause == Spec => [](lostAdds = 0 /\ skipped = {} => NothingLost)
<1>1. IInv => (lostAdds = 0 /\ skipped = {} => NothingLost)
    <2> SUFFICES ASSUME IInv, lostAdds = 0, skipped = {} PROVE Lost = {}
        BY DEF NothingLost
    <2>1. Cardinality(skipped) = 0 /\ IsFiniteSet(AtRisk) /\ Cardinality(AtRisk) <= 0
        BY FS_EmptySet DEF IInv, FewAtRisk
    <2>2. AtRisk = {}
        BY <2>1, FS_EmptySet, FS_CardinalityType
    <2>3. QED
        BY <2>2 DEF Lost, AtRisk
<1>2. QED
    BY Invariance, <1>1, PTL

-----------------------------------------------------------------------------
(***************************************************************************)
(* DuplicatesHaveCauses.                                                   *)
(*                                                                         *)
(* What may still process a message is a handler that has not done so, or  *)
(* an open entry that nobody handles.  Few(m) bounds the processings that  *)
(* were and those that may come: handing an entry out trades an entry for  *)
(* a handler, a reroute or a handler that gives up trades it back, and a   *)
(* processing uses one up.  A core that goes down turns handlers into      *)
(* entries, and gives one more: the entry of the handler that had          *)
(* processed and was about to acknowledge.  That it is only one is due to  *)
(* the session lock.                                                       *)
(***************************************************************************)

Handling(m) == {t \in tasks : Message(t) = m /\ t.at # "acking"}
Waiting(m) ==
    {e \in Streams \X Nat :
        /\ e[2] \in Entries(e[1]) /\ log[e[1]][e[2]] = m
        /\ Open(e[1], e[2]) /\ Handlers(e[1], e[2]) = {}}

Causes == 1 + downs + lostAcks + slow

Few(m) ==
    /\ IsFiniteSet(Handling(m)) /\ IsFiniteSet(Waiting(m))
    /\ processed[m] + Cardinality(Handling(m)) + Cardinality(Waiting(m)) <= Causes

\* One handler at a time has the lock of a session.
LockExclusive ==
    \A t, u \in tasks : t.at \in Locked /\ u.at \in Locked /\ Session(t) = Session(u) => t = u

\* Only what was delivered is handled, and what was published processed.
Delivered == \A t \in tasks : t.index <= group[t.stream]
ProcessedWasPublished == \A m \in Messages : processed[m] # 0 => Published(m)

Order == LockExclusive /\ Delivered /\ ProcessedWasPublished
DInv == Types /\ Order /\ \A m \in Messages : Few(m)

-----------------------------------------------------------------------------
(* Counting *)

LEMMA FewerElements ==
    ASSUME NEW S, IsFiniteSet(S), NEW T, T \subseteq S
    PROVE  /\ IsFiniteSet(T) /\ Cardinality(S) \in Nat /\ Cardinality(T) \in Nat
           /\ Cardinality(T) <= Cardinality(S)
<1>1. IsFiniteSet(T) /\ Cardinality(T) <= Cardinality(S)
    BY FS_Subset
<1>2. QED
    BY <1>1, FS_CardinalityType

LEMMA OneMore ==
    ASSUME NEW S, IsFiniteSet(S), NEW x, NEW T, T \subseteq S \cup {x}
    PROVE  /\ IsFiniteSet(T) /\ Cardinality(S) \in Nat /\ Cardinality(T) \in Nat
           /\ Cardinality(T) <= Cardinality(S) + 1
<1>1. /\ IsFiniteSet(S \cup {x}) /\ Cardinality(S) \in Nat
      /\ Cardinality(S \cup {x}) = IF x \in S THEN Cardinality(S) ELSE Cardinality(S) + 1
    BY FS_AddElement, FS_CardinalityType
<1>2. /\ IsFiniteSet(T) /\ Cardinality(T) \in Nat
      /\ Cardinality(T) <= Cardinality(S \cup {x})
    BY <1>1, FewerElements
<1>3. QED
    BY <1>1, <1>2

LEMMA OneLess ==
    ASSUME NEW S, IsFiniteSet(S), NEW x \in S, NEW T, T \subseteq S \ {x}
    PROVE  /\ IsFiniteSet(T) /\ Cardinality(S) \in Nat /\ Cardinality(T) \in Nat
           /\ Cardinality(T) <= Cardinality(S) - 1
<1>1. /\ IsFiniteSet(S \ {x}) /\ Cardinality(S) \in Nat
      /\ Cardinality(S \ {x}) = Cardinality(S) - 1
    BY FS_RemoveElement, FS_CardinalityType
<1>2. /\ IsFiniteSet(T) /\ Cardinality(T) \in Nat
      /\ Cardinality(T) <= Cardinality(S \ {x})
    BY <1>1, FewerElements
<1>3. QED
    BY <1>1, <1>2

LEMMA OneSwapped ==
    ASSUME NEW S, IsFiniteSet(S), NEW x \in S, NEW y, NEW T, T \subseteq (S \ {x}) \cup {y}
    PROVE  /\ IsFiniteSet(T) /\ Cardinality(S) \in Nat /\ Cardinality(T) \in Nat
           /\ Cardinality(T) <= Cardinality(S)
<1>1. /\ IsFiniteSet(S \ {x}) /\ Cardinality(S) \in Nat /\ Cardinality(S \ {x}) \in Nat
      /\ Cardinality(S \ {x}) <= Cardinality(S) - 1
    BY OneLess
<1>2. /\ IsFiniteSet(T) /\ Cardinality(T) \in Nat
      /\ Cardinality(T) <= Cardinality(S \ {x}) + 1
    BY <1>1, OneMore
<1>3. QED
    BY <1>1, <1>2

\* The trades of the steps: what becomes of Few(m) when the handlers H and the
\* entries W become H2 and W2, after p processings and with r causes.
Bounded(H, W, p, r) ==
    /\ IsFiniteSet(H) /\ IsFiniteSet(W)
    /\ p + Cardinality(H) + Cardinality(W) <= r

Trade(H, W, p, r, H2, W2, p2, r2) ==
    \/ H2 \subseteq H /\ W2 \subseteq W /\ p2 <= p /\ r2 >= r
    \/ \E e \in W : \E x : H2 \subseteq H \cup {x} /\ W2 \subseteq W \ {e} /\ p2 = p /\ r2 = r
    \/ \E x \in H : \E y : H2 \subseteq (H \ {x}) \cup {y} /\ W2 \subseteq W /\ p2 = p /\ r2 >= r
    \/ \E x \in H : \E e : H2 \subseteq H \ {x} /\ W2 \subseteq W \cup {e} /\ p2 = p /\ r2 >= r
    \/ \E x \in H : H2 \subseteq H \ {x} /\ W2 \subseteq W /\ p2 = p + 1 /\ r2 = r
    \/ \E x : H2 \subseteq H \cup {x} /\ W2 \subseteq W /\ p2 = p /\ r2 = r + 1
    \/ \E e : H2 \subseteq H /\ W2 \subseteq W \cup {e} /\ p2 = p /\ r2 = r + 1

LEMMA Trades ==
    ASSUME NEW H, NEW W, NEW p \in Nat, NEW r \in Nat, Bounded(H, W, p, r),
           NEW H2, NEW W2, NEW p2 \in Nat, NEW r2 \in Nat,
           Trade(H, W, p, r, H2, W2, p2, r2)
    PROVE  Bounded(H2, W2, p2, r2)
<1> USE DEF Bounded
<1>1. CASE H2 \subseteq H /\ W2 \subseteq W /\ p2 <= p /\ r2 >= r
    <2>1. /\ IsFiniteSet(H2) /\ Cardinality(H) \in Nat /\ Cardinality(H2) \in Nat
          /\ Cardinality(H2) <= Cardinality(H)
        BY <1>1, FewerElements
    <2>2. /\ IsFiniteSet(W2) /\ Cardinality(W) \in Nat /\ Cardinality(W2) \in Nat
          /\ Cardinality(W2) <= Cardinality(W)
        BY <1>1, FewerElements
    <2>3. QED
        BY <1>1, <2>1, <2>2
<1>2. ASSUME NEW e \in W, NEW x, H2 \subseteq H \cup {x}, W2 \subseteq W \ {e}, p2 = p, r2 = r
      PROVE  Bounded(H2, W2, p2, r2)
    <2>1. /\ IsFiniteSet(H2) /\ Cardinality(H) \in Nat /\ Cardinality(H2) \in Nat
          /\ Cardinality(H2) <= Cardinality(H) + 1
        BY <1>2, OneMore
    <2>2. /\ IsFiniteSet(W2) /\ Cardinality(W) \in Nat /\ Cardinality(W2) \in Nat
          /\ Cardinality(W2) <= Cardinality(W) - 1
        BY <1>2, OneLess
    <2>3. QED
        BY <1>2, <2>1, <2>2
<1>3. ASSUME NEW x \in H, NEW y, H2 \subseteq (H \ {x}) \cup {y}, W2 \subseteq W, p2 = p, r2 >= r
      PROVE  Bounded(H2, W2, p2, r2)
    <2>1. /\ IsFiniteSet(H2) /\ Cardinality(H) \in Nat /\ Cardinality(H2) \in Nat
          /\ Cardinality(H2) <= Cardinality(H)
        BY <1>3, OneSwapped
    <2>2. /\ IsFiniteSet(W2) /\ Cardinality(W) \in Nat /\ Cardinality(W2) \in Nat
          /\ Cardinality(W2) <= Cardinality(W)
        BY <1>3, FewerElements
    <2>3. QED
        BY <1>3, <2>1, <2>2
<1>4. ASSUME NEW x \in H, NEW e, H2 \subseteq H \ {x}, W2 \subseteq W \cup {e}, p2 = p, r2 >= r
      PROVE  Bounded(H2, W2, p2, r2)
    <2>1. /\ IsFiniteSet(H2) /\ Cardinality(H) \in Nat /\ Cardinality(H2) \in Nat
          /\ Cardinality(H2) <= Cardinality(H) - 1
        BY <1>4, OneLess
    <2>2. /\ IsFiniteSet(W2) /\ Cardinality(W) \in Nat /\ Cardinality(W2) \in Nat
          /\ Cardinality(W2) <= Cardinality(W) + 1
        BY <1>4, OneMore
    <2>3. QED
        BY <1>4, <2>1, <2>2
<1>5. ASSUME NEW x \in H, H2 \subseteq H \ {x}, W2 \subseteq W, p2 = p + 1, r2 = r
      PROVE  Bounded(H2, W2, p2, r2)
    <2>1. /\ IsFiniteSet(H2) /\ Cardinality(H) \in Nat /\ Cardinality(H2) \in Nat
          /\ Cardinality(H2) <= Cardinality(H) - 1
        BY <1>5, OneLess
    <2>2. /\ IsFiniteSet(W2) /\ Cardinality(W) \in Nat /\ Cardinality(W2) \in Nat
          /\ Cardinality(W2) <= Cardinality(W)
        BY <1>5, FewerElements
    <2>3. QED
        BY <1>5, <2>1, <2>2
<1>6. ASSUME NEW x, H2 \subseteq H \cup {x}, W2 \subseteq W, p2 = p, r2 = r + 1
      PROVE  Bounded(H2, W2, p2, r2)
    <2>1. /\ IsFiniteSet(H2) /\ Cardinality(H) \in Nat /\ Cardinality(H2) \in Nat
          /\ Cardinality(H2) <= Cardinality(H) + 1
        BY <1>6, OneMore
    <2>2. /\ IsFiniteSet(W2) /\ Cardinality(W) \in Nat /\ Cardinality(W2) \in Nat
          /\ Cardinality(W2) <= Cardinality(W)
        BY <1>6, FewerElements
    <2>3. QED
        BY <1>6, <2>1, <2>2
<1>7. ASSUME NEW e, H2 \subseteq H, W2 \subseteq W \cup {e}, p2 = p, r2 = r + 1
      PROVE  Bounded(H2, W2, p2, r2)
    <2>1. /\ IsFiniteSet(H2) /\ Cardinality(H) \in Nat /\ Cardinality(H2) \in Nat
          /\ Cardinality(H2) <= Cardinality(H)
        BY <1>7, FewerElements
    <2>2. /\ IsFiniteSet(W2) /\ Cardinality(W) \in Nat /\ Cardinality(W2) \in Nat
          /\ Cardinality(W2) <= Cardinality(W) + 1
        BY <1>7, OneMore
    <2>3. QED
        BY <1>7, <2>1, <2>2
<1>8. QED
    BY <1>1, <1>2, <1>3, <1>4, <1>5, <1>6, <1>7 DEF Trade

TradeOf(m) == Trade(Handling(m), Waiting(m), processed[m], Causes,
                    Handling(m)', Waiting(m)', processed'[m], Causes')

LEMMA FewAfter ==
    ASSUME Types, Types', NEW m \in Messages, Few(m), TradeOf(m)
    PROVE  Few(m)'
<1>1. /\ processed[m] \in Nat /\ processed'[m] \in Nat
      /\ Causes \in Nat /\ Causes' \in Nat
    BY BoundAssumption DEF Types, CountTypes, Causes
<1>2. Bounded(Handling(m), Waiting(m), processed[m], Causes)
    BY DEF Few, Bounded
<1>3. Bounded(Handling(m)', Waiting(m)', processed'[m], Causes')
    BY <1>1, <1>2, Trades DEF TradeOf
<1>4. QED
    BY <1>3 DEF Few, Bounded

-----------------------------------------------------------------------------
(* Frames *)

\* What a step adds to the entries that wait: those of X, which it adds, opens or
\* leaves without a handler.
LEMMA WaitingFrame ==
    ASSUME NEW m, NEW X,
           \A s \in Streams : \A i \in Entries(s)' :
              \/ <<s, i>> \in X
              \/ i \in Entries(s) /\ log'[s][i] = log[s][i] /\ (Open(s, i)' => Open(s, i)),
           \A u \in tasks :
              \/ <<u.stream, u.index>> \in X
              \/ \E v \in tasks' : v.stream = u.stream /\ v.index = u.index,
           NEW e \in Waiting(m)'
    PROVE  e \in Waiting(m) \/ (e \in X /\ log'[e[1]][e[2]] = m)
<1> SUFFICES ASSUME e \notin X PROVE e \in Waiting(m)
    BY DEF Waiting
<1>1. /\ e \in Streams \X Nat /\ e[2] \in Entries(e[1])' /\ log'[e[1]][e[2]] = m
      /\ Open(e[1], e[2])' /\ Handlers(e[1], e[2])' = {} /\ e = <<e[1], e[2]>>
    BY DEF Waiting
<1>2. e[2] \in Entries(e[1]) /\ log[e[1]][e[2]] = m /\ Open(e[1], e[2])
    BY <1>1
<1>3. Handlers(e[1], e[2]) = {}
    <2>1. SUFFICES ASSUME NEW u \in tasks, u.stream = e[1], u.index = e[2] PROVE FALSE
        BY DEF Handlers
    <2>2. \E v \in tasks' : v.stream = e[1] /\ v.index = e[2]
        BY <1>1, <2>1
    <2>3. QED
        BY <1>1, <2>2 DEF Handlers
<1>4. QED
    BY <1>1, <1>2, <1>3 DEF Waiting

\* While the streams stay, entries wait as before, but for those of X.
LEMMA QuietWaiting ==
    ASSUME UNCHANGED <<log, group, pel>>, NEW m, NEW X,
           \A u \in tasks :
              \/ <<u.stream, u.index>> \in X
              \/ \E v \in tasks' : v.stream = u.stream /\ v.index = u.index,
           NEW e \in Waiting(m)'
    PROVE  e \in Waiting(m) \/ (e \in X /\ log[e[1]][e[2]] = m)
<1>1. \A s \in Streams : \A i \in Entries(s)' :
         i \in Entries(s) /\ log'[s][i] = log[s][i] /\ (Open(s, i)' => Open(s, i))
    BY DEF Entries, Open
<1>2. e \in Waiting(m) \/ (e \in X /\ log'[e[1]][e[2]] = m)
    BY <1>1, WaitingFrame
<1>3. QED
    BY <1>2

\* A handler keeps its message.
LEMMA SameMessages ==
    ASSUME Types, \A s \in Streams : \A i \in Entries(s) : log'[s][i] = log[s][i]
    PROVE  \A u \in tasks : Message(u)' = Message(u)
BY MessageOfTask DEF Types, Message

-----------------------------------------------------------------------------
(* The lock and the order of a message's life *)

LEMMA SameOrder ==
    ASSUME Types, Order, tasks' \subseteq tasks, UNCHANGED <<group, processed>>,
           \A s \in Streams : \A i \in Entries(s) : i \in Entries(s)' /\ log'[s][i] = log[s][i]
    PROVE  Order'
<1>1. \A u \in tasks : Message(u)' = Message(u) /\ Session(u)' = Session(u)
    BY SameMessages DEF Session
<1>2. LockExclusive'
    BY <1>1 DEF Order, LockExclusive
<1>3. \A m \in Messages : Published(m) => Published(m)'
    BY DEF Published
<1>4. QED
    BY <1>2, <1>3 DEF Order, Delivered, ProcessedWasPublished

\* A task handed out waits for the semaphore first.
LEMMA NewTaskOrder ==
    ASSUME Types, Order, UNCHANGED <<log, processed>>,
           NEW t, tasks' = tasks \cup {t}, t.at = "queued", t.index <= group'[t.stream],
           \A u \in tasks : group[u.stream] <= group'[u.stream],
           \A u \in tasks : group'[u.stream] \in Int
    PROVE  Order'
<1>1. \A u \in tasks : Message(u)' = Message(u) /\ Session(u)' = Session(u)
    BY DEF Session, Message
<1>2. LockExclusive'
    BY <1>1 DEF Order, LockExclusive, Locked
<1>3. Delivered'
    <2>1. \A u \in tasks : u.index \in Int /\ group[u.stream] \in Int
        BY DEF Types, TaskTypes, StreamTypes
    <2>2. QED
        BY <2>1 DEF Order, Delivered
<1>4. QED
    BY <1>2, <1>3 DEF Order, ProcessedWasPublished, Published, Entries

\* A handler that goes on: it has the lock before, or gets it while nobody has it.
LEMMA HandlerOrder ==
    ASSUME Types, Order, NEW t \in tasks, NEW at \in Stages, Moves(t, at), UNCHANGED group,
           \A s \in Streams : \A i \in Entries(s) : i \in Entries(s)' /\ log'[s][i] = log[s][i],
           at \in Locked => t.at \in Locked \/ ~Busy(Session(t)),
           \A m \in Messages : processed'[m] # processed[m] => m = Message(t)
    PROVE  Order'
<1>1. PICK new : new = [t EXCEPT !.at = at]
    OBVIOUS
<1>2. /\ new.at = at /\ new.stream = t.stream /\ new.index = t.index
      /\ tasks' = (tasks \ {t}) \cup {new}
    BY <1>1 DEF Types, TaskTypes, Moves
<1>3. \A u \in tasks : Message(u)' = Message(u) /\ Session(u)' = Session(u)
    BY SameMessages DEF Session
<1>4. Message(new)' = Message(t) /\ Session(new)' = Session(t)
    BY <1>2, <1>3 DEF Message, Session
<1>5. LockExclusive'
    <2>1. ASSUME at \in Locked, NEW u \in tasks \ {t}, u.at \in Locked, Session(u) = Session(t)
          PROVE  FALSE
        BY <2>1 DEF Order, LockExclusive, Busy
    <2>2. QED
        BY <1>2, <1>3, <1>4, <2>1 DEF Order, LockExclusive
<1>6. Delivered'
    BY <1>2 DEF Order, Delivered
<1>7. ProcessedWasPublished'
    <2>1. \A m \in Messages : Published(m) => Published(m)'
        BY DEF Published
    <2>2. Published(Message(t))
        BY MessageOfTask DEF Types
    <2>3. QED
        BY <2>1, <2>2 DEF Order, ProcessedWasPublished
<1>8. QED
    BY <1>5, <1>6, <1>7 DEF Order

\* The streams only grow.
LEMMA LogGrows ==
    ASSUME Types, [Next]_vars
    PROVE  \A s \in Streams : \A i \in Entries(s) : i \in Entries(s)' /\ log'[s][i] = log[s][i]
<1>1. CASE UNCHANGED log
    BY <1>1 DEF Entries
<1>2. ASSUME NEW m \in Messages, NEW s \in {Channel, AgentOf[m]}, Add(m, s), UNCHANGED <<group, pel>>
      PROVE  \A r \in Streams : \A i \in Entries(r) : i \in Entries(r)' /\ log'[r][i] = log[r][i]
    <2>1. s \in Streams
        BY StreamAssumption DEF Streams
    <2>2. QED
        BY <1>2, <2>1, AddedIsOpen DEF Types
<1>3. ASSUME NEW m \in Messages, Publish(m)
      PROVE  \A r \in Streams : \A i \in Entries(r) : i \in Entries(r)' /\ log'[r][i] = log[r][i]
    <2>1. (\E s \in {Channel, AgentOf[m]} : Add(m, s)) /\ UNCHANGED <<group, pel>>
        BY <1>3 DEF Publish
    <2>2. QED
        BY <1>2, <2>1
<1>4. ASSUME NEW t \in tasks, Reroute(t)
      PROVE  \A r \in Streams : \A i \in Entries(r) : i \in Entries(r)' /\ log'[r][i] = log[r][i]
    <2>1. (log' = log \/ Add(Message(t), AgentOf[Message(t)])) /\ UNCHANGED <<group, pel>>
        BY <1>4 DEF Reroute
    <2>2. Message(t) \in Messages
        BY MessageOfTask DEF Types
    <2>3. QED
        BY <1>1, <1>2, <2>1, <2>2
<1>5. QED
    BY <1>1, <1>3, <1>4
    DEF Next, ReadStep, HandlerStep, vars, streams, owners, Claim, Expire, Lapse, Refresh, Deliver,
        Reclaim, ReclaimSlow, Permit, Lock, GiveUp, Route, Work, WorkFails, Ack, AckFails, GoesDown,
        Crash, Stop, LockExpires

LEMMA ReadOrder ==
    ASSUME Types, Order, NEW c \in Cores,
           \/ \E s \in Streams : Deliver(c, s)
           \/ \E e \in pel : Reclaim(c, e) \/ ReclaimSlow(c, e)
           \/ Refresh(c)
    PROVE  Order'
<1>1. \A r \in Streams : Len(log[r]) \in Nat /\ group[r] \in -1..Len(log[r])
    BY DEF Types, StreamTypes
<1>2. \A u \in tasks : u.stream \in Streams /\ u.index \in Int
    BY DEF Types, TaskTypes
<1>3. ASSUME NEW s \in Streams, Deliver(c, s) PROVE Order'
    <2>1. PICK t : t = Task(c, s, group[s] + 1, 0, "queued")
        OBVIOUS
    <2>2. /\ tasks' = tasks \cup {t} /\ UNCHANGED <<log, processed>>
          /\ group' = [group EXCEPT ![s] = @ + 1]
        BY <1>3, <2>1 DEF Deliver
    <2>3. t.at = "queued" /\ t.index <= group'[t.stream]
        BY <2>1, <2>2, <1>1 DEF Task, Types, StreamTypes
    <2>4. \A u \in tasks : group[u.stream] <= group'[u.stream] /\ group'[u.stream] \in Int
        BY <1>1, <1>2, <2>2 DEF Types, StreamTypes
    <2>5. QED
        BY <2>2, <2>3, <2>4, NewTaskOrder
<1>4. ASSUME NEW e \in pel, Reclaim(c, e) \/ ReclaimSlow(c, e) PROVE Order'
    <2>1. PICK n : tasks' = tasks \cup {Task(c, e[1], e[2], n, "queued")}
        BY <1>4 DEF Reclaim, ReclaimSlow
    <2>2. PICK t : t = Task(c, e[1], e[2], n, "queued")
        OBVIOUS
    <2>3. UNCHANGED <<log, processed, group>>
        BY <1>4 DEF Reclaim, ReclaimSlow, streams
    <2>4. e[2] \in 1..group[e[1]] /\ e[1] \in Streams
        BY DEF Types, StreamTypes
    <2>5. t.at = "queued" /\ t.index <= group'[t.stream]
        BY <2>2, <2>3, <2>4, <1>1 DEF Task
    <2>6. \A u \in tasks : group[u.stream] <= group'[u.stream] /\ group'[u.stream] \in Int
        BY <1>1, <1>2, <2>3
    <2>7. QED
        BY <2>1, <2>2, <2>3, <2>5, <2>6, NewTaskOrder
<1>5. ASSUME Refresh(c) PROVE Order'
    <2>1. UNCHANGED <<log, tasks, processed>>
        BY <1>5 DEF Refresh
    <2>2. \A s \in Streams : group'[s] \in Int /\ group[s] <= group'[s]
        BY <1>1, <1>5 DEF Refresh, GroupStart
    <2>3. Delivered'
        BY <1>1, <1>2, <2>1, <2>2 DEF Order, Delivered
    <2>4. LockExclusive' /\ ProcessedWasPublished'
        BY <2>1 DEF Order, LockExclusive, ProcessedWasPublished, Session, Message, Published, Entries
    <2>5. QED
        BY <2>3, <2>4 DEF Order
<1>6. QED
    BY <1>3, <1>4, <1>5

LEMMA StepOrder == Types /\ Order /\ [Next]_vars => Order'
<1> SUFFICES ASSUME Types, Order, [Next]_vars PROVE Order'
    OBVIOUS
<1>1. \A s \in Streams : \A i \in Entries(s) : i \in Entries(s)' /\ log'[s][i] = log[s][i]
    BY LogGrows
<1>2. CASE tasks' \subseteq tasks /\ UNCHANGED <<group, processed>>
    BY <1>1, <1>2, SameOrder
<1>3. ASSUME NEW t \in tasks, Permit(t) \/ Lock(t) \/ Route(t) \/ Work(t) \/ Reroute(t)
      PROVE  Order'
    <2>1. UNCHANGED group /\ \A m \in Messages : processed'[m] # processed[m] => m = Message(t)
        BY <1>3 DEF Permit, Lock, Route, Work, Reroute, streams, Types, CountTypes
    <2>2. PICK at \in Stages :
             Moves(t, at) /\ (at \in Locked => t.at \in Locked \/ ~Busy(Session(t)))
        BY <1>3 DEF Permit, Lock, Route, Work, Reroute, Stages, Locked
    <2>3. QED
        BY <1>1, <2>1, <2>2, HandlerOrder
<1>4. ASSUME NEW t \in tasks, GiveUp(t) \/ WorkFails(t) \/ Ack(t) \/ AckFails(t)
      PROVE  Order'
    BY <1>2, <1>4 DEF GiveUp, WorkFails, Ack, AckFails, Ends, streams
<1>5. ASSUME NEW c \in Cores, Crash(c) \/ Stop(c) PROVE Order'
    BY <1>2, <1>5 DEF Crash, Stop, GoesDown, Surviving, streams
<1>6. ASSUME \/ UNCHANGED vars
             \/ \E s \in Sessions : LockExpires(s)
             \/ \E m \in Messages : Publish(m)
             \/ \E a \in Agents : Expire(a) \/ Lapse(a) \/ \E c \in Cores : Claim(c, a)
      PROVE  Order'
    BY <1>2, <1>6 DEF vars, LockExpires, Publish, Expire, Lapse, Claim, streams
<1>7. QED
    BY <1>3, <1>4, <1>5, <1>6, ReadOrder DEF Next, ReadStep, HandlerStep

-----------------------------------------------------------------------------
(* The trade of each step *)

\* Steps that change neither the entries nor the handlers.
LEMMA QuietTrades ==
    ASSUME Types, UNCHANGED <<log, pel, tasks, processed, downs, lostAcks, slow>>,
           \A s \in Streams : group'[s] \in Int /\ group[s] <= group'[s],
           NEW n \in Messages
    PROVE  TradeOf(n)
<1>1. \A s \in Streams : \A i \in Entries(s)' :
         i \in Entries(s) /\ log'[s][i] = log[s][i] /\ (Open(s, i)' => Open(s, i))
    <2>1. \A s \in Streams : Len(log[s]) \in Nat /\ group[s] \in -1..Len(log[s])
        BY DEF Types, StreamTypes
    <2>2. QED
        BY <2>1 DEF Entries, Open
<1>2. \A u \in tasks : \E v \in tasks' : v.stream = u.stream /\ v.index = u.index
    OBVIOUS
<1>3. PICK X : X = {}
    OBVIOUS
<1>4. Waiting(n)' \subseteq Waiting(n)
    BY <1>1, <1>2, <1>3, WaitingFrame
<1>5. Handling(n)' \subseteq Handling(n)
    BY DEF Handling, Message
<1>6. processed'[n] <= processed[n] /\ Causes' >= Causes
    BY BoundAssumption DEF Causes, Types, CountTypes
<1>7. QED
    BY <1>4, <1>5, <1>6 DEF TradeOf, Trade

\* An entry handed out becomes a handler.  Only an entry whose handler is slow has
\* one already, and slow counts it.
LEMMA HandOutTrades ==
    ASSUME Types, UNCHANGED <<log, processed, downs, lostAcks>>,
           NEW s \in Streams, NEW i \in Entries(s), NEW t, t.stream = s, t.index = i,
           tasks' = tasks \cup {t},
           \A r \in Streams : \A j \in Entries(r) : Open(r, j)' => Open(r, j),
           \/ Open(s, i) /\ Handlers(s, i) = {} /\ slow' = slow
           \/ slow' = slow + 1,
           NEW n \in Messages
    PROVE  TradeOf(n)
<1>1. PICK e : e = <<s, i>>
    OBVIOUS
<1>2. /\ \A u \in tasks : \E v \in tasks' : v.stream = u.stream /\ v.index = u.index
      /\ \A r \in Streams : \A j \in Entries(r)' :
            j \in Entries(r) /\ log'[r][j] = log[r][j] /\ (Open(r, j)' => Open(r, j))
    BY DEF Entries
<1>3. PICK X : X = {}
    OBVIOUS
<1>4. Waiting(n)' \subseteq Waiting(n)
    BY <1>2, <1>3, WaitingFrame
<1>5. e \notin Waiting(n)'
    BY <1>1 DEF Waiting, Handlers
<1>6. Message(t)' = log[s][i] /\ \A u \in tasks : Message(u)' = Message(u)
    BY DEF Message
<1>7. Handling(n)' \subseteq Handling(n) \cup {t}
    BY <1>6 DEF Handling
<1>8. processed'[n] = processed[n] /\ processed[n] \in Nat
    BY DEF Types, CountTypes
<1>9. CASE slow' = slow + 1
    <2>1. Causes' = Causes + 1
        BY <1>9, BoundAssumption DEF Causes, Types, CountTypes
    <2>2. QED
        BY <1>4, <1>7, <1>8, <2>1 DEF TradeOf, Trade
<1>10. CASE Open(s, i) /\ Handlers(s, i) = {} /\ slow' = slow
    <2>1. Causes' = Causes /\ Causes \in Nat
        BY <1>10, BoundAssumption DEF Causes, Types, CountTypes
    <2>2. CASE n = log[s][i]
        <3>1. i \in Nat
            BY DEF Entries, Types, StreamTypes
        <3>2. e \in Waiting(n)
            BY <1>1, <1>10, <2>2, <3>1 DEF Waiting
        <3>3. QED
            BY <1>4, <1>5, <1>7, <1>8, <2>1, <3>2 DEF TradeOf, Trade
    <2>3. CASE n # log[s][i]
        <3>1. Handling(n)' \subseteq Handling(n)
            BY <1>6, <2>3 DEF Handling
        <3>2. QED
            BY <1>4, <1>8, <2>1, <3>1 DEF TradeOf, Trade
    <2>4. QED
        BY <2>2, <2>3
<1>11. QED
    BY <1>9, <1>10

LEMMA ReadTrades ==
    ASSUME Types, Order, NEW c \in Cores, NEW n \in Messages,
           \/ \E s \in Streams : Deliver(c, s)
           \/ \E e \in pel : Reclaim(c, e) \/ ReclaimSlow(c, e)
    PROVE  TradeOf(n)
<1>1. \A r \in Streams : Len(log[r]) \in Nat /\ group[r] \in -1..Len(log[r])
    BY DEF Types, StreamTypes
<1>2. ASSUME NEW s \in Streams, Deliver(c, s) PROVE TradeOf(n)
    <2>1. PICK i : i = group[s] + 1
        OBVIOUS
    <2>2. PICK t : t = Task(c, s, i, 0, "queued")
        OBVIOUS
    <2>3. /\ UNCHANGED <<log, processed, downs, lostAcks, slow>>
          /\ tasks' = tasks \cup {t} /\ pel' = pel \cup {<<s, i>>}
          /\ group' = [group EXCEPT ![s] = i] /\ i \in 1..Len(log[s]) /\ i > group[s]
        BY <1>1, <1>2, <2>1, <2>2 DEF Deliver
    <2>4. i \in Entries(s) /\ Open(s, i)
        BY <2>3 DEF Entries, Open
    <2>5. ASSUME NEW r \in Streams, NEW j \in Entries(r), Open(r, j)' PROVE Open(r, j)
        <3>1. j \in Int
            BY <1>1 DEF Entries
        <3>2. QED
            BY <1>1, <2>3, <2>4, <2>5, <3>1 DEF Open, Types, StreamTypes
    <2>6. Handlers(s, i) = {}
        <3>1. \A u \in tasks : u.stream = s => u.index <= group[s] /\ u.index \in Int
            BY DEF Order, Delivered, Types, TaskTypes
        <3>2. QED
            BY <1>1, <2>3, <3>1 DEF Handlers
    <2>7. t.stream = s /\ t.index = i
        BY <2>2 DEF Task
    <2>8. QED
        BY <2>3, <2>4, <2>5, <2>6, <2>7, HandOutTrades
<1>3. ASSUME NEW e \in pel, Reclaim(c, e) \/ ReclaimSlow(c, e) PROVE TradeOf(n)
    <2>1. PICK k : tasks' = tasks \cup {Task(c, e[1], e[2], k, "queued")}
        BY <1>3 DEF Reclaim, ReclaimSlow
    <2>2. PICK t : t = Task(c, e[1], e[2], k, "queued")
        OBVIOUS
    <2>3. /\ UNCHANGED <<log, group, pel, processed, downs, lostAcks>>
          /\ (Handlers(e[1], e[2]) = {} /\ slow' = slow) \/ slow' = slow + 1
        BY <1>3 DEF Reclaim, ReclaimSlow, streams
    <2>4. /\ e[1] \in Streams /\ e[2] \in 1..group[e[1]] /\ e = <<e[1], e[2]>>
        BY DEF Types, StreamTypes
    <2>5. e[2] \in Entries(e[1]) /\ Open(e[1], e[2])
        BY <1>1, <2>4 DEF Entries, Open
    <2>6. \A r \in Streams : \A j \in Entries(r) : Open(r, j)' => Open(r, j)
        BY <2>3 DEF Open
    <2>7. t.stream = e[1] /\ t.index = e[2] /\ tasks' = tasks \cup {t}
        BY <2>1, <2>2 DEF Task
    <2>8. QED
        BY <2>3, <2>4, <2>5, <2>6, <2>7, HandOutTrades
<1>4. QED
    BY <1>2, <1>3

\* A handler that waits, gets the lock or is routed stays one.
LEMMA MoveTrades ==
    ASSUME Types, NEW t \in tasks, t.at # "acking", NEW at \in Stages, Moves(t, at),
           UNCHANGED <<log, group, pel, downs, lostAcks, slow>>,
           \/ processed' = processed
           \/ at = "acking" /\ processed' = [processed EXCEPT ![Message(t)] = @ + 1],
           NEW n \in Messages
    PROVE  TradeOf(n)
<1>1. PICK new : new = [t EXCEPT !.at = at]
    OBVIOUS
<1>2. /\ new.at = at /\ new.stream = t.stream /\ new.index = t.index
      /\ tasks' = (tasks \ {t}) \cup {new}
    BY <1>1 DEF Types, TaskTypes, Moves
<1>3. \A u \in tasks : \E v \in tasks' : v.stream = u.stream /\ v.index = u.index
    BY <1>2
<1>4. PICK X : X = {}
    OBVIOUS
<1>5. Waiting(n)' \subseteq Waiting(n)
    BY <1>3, <1>4, QuietWaiting
<1>6. Message(new)' = Message(t) /\ \A u \in tasks : Message(u)' = Message(u)
    BY <1>2 DEF Message
<1>7. /\ Causes' = Causes /\ Causes \in Nat /\ processed[n] \in Nat
      /\ Message(t) \in Messages
    BY BoundAssumption, MessageOfTask DEF Causes, Types, CountTypes
<1>8. CASE n # Message(t)
    <2>1. Handling(n)' \subseteq Handling(n)
        BY <1>2, <1>6, <1>8 DEF Handling
    <2>2. processed'[n] = processed[n]
        BY <1>7, <1>8 DEF Types, CountTypes
    <2>3. QED
        BY <1>5, <1>7, <2>1, <2>2 DEF TradeOf, Trade
<1>9. CASE n = Message(t) /\ processed' = processed
    <2>1. t \in Handling(n) /\ Handling(n)' \subseteq (Handling(n) \ {t}) \cup {new}
        BY <1>2, <1>6, <1>9 DEF Handling
    <2>2. QED
        BY <1>5, <1>7, <1>9, <2>1 DEF TradeOf, Trade
<1>10. CASE n = Message(t) /\ at = "acking" /\ processed' = [processed EXCEPT ![Message(t)] = @ + 1]
    <2>1. t \in Handling(n) /\ Handling(n)' \subseteq Handling(n) \ {t}
        BY <1>2, <1>6, <1>10 DEF Handling
    <2>2. processed'[n] = processed[n] + 1
        BY <1>10 DEF Types, CountTypes
    <2>3. QED
        BY <1>5, <1>7, <2>1, <2>2 DEF TradeOf, Trade
<1>11. QED
    BY <1>8, <1>9, <1>10

\* A handler that ends leaves its entry behind.
LEMMA EndTrades ==
    ASSUME Types, NEW t \in tasks, Ends(t), UNCHANGED <<log, group, pel, processed, downs, slow>>,
           \/ t.at # "acking" /\ UNCHANGED lostAcks
           \/ lostAcks' = lostAcks + 1,
           NEW n \in Messages
    PROVE  TradeOf(n)
<1>1. PICK e : e = <<t.stream, t.index>>
    OBVIOUS
<1>2. PICK X : X = {e}
    OBVIOUS
<1>3. \A u \in tasks :
         \/ <<u.stream, u.index>> \in X
         \/ \E v \in tasks' : v.stream = u.stream /\ v.index = u.index
    BY <1>1, <1>2 DEF Ends
<1>4. \A d \in Waiting(n)' : d \in Waiting(n) \/ (d \in X /\ log[d[1]][d[2]] = n)
    BY <1>3, QuietWaiting
<1>5. \A u \in tasks : Message(u)' = Message(u)
    BY DEF Message
<1>6. Handling(n)' \subseteq Handling(n) \ {t}
    BY <1>5 DEF Handling, Ends
<1>7. Waiting(n)' \subseteq Waiting(n) \cup {e}
    BY <1>2, <1>4
<1>8. processed'[n] = processed[n] /\ processed[n] \in Nat /\ Causes \in Nat
    BY BoundAssumption DEF Types, CountTypes, Causes
<1>9. CASE lostAcks' = lostAcks + 1
    <2>1. Causes' = Causes + 1
        BY <1>9, BoundAssumption DEF Types, CountTypes, Causes
    <2>2. QED
        BY <1>6, <1>7, <1>8, <2>1 DEF TradeOf, Trade
<1>10. CASE t.at # "acking" /\ UNCHANGED lostAcks
    <2>1. Causes' = Causes
        BY <1>10 DEF Causes
    <2>2. CASE n = Message(t)
        <3>1. t \in Handling(n)
            BY <1>10, <2>2 DEF Handling
        <3>2. QED
            BY <1>6, <1>7, <1>8, <2>1, <3>1 DEF TradeOf, Trade
    <2>3. CASE n # Message(t)
        <3>1. Waiting(n)' \subseteq Waiting(n)
            BY <1>1, <1>2, <1>4, <2>3 DEF Message
        <3>2. QED
            BY <1>6, <1>8, <2>1, <3>1 DEF TradeOf, Trade
    <2>4. QED
        BY <2>2, <2>3
<1>11. QED
    BY <1>9, <1>10

\* The acknowledged entry is not handed out again.
LEMMA AckTrades ==
    ASSUME Types, Order, NEW t \in tasks, Ack(t), NEW n \in Messages
    PROVE  TradeOf(n)
<1>1. PICK e : e = <<t.stream, t.index>>
    OBVIOUS
<1>2. /\ pel' = pel \ {e} /\ tasks' = tasks \ {t}
      /\ UNCHANGED <<log, group, processed, downs, lostAcks, slow>>
    BY <1>1 DEF Ack, Ends, bounds
<1>3. PICK X : X = {e}
    OBVIOUS
<1>4. \A u \in tasks :
         \/ <<u.stream, u.index>> \in X
         \/ \E v \in tasks' : v.stream = u.stream /\ v.index = u.index
    BY <1>1, <1>2, <1>3
<1>5. \A s \in Streams : \A i \in Entries(s)' :
         i \in Entries(s) /\ log'[s][i] = log[s][i] /\ (Open(s, i)' => Open(s, i))
    BY <1>2 DEF Entries, Open
<1>6. \A d \in Waiting(n)' : d \in Waiting(n) \/ d \in X
    BY <1>4, <1>5, WaitingFrame
<1>7. e \notin Waiting(n)'
    <2>1. /\ t.index <= group[t.stream] /\ t.index \in Int /\ group[t.stream] \in Int
        BY DEF Order, Delivered, Types, TaskTypes, StreamTypes
    <2>2. e \in Waiting(n)' => t.index > group[t.stream] \/ e \in pel'
        BY <1>1, <1>2 DEF Waiting, Open
    <2>3. QED
        BY <1>2, <2>1, <2>2
<1>8. Waiting(n)' \subseteq Waiting(n)
    BY <1>3, <1>6, <1>7
<1>9. Handling(n)' \subseteq Handling(n)
    BY <1>2 DEF Handling, Message
<1>10. processed'[n] <= processed[n] /\ Causes' >= Causes
    BY <1>2, BoundAssumption DEF Causes, Types, CountTypes
<1>11. QED
    BY <1>8, <1>9, <1>10 DEF TradeOf, Trade

\* A reroute passes the message on: an entry for a handler.
LEMMA RerouteTrades ==
    ASSUME Types, NEW t \in tasks, Reroute(t), NEW n \in Messages
    PROVE  TradeOf(n)
<1>1. /\ t.at = "rerouting" /\ UNCHANGED <<group, pel, processed, downs, lostAcks, slow>>
      /\ tasks' = (tasks \ {t}) \cup {[t EXCEPT !.at = "acking"]}
    BY DEF Reroute, Moves, LostAdd, bounds
<1>2. PICK new : new = [t EXCEPT !.at = "acking"]
    OBVIOUS
<1>3. /\ new.at = "acking" /\ new.stream = t.stream /\ new.index = t.index
      /\ tasks' = (tasks \ {t}) \cup {new}
    BY <1>1, <1>2 DEF Types, TaskTypes
<1>4. \A u \in tasks : \E v \in tasks' : v.stream = u.stream /\ v.index = u.index
    BY <1>3
<1>5. /\ processed'[n] = processed[n] /\ processed[n] \in Nat /\ Causes' = Causes
      /\ Causes \in Nat
    BY <1>1, BoundAssumption DEF Causes, Types, CountTypes
<1>6. PICK m \in Messages : m = Message(t)
    BY MessageOfTask DEF Types
<1>7. PICK a \in Agents : a = AgentOf[m]
    BY StreamAssumption
<1>8. a \in Streams
    BY DEF Streams
<1>9. PICK e : e = <<a, Len(log[a]) + 1>>
    OBVIOUS
<1>10. /\ \A s \in Streams : \A i \in Entries(s) : i \in Entries(s)' /\ log'[s][i] = log[s][i]
       /\ \A d \in Waiting(n)' : d \in Waiting(n) \/ (d = e /\ n = m)
    <2>1. CASE log' = log
        <3>1. PICK X : X = {}
            OBVIOUS
        <3>2. Waiting(n)' \subseteq Waiting(n)
            BY <1>1, <1>4, <2>1, <3>1, QuietWaiting
        <3>3. QED
            BY <2>1, <3>2 DEF Entries
    <2>2. CASE Add(m, a)
        <3>1. /\ Len(log'[a]) = Len(log[a]) + 1 /\ log'[a][Len(log[a]) + 1] = m
              /\ \A r \in Streams \ {a} : log'[r] = log[r]
              /\ \A i \in Entries(a) : log'[a][i] = log[a][i]
              /\ \A r \in Streams : Len(log'[r]) \in Nat /\ Len(log[r]) \in Nat
            BY <1>8, <2>2, AddAppends DEF Types
        <3>2. PICK X : X = {e}
            OBVIOUS
        <3>3. \A s \in Streams : \A i \in Entries(s) : i \in Entries(s)' /\ log'[s][i] = log[s][i]
            BY <3>1 DEF Entries
        <3>4. \A s \in Streams : \A i \in Entries(s)' :
                 \/ <<s, i>> \in X
                 \/ i \in Entries(s) /\ log'[s][i] = log[s][i] /\ (Open(s, i)' => Open(s, i))
            <4>1. ASSUME NEW s \in Streams, NEW i \in Entries(s)', <<s, i>> \notin X
                  PROVE  i \in Entries(s)
                BY <1>9, <3>1, <3>2, <4>1 DEF Entries
            <4>2. QED
                BY <1>1, <3>3, <4>1 DEF Open
        <3>5. \A d \in Waiting(n)' : d \in Waiting(n) \/ (d \in X /\ log'[d[1]][d[2]] = n)
            BY <1>4, <3>4, WaitingFrame
        <3>6. QED
            BY <1>9, <3>1, <3>2, <3>3, <3>5
    <2>3. QED
        BY <1>6, <1>7, <2>1, <2>2 DEF Reroute
<1>11. Message(new)' = m /\ \A u \in tasks : Message(u)' = Message(u)
    <2>1. \A u \in tasks : Message(u)' = Message(u)
        BY <1>10, SameMessages
    <2>2. Message(new)' = Message(t)'
        BY <1>3 DEF Message
    <2>3. QED
        BY <1>6, <2>1, <2>2
<1>12. Handling(n)' \subseteq Handling(n) \ {t}
    BY <1>3, <1>11 DEF Handling
<1>13. CASE n = m
    <2>1. t \in Handling(n)
        BY <1>1, <1>6, <1>13 DEF Handling
    <2>2. Waiting(n)' \subseteq Waiting(n) \cup {e}
        BY <1>10
    <2>3. QED
        BY <1>5, <1>12, <2>1, <2>2 DEF TradeOf, Trade
<1>14. CASE n # m
    <2>1. Waiting(n)' \subseteq Waiting(n)
        BY <1>10, <1>14
    <2>2. QED
        BY <1>5, <1>12, <2>1 DEF TradeOf, Trade
<1>15. QED
    BY <1>13, <1>14

-----------------------------------------------------------------------------
(* Steps that are no trade *)

\* A message is published once: nothing was done with it before.
LEMMA PublishFew ==
    ASSUME Types, Types', Order, NEW m \in Messages, Publish(m), NEW n \in Messages, Few(n)
    PROVE  Few(n)'
<1>1. /\ UNCHANGED <<group, pel, tasks, processed, downs, lostAcks, slow>> /\ ~Published(m)
      /\ \E r \in {Channel, AgentOf[m]} : Add(m, r)
    BY DEF Publish, bounds
<1>2. PICK s \in Streams : Add(m, s)
    BY <1>1, StreamAssumption DEF Streams
<1>3. PICK e : e = <<s, Len(log[s]) + 1>>
    OBVIOUS
<1>4. PICK X : X = {e}
    OBVIOUS
<1>5. /\ Len(log'[s]) = Len(log[s]) + 1 /\ log'[s][Len(log[s]) + 1] = m
      /\ \A r \in Streams \ {s} : log'[r] = log[r]
      /\ \A i \in Entries(s) : log'[s][i] = log[s][i]
      /\ \A r \in Streams : Len(log'[r]) \in Nat /\ Len(log[r]) \in Nat
    BY <1>2, AddAppends DEF Types
<1>6. \A r \in Streams : \A i \in Entries(r) : i \in Entries(r)' /\ log'[r][i] = log[r][i]
    BY <1>5 DEF Entries
<1>7. ASSUME NEW r \in Streams, NEW i \in Entries(r)', <<r, i>> \notin X PROVE i \in Entries(r)
    BY <1>3, <1>4, <1>5, <1>7 DEF Entries
<1>8. \A r \in Streams : \A i \in Entries(r)' :
         \/ <<r, i>> \in X
         \/ i \in Entries(r) /\ log'[r][i] = log[r][i] /\ (Open(r, i)' => Open(r, i))
    BY <1>1, <1>6, <1>7 DEF Open
<1>9. \A u \in tasks : \E v \in tasks' : v.stream = u.stream /\ v.index = u.index
    BY <1>1
<1>10. \A d \in Waiting(n)' : d \in Waiting(n) \/ (d = e /\ n = m)
    BY <1>3, <1>4, <1>5, <1>8, <1>9, WaitingFrame
<1>11. \A u \in tasks : Message(u)' = Message(u)
    BY <1>6, SameMessages
<1>12. Handling(n)' \subseteq Handling(n)
    BY <1>1, <1>11 DEF Handling
<1>13. CASE n # m
    <2>1. Waiting(n)' \subseteq Waiting(n)
        BY <1>10, <1>13
    <2>2. processed'[n] <= processed[n] /\ Causes' >= Causes
        BY <1>1, BoundAssumption DEF Causes, Types, CountTypes
    <2>3. TradeOf(n)
        BY <1>12, <2>1, <2>2 DEF TradeOf, Trade
    <2>4. QED
        BY <2>3, FewAfter
<1>14. CASE n = m
    <2>1. processed'[n] = 0
        BY <1>1, <1>14 DEF Order, ProcessedWasPublished
    <2>2. Handling(n) = {}
        BY <1>1, <1>14, MessageOfTask DEF Types, Handling
    <2>3. Waiting(n) = {}
        BY <1>1, <1>14 DEF Waiting, Published
    <2>4. Handling(n)' = {} /\ Waiting(n)' \subseteq {} \cup {e}
        BY <1>10, <1>12, <2>2, <2>3
    <2>5. PICK H : H = Handling(n)'
        OBVIOUS
    <2>6. PICK W : W = Waiting(n)'
        OBVIOUS
    <2>7. IsFiniteSet(H) /\ Cardinality(H) = 0
        BY <2>4, <2>5, FS_EmptySet
    <2>8. IsFiniteSet(W) /\ Cardinality(W) \in Nat /\ Cardinality(W) <= 0 + 1
        BY <2>4, <2>6, OneMore, FS_EmptySet
    <2>9. Causes' \in Nat /\ Causes' >= 1
        BY <1>1, BoundAssumption DEF Causes, Types, CountTypes
    <2>10. processed'[n] + Cardinality(H) + Cardinality(W) <= Causes'
        BY <2>1, <2>7, <2>8, <2>9
    <2>11. QED
        BY <2>5, <2>6, <2>7, <2>8, <2>10 DEF Few
<1>15. QED
    BY <1>13, <1>14

\* The entries of the handlers that end with a core wait again, one for each
\* handler.  One handler of the message at most had processed it: it had the lock.
LEMMA DownFew ==
    ASSUME Types, Types', Order, NEW c \in Cores, GoesDown(c), NEW n \in Messages, Few(n)
    PROVE  Few(n)'
<1>1. /\ UNCHANGED <<log, group, pel, processed, lostAcks, slow>> /\ downs' = downs + 1
      /\ tasks' \subseteq tasks
    BY DEF GoesDown, Surviving, streams
<1>2. PICK H : H = Handling(n)
    OBVIOUS
<1>3. PICK W : W = Waiting(n)
    OBVIOUS
<1>4. PICK H2 : H2 = Handling(n)'
    OBVIOUS
<1>5. PICK W2 : W2 = Waiting(n)'
    OBVIOUS
<1>6. PICK D : D = H \ H2
    OBVIOUS
<1>7. PICK N : N = W2 \ W
    OBVIOUS
<1>8. /\ IsFiniteSet(H) /\ IsFiniteSet(W) /\ Cardinality(H) \in Nat /\ Cardinality(W) \in Nat
      /\ processed[n] + Cardinality(H) + Cardinality(W) <= Causes
    BY <1>2, <1>3, FS_CardinalityType DEF Few
<1>9. \A u \in tasks : Message(u)' = Message(u)
    BY <1>1 DEF Message
<1>10. H2 \subseteq H
    BY <1>1, <1>2, <1>4, <1>9 DEF Handling
<1>11. PICK x : \A t \in tasks : t.at = "acking" /\ Message(t) = n => t = x
    <2>1. \A t, u \in tasks :
             t.at = "acking" /\ Message(t) = n /\ u.at = "acking" /\ Message(u) = n => t = u
        BY DEF Order, LockExclusive, Locked, Session
    <2>2. QED
        BY <2>1
<1>12. ASSUME NEW e \in N PROVE \E u \in D \cup {x} : <<u.stream, u.index>> = e
    <2>1. /\ e \in Streams \X Nat /\ e[2] \in Entries(e[1]) /\ log[e[1]][e[2]] = n
          /\ Open(e[1], e[2]) /\ Handlers(e[1], e[2])' = {} /\ e = <<e[1], e[2]>>
        BY <1>1, <1>5, <1>7 DEF Waiting, Entries, Open
    <2>2. Handlers(e[1], e[2]) # {}
        BY <1>3, <1>7, <2>1 DEF Waiting
    <2>3. PICK u \in tasks : u.stream = e[1] /\ u.index = e[2]
        BY <2>2 DEF Handlers
    <2>4. u \notin tasks' /\ Message(u) = n
        BY <2>1, <2>3 DEF Handlers, Message
    <2>5. u \in D \cup {x}
        BY <1>2, <1>4, <1>6, <1>11, <2>4 DEF Handling
    <2>6. QED
        BY <2>1, <2>3, <2>5
<1>13. PICK f : f = [e \in N |-> CHOOSE u \in D \cup {x} : <<u.stream, u.index>> = e]
    OBVIOUS
<1>14. \A e \in N : f[e] \in D \cup {x} /\ <<f[e].stream, f[e].index>> = e
    BY <1>12, <1>13
<1>15. f \in Injection(N, D \cup {x})
    <2>1. f \in [N -> D \cup {x}]
        BY <1>13, <1>14
    <2>2. \A d, e \in N : f[d] = f[e] => d = e
        BY <1>14
    <2>3. PICK R : R = D \cup {x}
        OBVIOUS
    <2>4. f \in Injection(N, R)
        BY <2>1, <2>2, <2>3 DEF Injection, IsInjective
    <2>5. QED
        BY <2>3, <2>4
<1>16. /\ IsFiniteSet(D) /\ IsFiniteSet(D \cup {x}) /\ Cardinality(D) \in Nat
       /\ Cardinality(D \cup {x}) \in Nat /\ Cardinality(D \cup {x}) <= Cardinality(D) + 1
    <2>1. IsFiniteSet(D)
        BY <1>6, <1>8, FS_Subset
    <2>2. QED
        BY <2>1, OneMore
<1>17. IsFiniteSet(N) /\ Cardinality(N) \in Nat /\ Cardinality(N) <= Cardinality(D \cup {x})
    BY <1>15, <1>16, FS_Injection, FS_CardinalityType
<1>18. /\ IsFiniteSet(H2) /\ Cardinality(H2) \in Nat
       /\ Cardinality(H2) + Cardinality(D) = Cardinality(H)
    <2>1. H2 = H \ D /\ H \cap D = D
        BY <1>6, <1>10
    <2>2. IsFiniteSet(H \ D) /\ Cardinality(H \ D) = Cardinality(H) - Cardinality(H \cap D)
        BY <1>8, FS_Difference
    <2>3. IsFiniteSet(H2) /\ Cardinality(H2) = Cardinality(H) - Cardinality(D)
        BY <2>1, <2>2
    <2>4. Cardinality(H2) \in Nat
        BY <2>3, FS_CardinalityType
    <2>5. QED
        BY <1>8, <1>16, <2>3, <2>4
<1>19. /\ IsFiniteSet(W2) /\ Cardinality(W2) \in Nat
       /\ Cardinality(W2) <= Cardinality(W) + Cardinality(N)
    <2>1. W2 \subseteq W \cup N
        BY <1>7
    <2>2. IsFiniteSet(W \cap N) /\ Cardinality(W \cap N) \in Nat
        BY <1>8, FewerElements
    <2>3. /\ IsFiniteSet(W \cup N)
          /\ Cardinality(W \cup N) = Cardinality(W) + Cardinality(N) - Cardinality(W \cap N)
        BY <1>8, <1>17, FS_Union
    <2>4. /\ IsFiniteSet(W2) /\ Cardinality(W2) \in Nat
          /\ Cardinality(W2) <= Cardinality(W \cup N)
        BY <2>1, <2>3, FewerElements
    <2>5. QED
        BY <1>8, <1>17, <2>2, <2>3, <2>4
<1>20. Causes' = Causes + 1 /\ Causes \in Nat /\ processed[n] \in Nat
    BY <1>1, BoundAssumption DEF Causes, Types, CountTypes
<1>21. processed'[n] + Cardinality(H2) + Cardinality(W2) <= Causes'
    BY <1>1, <1>8, <1>16, <1>17, <1>18, <1>19, <1>20
<1>22. QED
    BY <1>4, <1>5, <1>18, <1>19, <1>21 DEF Few

-----------------------------------------------------------------------------
(* The theorem *)

LEMMA StepFew ==
    ASSUME Types, Types', Order, [Next]_vars, NEW n \in Messages, Few(n)
    PROVE  Few(n)'
<1>1. CASE TradeOf(n)
    BY <1>1, FewAfter
<1>2. ASSUME \/ UNCHANGED vars
             \/ \E s \in Sessions : LockExpires(s)
             \/ \E a \in Agents : Expire(a) \/ Lapse(a) \/ \E c \in Cores : Claim(c, a)
             \/ \E c \in Cores : Refresh(c)
      PROVE  Few(n)'
    <2>1. UNCHANGED <<log, pel, tasks, processed, downs, lostAcks, slow>>
        BY <1>2 DEF vars, LockExpires, Expire, Lapse, Claim, Refresh, streams, bounds
    <2>2. \A s \in Streams : Len(log[s]) \in Nat /\ group[s] \in -1..Len(log[s])
        BY DEF Types, StreamTypes
    <2>3. \A s \in Streams : group'[s] \in Int /\ group[s] <= group'[s]
        BY <1>2, <2>2 DEF vars, LockExpires, Expire, Lapse, Claim, Refresh, GroupStart, streams
    <2>4. QED
        BY <1>1, <2>1, <2>3, QuietTrades
<1>3. ASSUME NEW t \in tasks, Permit(t) \/ Lock(t) \/ Route(t) \/ Work(t) PROVE Few(n)'
    <2>1. /\ t.at # "acking" /\ UNCHANGED <<log, group, pel, downs, lostAcks, slow>>
        BY <1>3 DEF Permit, Lock, Route, Work, streams, bounds, Error
    <2>2. PICK at \in Stages :
             /\ Moves(t, at)
             /\ \/ processed' = processed
                \/ at = "acking" /\ processed' = [processed EXCEPT ![Message(t)] = @ + 1]
        BY <1>3 DEF Permit, Lock, Route, Work, Stages
    <2>3. QED
        BY <1>1, <2>1, <2>2, MoveTrades
<1>4. ASSUME NEW t \in tasks, GiveUp(t) \/ WorkFails(t) \/ AckFails(t) PROVE Few(n)'
    <2>1. /\ Ends(t) /\ UNCHANGED <<log, group, pel, processed, downs, slow>>
          /\ \/ t.at # "acking" /\ UNCHANGED lostAcks
             \/ lostAcks' = lostAcks + 1
        BY <1>4 DEF GiveUp, WorkFails, AckFails, streams, bounds, Error, LostAck
    <2>2. QED
        BY <1>1, <2>1, EndTrades
<1>5. ASSUME NEW c \in Cores, Crash(c) \/ Stop(c) PROVE Few(n)'
    BY <1>5, DownFew DEF Crash, Stop
<1>6. QED
    BY <1>1, <1>2, <1>3, <1>4, <1>5, PublishFew, ReadTrades, AckTrades, RerouteTrades
    DEF Next, ReadStep, HandlerStep

LEMMA InitDInv == Init => DInv
<1> SUFFICES ASSUME Init PROVE DInv
    OBVIOUS
<1>1. Order
    BY DEF Init, Order, LockExclusive, Delivered, ProcessedWasPublished
<1>2. ASSUME NEW m \in Messages PROVE Few(m)
    <2>1. \A s \in Streams : Entries(s) = {}
        BY DEF Init, Entries
    <2>2. Handling(m) = {} /\ Waiting(m) = {}
        BY <2>1 DEF Init, Handling, Waiting
    <2>3. processed[m] = 0 /\ Causes = 1
        BY DEF Init, Causes
    <2>4. IsFiniteSet({}) /\ Cardinality({}) = 0
        BY FS_EmptySet
    <2>5. QED
        BY <2>2, <2>3, <2>4 DEF Few
<1>3. QED
    BY <1>1, <1>2, InitTypes DEF DInv

LEMMA StepDInv == DInv /\ [Next]_vars => DInv'
BY StepTypes, StepOrder, StepFew DEF DInv

\* No message is processed twice without a cause (effectively-once processing of
\* InboundStreamWorker): every processing after the first is paid for by a core that
\* went down, an acknowledgement that was lost or an entry that was reclaimed under its
\* handler, for any number of reroutes, give-ups, reclaims and changes of the owner.
THEOREM DuplicatesAreCaused == Spec => []DuplicatesHaveCauses
<1>1. DInv => DuplicatesHaveCauses
    <2> SUFFICES ASSUME DInv, NEW m \in Messages PROVE processed[m] <= Causes
        BY DEF DuplicatesHaveCauses, Causes
    <2>1. /\ Cardinality(Handling(m)) \in Nat /\ Cardinality(Waiting(m)) \in Nat
          /\ processed[m] \in Nat /\ Causes \in Nat
        BY FS_CardinalityType, BoundAssumption DEF DInv, Few, Types, CountTypes, Causes
    <2>2. processed[m] + Cardinality(Handling(m)) + Cardinality(Waiting(m)) <= Causes
        BY DEF DInv, Few
    <2>3. QED
        BY <2>1, <2>2
<1>2. QED
    BY InitDInv, StepDInv, <1>1, PTL DEF Spec
=============================================================================
