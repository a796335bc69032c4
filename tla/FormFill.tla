------------------------------- MODULE FormFill -------------------------------
(***************************************************************************)
(* Form filling with a human in the loop, in one session: the agent's tool *)
(* formfill__execute (agent/ai-platform/backend/src/skills/tools) asks     *)
(* which of several entities a field of a document means, the user presses *)
(* a button of the card, and resume_formfill writes the choice to the      *)
(* document through mis-admin-bff.                                         *)
(*                                                                         *)
(* The question waits in the memory of the core that asked it              *)
(* (FormFillPendingStore), under a token.  The click travels as an inbound *)
(* message; which core gets it and how often is InboundStream's subject:   *)
(* here a core claims a click that nobody handles, or rarely one that      *)
(* somebody does, and passes it on unless it owns the agent or nobody      *)
(* does.  Handlers hold the session lock (SessionLock), which may lapse    *)
(* under its holder.                                                       *)
(*                                                                         *)
(* The session and the agent exist.  Not modelled: a field that the engine *)
(* fills without asking, a click lost because passing it on failed.        *)
(***************************************************************************)
EXTENDS Naturals, FiniteSets

CONSTANTS
    Cores,
    Questions,      \* hitl_required answers of the engine, each about a field
    TokenOf,        \* the resume token of each
    Clicks,         \* presses of a card's button
    Workers,        \* handler tasks at a time
    None,
    MaxFaults       \* bound: disturbances of any kind, counted below

ASSUME NoneAssumption == None \notin Cores \cup Questions \cup Clicks \cup Workers
ASSUME TokenAssumption == TokenOf \in [Questions -> {TokenOf[q] : q \in Questions}]
ASSUME BoundAssumption == MaxFaults \in Nat

VARIABLES
    status,     \* of each question's record
    at,         \* the core whose store has the record; None: no store has it
    due,        \* records older than their TTL
    buffer,     \* cards pushed on a core, before the run ends (a2ui_pending)
    shown,      \* cards the user has
    click,      \* what the user chose
    pel,        \* clicks that are not acknowledged
    routed,     \* clicks that were passed on to the agent's stream
    told,       \* what the user was told about each click
    written,    \* the questions whose entities were written to a question's field
    writes,     \* how often that was
    task,       \* handler tasks
    lock,       \* the handler that holds the session lock
    owner, up,  \* the agent's owner, the cores that run
    timeouts,   \* calls of apply without an answer
    errors,     \* agent runs, saves, owner reads and XACKs that failed
    moves,      \* changes of the agent's owner
    downs,      \* crashes of a core
    lapses,     \* session locks lost under their holder
    slow        \* clicks reclaimed while somebody handles them

records == <<status, at, due>>
cards == <<buffer, shown, click>>
stream == <<pel, routed>>
document == <<written, writes>>
cluster == <<owner, up, moves, downs>>
faults == <<timeouts, errors, lapses, slow>>
vars == <<records, cards, stream, told, document, task, lock, cluster, faults>>

Status == {"none", "pending", "cancelled", "applied", "expired"}
\* "manual" is as "cancel"; "none" is a confirmation without a candidate.
Action == {"confirm", "cancel", "none"}
\* "no such task, start again", "already handled", the agent's answer, any other.
Reply == {"unknown", "handled", "done", "other"}
Task == [core : Cores, click : Clicks \cup {None}, rec : Questions \cup {None},
         at : {"lock", "get", "apply", "mark", "save", "run", "ack"},
         next : {"cancelled", "failed", "done"}]
Choice == [card : Questions, action : Action]

ASSUME RecordAssumption == None \notin Task \cup Choice

TypeOK ==
    /\ status \in [Questions -> Status] /\ at \in [Questions -> Cores \cup {None}]
    /\ due \subseteq Questions /\ shown \subseteq Questions
    /\ buffer \in [Cores -> SUBSET Questions]
    /\ click \in [Clicks -> Choice \cup {None}]
    /\ pel \subseteq Clicks /\ routed \subseteq Clicks /\ told \in [Clicks -> SUBSET Reply]
    /\ written \in [Questions -> SUBSET Questions] /\ writes \in [Questions -> Nat]
    /\ task \in [Workers -> Task \cup {None}] /\ lock \in Workers \cup {None}
    /\ owner \in Cores \cup {None} /\ up \subseteq Cores
    /\ {timeouts, errors, moves, downs, lapses, slow} \subseteq 0..MaxFaults

\* Cores, questions, clicks and handlers are alike: which of them comes next does not matter.
NextOf(S, x) == x \in S /\ x = CHOOSE y \in S : TRUE

Init ==
    /\ status = [q \in Questions |-> "none"] /\ at = [q \in Questions |-> None]
    /\ due = {} /\ buffer = [c \in Cores |-> {}] /\ shown = {}
    /\ click = [k \in Clicks |-> None] /\ pel = {} /\ routed = {}
    /\ told = [k \in Clicks |-> {}]
    /\ written = [q \in Questions |-> {}] /\ writes = [q \in Questions |-> 0]
    /\ task = [w \in Workers |-> None] /\ lock = None
    /\ NextOf(Cores, owner) /\ up = Cores
    /\ timeouts = 0 /\ errors = 0 /\ moves = 0 /\ downs = 0 /\ lapses = 0 /\ slow = 0

Idle == {w \in Workers : task[w] = None}

Disturbed == timeouts + errors + moves + downs + lapses + slow + Cardinality(due) < MaxFaults
Error == Disturbed /\ errors' = errors + 1 /\ UNCHANGED <<timeouts, lapses, slow>>
Timeout == Disturbed /\ timeouts' = timeouts + 1 /\ UNCHANGED <<errors, lapses, slow>>

-----------------------------------------------------------------------------
(* FormFillPendingStore *)

Recs(c, token) == {q \in Questions : at[q] = c /\ TokenOf[q] = token}

\* create(): a record with the same token is replaced.
Stored(c, q) ==
    [p \in Questions |-> IF p = q THEN c ELSE IF p \in Recs(c, TokenOf[q]) THEN None ELSE at[p]]

\* update_status() leaves a record that is resolved as it is.
MutUpdated(c, token, new) == status
Updated(c, token, new) ==
    [q \in Questions |-> IF q \in Recs(c, token) /\ status[q] = "pending" THEN new ELSE status[q]]

-----------------------------------------------------------------------------
(* Handler tasks *)

At(w, stage) == task[w] # None /\ task[w].at = stage
Moves(w, stage) == task' = [task EXCEPT ![w].at = stage]
Tell(w, reply) == told' = [told EXCEPT ![task[w].click] = @ \cup {reply}]
Ends(w) ==
    /\ task' = [task EXCEPT ![w] = None]
    /\ lock' = IF lock = w THEN None ELSE lock

\* _check_owned: an agent that nobody owns is handled where the message is.
MutRoutesHere(c) == TRUE
RoutesHere(c) == owner \in {c, None}

\* A chat message whose run asks for a choice: formfill__execute registers the
\* question and pushes its card; the session's save may fail in between.
Asks(c, q) ==
    /\ NextOf({p \in Questions : status[p] = "none"}, q)
    /\ status' = [status EXCEPT ![q] = "pending"] /\ at' = Stored(c, q)
    /\ \/ buffer' = [buffer EXCEPT ![c] = @ \cup {q}] /\ UNCHANGED faults
       \/ UNCHANGED buffer /\ Error
    /\ UNCHANGED <<due, shown, click, stream, told, document, cluster>>

Turn(w, c, q) ==
    /\ NextOf(Idle, w) /\ lock = None /\ c \in up /\ RoutesHere(c)
    /\ task' = [task EXCEPT ![w] = [core |-> c, click |-> None, rec |-> None, at |-> "run", next |-> "done"]]
    /\ lock' = w /\ Asks(c, q)

AsksAgain(w, q) == At(w, "run") /\ Asks(task[w].core, q) /\ UNCHANGED <<task, lock>>

\* XREADGROUP or XAUTOCLAIM; the agent's stream is read by its owner.
Claim(w, c, k) ==
    /\ NextOf(Idle, w) /\ c \in up /\ k \in pel
    /\ k \in routed => owner = c
    /\ IF \E v \in Workers : task[v] # None /\ task[v].click = k
         THEN Disturbed /\ slow' = slow + 1 ELSE UNCHANGED slow
    /\ task' = [task EXCEPT ![w] = [core |-> c, click |-> k, rec |-> None, at |-> "lock", next |-> "done"]]
    /\ UNCHANGED <<records, cards, stream, told, document, lock, cluster, timeouts, errors, lapses>>

\* The session lock, and the owner's key: another core's agent is passed on, unless
\* the key cannot be read.
Lock(w) ==
    /\ At(w, "lock") /\ lock = None
    /\ \/ RoutesHere(task[w].core) /\ lock' = w /\ Moves(w, "get") /\ UNCHANGED <<routed, faults>>
       \/ ~RoutesHere(task[w].core) /\ Ends(w) /\ routed' = routed \cup {task[w].click} /\ UNCHANGED faults
       \/ ~RoutesHere(task[w].core) /\ lock' = w /\ Moves(w, "get") /\ UNCHANGED routed /\ Error
    /\ UNCHANGED <<records, cards, pel, told, document, cluster>>

MutGiveUp(w) ==
    /\ At(w, "lock") /\ lock # None /\ Ends(w) /\ pel' = pel \ {task[w].click}
    /\ UNCHANGED <<records, cards, routed, told, document, cluster, faults>>
GiveUp(w) ==
    /\ At(w, "lock") /\ lock # None /\ Ends(w)
    /\ UNCHANGED <<records, cards, stream, told, document, cluster, faults>>

-----------------------------------------------------------------------------
(* resume_formfill *)

MutOpen(q) == status[q] # "none"
Open(q) == status[q] = "pending" /\ q \notin due

\* The record under the click's token, which expires here if it is due; a choice
\* that cancels it, none, or one that has to be applied.
Get(w) ==
    LET c == task[w].core
        choice == click[task[w].click]
        found == Recs(c, TokenOf[choice.card]) IN
    /\ At(w, "get")
    /\ \/ /\ \A q \in found : ~Open(q)
          /\ Tell(w, IF found = {} THEN "unknown" ELSE "handled") /\ Moves(w, "ack")
          /\ status' = [q \in Questions |->
                           IF q \in found /\ status[q] = "pending" THEN "expired" ELSE status[q]]
       \/ \E q \in found :
             /\ Open(q)
             /\ \/ /\ choice.action = "cancel"
                   /\ status' = Updated(c, TokenOf[choice.card], "cancelled")
                   /\ task' = [task EXCEPT ![w].at = "save", ![w].next = "cancelled"]
                   /\ UNCHANGED told
                \/ choice.action = "none" /\ Tell(w, "other") /\ Moves(w, "ack") /\ UNCHANGED status
                \/ /\ choice.action = "confirm"
                   /\ task' = [task EXCEPT ![w].at = "apply", ![w].rec = q]
                   /\ UNCHANGED <<status, told>>
    /\ UNCHANGED <<at, due, cards, stream, document, lock, cluster, faults>>

Written(w) ==
    LET q == task[w].rec IN
    /\ written' = [written EXCEPT ![q] = @ \cup {click[task[w].click].card}]
    /\ writes' = [writes EXCEPT ![q] = @ + 1]

\* submit_formfill_apply.  The BFF reports an error also when the document's service
\* did not answer it in time; without an answer of the BFF the record stays open.
Apply(w) ==
    /\ At(w, "apply")
    /\ \/ Written(w) /\ task' = [task EXCEPT ![w].at = "mark", ![w].next = "done"] /\ UNCHANGED <<told, faults>>
       \/ /\ Written(w) \/ UNCHANGED document
          /\ task' = [task EXCEPT ![w].at = "mark", ![w].next = "failed"] /\ UNCHANGED <<told, faults>>
       \/ /\ Written(w) \/ UNCHANGED document
          /\ Tell(w, "other") /\ Moves(w, "ack") /\ Timeout
    /\ UNCHANGED <<records, cards, stream, lock, cluster>>

Mark(w) ==
    /\ At(w, "mark") /\ Moves(w, "save")
    /\ status' = Updated(task[w].core, TokenOf[click[task[w].click].card],
                         IF task[w].next = "done" THEN "applied" ELSE "expired")
    /\ UNCHANGED <<at, due, cards, stream, told, document, lock, cluster, faults>>

\* The session is saved; what was applied goes on as a message to the agent.
Save(w) ==
    /\ At(w, "save")
    /\ \/ task[w].next = "done" /\ Moves(w, "run") /\ UNCHANGED <<told, lock, faults>>
       \/ task[w].next # "done" /\ Tell(w, "other") /\ Moves(w, "ack") /\ UNCHANGED <<lock, faults>>
       \/ Ends(w) /\ UNCHANGED told /\ Error
    /\ UNCHANGED <<records, cards, stream, document, cluster>>

-----------------------------------------------------------------------------
(* The end of a run, and of a handler *)

Drained(c) == shown' = shown \cup buffer[c] /\ buffer' = [buffer EXCEPT ![c] = {}]

\* The cards go out with the run's last events.  After the run for a click,
\* _run_formfill_and_publish uses two names it does not have: the handler raises and
\* does not acknowledge.
EndRun(w) ==
    /\ At(w, "run") /\ Drained(task[w].core) /\ Ends(w)
    /\ IF task[w].click = None THEN UNCHANGED told ELSE Tell(w, "done")
    /\ UNCHANGED <<records, click, stream, document, cluster, faults>>

\* A run that fails or takes too long leaves its cards in the buffer.
RunFails(w) ==
    /\ At(w, "run") /\ Error
    /\ IF task[w].click = None THEN Ends(w) /\ UNCHANGED told
                               ELSE Tell(w, "other") /\ Moves(w, "ack") /\ UNCHANGED lock
    /\ UNCHANGED <<records, cards, stream, document, cluster>>

Ack(w) ==
    /\ At(w, "ack") /\ Ends(w)
    /\ \/ pel' = pel \ {task[w].click} /\ UNCHANGED faults
       \/ pel' = pel /\ Error
    /\ UNCHANGED <<records, cards, routed, told, document, cluster>>

-----------------------------------------------------------------------------
(* The user, time, and the cluster *)

Press(k, q, action) ==
    /\ NextOf({j \in Clicks : click[j] = None}, k) /\ q \in shown
    /\ click' = [click EXCEPT ![k] = [card |-> q, action |-> action]]
    /\ pel' = pel \cup {k}
    /\ UNCHANGED <<records, buffer, shown, routed, told, document, task, lock, cluster, faults>>

TimePasses(q) ==
    /\ status[q] = "pending" /\ at[q] # None /\ q \notin due /\ Disturbed /\ due' = due \cup {q}
    /\ UNCHANGED <<status, at, cards, stream, told, document, task, lock, cluster, faults>>

LockLapses ==
    /\ lock # None /\ lock' = None /\ Disturbed /\ lapses' = lapses + 1
    /\ UNCHANGED <<records, cards, stream, told, document, task, cluster, timeouts, errors, slow>>

\* The owner's key lapses or is released; a core claims it.
Disowned ==
    /\ owner # None /\ owner' = None /\ Disturbed /\ moves' = moves + 1
    /\ UNCHANGED <<records, cards, stream, told, document, task, lock, up, downs, faults>>

Owned ==
    /\ owner = None /\ owner' \in up
    /\ UNCHANGED <<records, cards, stream, told, document, task, lock, up, moves, downs, faults>>

Crash(c) ==
    /\ c \in up /\ up # {c} /\ up' = up \ {c} /\ Disturbed /\ downs' = downs + 1
    /\ at' = [q \in Questions |-> IF at[q] = c THEN None ELSE at[q]]
    /\ buffer' = [buffer EXCEPT ![c] = {}]
    /\ task' = [w \in Workers |-> IF task[w] # None /\ task[w].core = c THEN None ELSE task[w]]
    /\ lock' = IF lock # None /\ task'[lock] = None THEN None ELSE lock
    /\ owner' = IF owner = c THEN None ELSE owner
    /\ UNCHANGED <<status, due, shown, click, stream, told, document, moves, faults>>

-----------------------------------------------------------------------------

Step(w) ==
    \/ Lock(w) \/ GiveUp(w) \/ Get(w) \/ Apply(w) \/ Mark(w) \/ Save(w) \/ EndRun(w) \/ Ack(w)

Next ==
    \/ \E w \in Workers :
          \/ Step(w) \/ RunFails(w)
          \/ \E q \in Questions : AsksAgain(w, q) \/ \E c \in Cores : Turn(w, c, q)
          \/ \E c \in Cores, k \in Clicks : Claim(w, c, k)
    \/ \E k \in Clicks, q \in Questions, action \in Action : Press(k, q, action)
    \/ \E q \in Questions : TimePasses(q)
    \/ \E c \in Cores : Crash(c)
    \/ LockLapses \/ Disowned \/ Owned

Spec == Init /\ [][Next]_vars

\* Handlers go on (every call of theirs has a timeout), the reclaim loop hands out
\* what is pending, and the resync loop claims agents that nobody owns.
FairSpec ==
    /\ Spec
    /\ \A w \in Workers : WF_vars(Step(w))
    /\ \A k \in Clicks : WF_vars(\E w \in Workers, c \in Cores : Claim(w, c, k))
    /\ WF_vars(Owned)

-----------------------------------------------------------------------------
(* Properties *)

\* However often the user clicks and messages come again, a question is written once,
\* but for calls of apply without an answer, after which it may be answered again, and
\* lost session locks.
WritesHaveCauses == \A q \in Questions : writes[q] <= 1 + timeouts + lapses

\* A question that was cancelled, has expired or is applied is not written any more
\* (resume_formfill: "already handled"), unless a session lock was lost.
ResolvedIsFinal ==
    [][\A q \in Questions : status[q] \in {"cancelled", "applied", "expired"} /\ lapses = 0
          => writes'[q] = writes[q]]_vars

\* The record waits in one core's memory: the user has to start again only after the
\* agent's owner changed, a core went down or an owner could not be read.
UnknownHasCause ==
    \A k \in Clicks : "unknown" \in told[k] => moves + downs + errors > 0

\* Every click is answered, and is not handed out for ever: again and again there is
\* nothing left to do.
ClicksAnswered == []<>(pel = {} /\ \A k \in Clicks : click[k] # None => told[k] # {})

\* What was offered for one field is written to this field: the resume token tells
\* questions apart (docs/ai-skill-agent-integration-design.md:157).  Does not hold: the
\* engine gives no token, and all questions of a session and skill have the same.
CardMeansQuestion == \A q \in Questions : written[q] \subseteq {q}

\* Success is acknowledged (inbound_worker.py:512): a click that was carried out is not
\* handed out again.  Does not hold.
AckedOnSuccess == \A k \in Clicks : ~("done" \in told[k] /\ "handled" \in told[k])

=============================================================================
