--------------------------- MODULE FormFillProofs ---------------------------
(***************************************************************************)
(* Proofs about FormFill.tla, for any cores, questions, tokens, clicks,    *)
(* handlers and faults.                                                    *)
(*                                                                         *)
(* WritesHaveCauses is not inductive: a question that is written once may  *)
(* still be open, and several handlers may be on their way to it.  Few(q)  *)
(* adds to its writes those that may come: one of every handler that lost  *)
(* the session lock and can still write, and one more as long as the       *)
(* question is open or the lock's holder is about to write it, but not     *)
(* while the holder has written it and is about to mark it.  A write, with *)
(* an answer or without, uses one of these up or is paid for; a lock that  *)
(* lapses turns its holder into one that lost it.                          *)
(***************************************************************************)
EXTENDS FormFill, FiniteSetTheorems, TLAPS

Asked(q) == status[q] # "none"

\* A handler has a click once it is past its agent run, the click's card was asked, and
\* what it is about to write or mark is a question of that card's token.
TaskOK(w) ==
    task[w] # None =>
        LET k == task[w].click
            q == task[w].rec IN
        /\ k = None => task[w].at = "run"
        /\ k # None => click[k] # None
        /\ task[w].at \in {"apply", "mark"} =>
              /\ q \in Questions /\ Asked(q) /\ at[q] \in {task[w].core, None}
              /\ TokenOf[q] = TokenOf[click[k].card]

LockOK == lock # None => task[lock] # None /\ task[lock].at # "lock"

CardsOK ==
    /\ \A k \in pel : click[k] # None
    /\ \A k \in Clicks : click[k] # None => Asked(click[k].card)
    /\ \A q \in shown : Asked(q)
    /\ \A c \in Cores : \A q \in buffer[c] : Asked(q)

Shape ==
    /\ TypeOK /\ IsFiniteSet(due)
    /\ \A w \in Workers : TaskOK(w)
    /\ LockOK /\ CardsOK

\* While nothing went wrong with the owner, a core or a read of the owner's key, the
\* owner has a record under the token of every question, and the work.
Calm ==
    moves + downs + errors = 0 =>
        /\ owner \in Cores
        /\ \A q \in Questions : Asked(q) => Recs(owner, TokenOf[q]) # {}
        /\ \A w \in Workers : task[w] # None /\ task[w].at # "lock" => task[w].core = owner
        /\ \A k \in Clicks : "unknown" \notin told[k]

\* While no session lock was lost, one handler is at work, and what it is about to write
\* is open.
Exclusive ==
    lapses = 0 => \A w \in Workers :
        task[w] # None /\ task[w].at # "lock" =>
            /\ w = lock
            /\ task[w].at = "apply" => status[task[w].rec] = "pending"

Strays(q) ==
    {w \in Workers \ {lock} : At(w, "get") \/ (At(w, "apply") /\ task[w].rec = q)}

\* Not asked yet, or open in the store of a core.
StillOpen(q) == status[q] = "none" \/ (at[q] # None /\ status[q] = "pending")

HolderIs(stage, q) == lock # None /\ At(lock, stage) /\ task[lock].rec = q

MayBeWritten(q) == HolderIs("apply", q) \/ (StillOpen(q) /\ ~HolderIs("mark", q))

Few(q) ==
    /\ IsFiniteSet(Strays(q))
    /\ writes[q] + Cardinality(Strays(q)) + (IF MayBeWritten(q) THEN 1 ELSE 0)
          <= 1 + timeouts + lapses

IInv == Shape /\ Calm /\ Exclusive /\ \A q \in Questions : Few(q)

-----------------------------------------------------------------------------
(* Types *)

LEMMA InitTypes == Init => TypeOK /\ IsFiniteSet(due)
    BY NoneAssumption, BoundAssumption, FS_EmptySet
    DEF Init, TypeOK, Status, Reply, NextOf

\* A disturbance is counted, and there was room for one.
LEMMA RoomToDisturb ==
    ASSUME TypeOK, IsFiniteSet(due), Disturbed
    PROVE  {timeouts + 1, errors + 1, moves + 1, downs + 1, lapses + 1, slow + 1}
              \subseteq 0..MaxFaults
<1>1. Cardinality(due) \in Nat
    BY FS_CardinalityType
<1>2. QED
    BY <1>1, BoundAssumption DEF TypeOK, Disturbed

LEMMA FaultTypes ==
    ASSUME TypeOK, IsFiniteSet(due), Error \/ Timeout \/ UNCHANGED faults
    PROVE  {timeouts', errors', lapses', slow'} \subseteq 0..MaxFaults
    BY RoomToDisturb DEF Error, Timeout, faults, TypeOK

LEMMA StoredType ==
    ASSUME TypeOK, NEW c \in Cores, NEW q \in Questions
    PROVE  Stored(c, q) \in [Questions -> Cores \cup {None}]
    BY DEF Stored, TypeOK

LEMMA UpdatedType ==
    ASSUME TypeOK, NEW c \in Cores, NEW token, NEW new \in Status
    PROVE  Updated(c, token, new) \in [Questions -> Status]
    BY DEF Updated, TypeOK

LEMMA AsksTypes ==
    ASSUME TypeOK, IsFiniteSet(due), NEW c \in Cores, NEW q \in Questions, Asks(c, q)
    PROVE  /\ status' \in [Questions -> Status] /\ at' \in [Questions -> Cores \cup {None}]
           /\ buffer' \in [Cores -> SUBSET Questions]
           /\ {timeouts', errors', lapses', slow'} \subseteq 0..MaxFaults
           /\ UNCHANGED <<due, shown, click, stream, told, document, cluster>>
<1>1. {timeouts', errors', lapses', slow'} \subseteq 0..MaxFaults
    BY FaultTypes DEF Asks
<1>2. q \in Questions /\ buffer' \in [Cores -> SUBSET Questions]
    BY DEF Asks, TypeOK
<1>3. status' \in [Questions -> Status] /\ at' \in [Questions -> Cores \cup {None}]
    BY StoredType DEF Asks, TypeOK, Status
<1>4. QED
    BY <1>1, <1>2, <1>3 DEF Asks

LEMMA TypesKept ==
    ASSUME Shape, [Next]_vars PROVE TypeOK' /\ IsFiniteSet(due)'
<1> USE DEF Shape
<1>1. ASSUME NEW w \in Workers, Lock(w) PROVE TypeOK' /\ IsFiniteSet(due)'
    <2>1. {timeouts', errors', lapses', slow'} \subseteq 0..MaxFaults
        BY <1>1, FaultTypes DEF Lock
    <2>2. task' \in [Workers -> Task \cup {None}] /\ lock' \in Workers \cup {None}
        BY <1>1 DEF Lock, Ends, Moves, At, TypeOK, Task
    <2>3. routed' \subseteq Clicks
        BY <1>1 DEF Lock, At, TaskOK, TypeOK, Task
    <2>4. QED
        BY <1>1, <2>1, <2>2, <2>3 DEF Lock, TypeOK, records, cards, document, cluster
<1>2. ASSUME NEW w \in Workers, GiveUp(w) PROVE TypeOK' /\ IsFiniteSet(due)'
    BY <1>2 DEF GiveUp, Ends, TypeOK, records, cards, stream, document, cluster, faults
<1>3. ASSUME NEW w \in Workers, Get(w) PROVE TypeOK' /\ IsFiniteSet(due)'
    <2>1. task[w].core \in Cores
        BY <1>3 DEF Get, At, TypeOK, Task
    <2>2. status' \in [Questions -> Status]
        BY <1>3, <2>1, UpdatedType DEF Get, TypeOK, Status
    <2>3. task' \in [Workers -> Task \cup {None}]
        BY <1>3 DEF Get, Moves, At, TypeOK, Task, Recs
    <2>4. told' \in [Clicks -> SUBSET Reply]
        BY <1>3 DEF Get, Tell, TypeOK, Reply
    <2>5. QED
        BY <1>3, <2>2, <2>3, <2>4 DEF Get, TypeOK, cards, stream, document, cluster, faults
<1>4. ASSUME NEW w \in Workers, Apply(w) PROVE TypeOK' /\ IsFiniteSet(due)'
    <2>1. {timeouts', errors', lapses', slow'} \subseteq 0..MaxFaults
        BY <1>4, FaultTypes DEF Apply
    <2>2. task' \in [Workers -> Task \cup {None}] /\ told' \in [Clicks -> SUBSET Reply]
        BY <1>4 DEF Apply, Tell, Moves, At, TypeOK, Task, Reply
    <2>3. task[w].rec \in Questions /\ click[task[w].click].card \in Questions
        BY <1>4 DEF Apply, At, TaskOK, TypeOK, Task, Choice
    <2>4. written' \in [Questions -> SUBSET Questions] /\ writes' \in [Questions -> Nat]
        BY <1>4, <2>3 DEF Apply, Written, TypeOK, document
    <2>5. QED
        BY <1>4, <2>1, <2>2, <2>4 DEF Apply, TypeOK, records, cards, stream, cluster
<1>5. ASSUME NEW w \in Workers, Mark(w) PROVE TypeOK' /\ IsFiniteSet(due)'
    BY <1>5, UpdatedType
    DEF Mark, Moves, At, TypeOK, Task, Status, cards, stream, document, cluster, faults
<1>6. ASSUME NEW w \in Workers, Save(w) PROVE TypeOK' /\ IsFiniteSet(due)'
    BY <1>6, RoomToDisturb
    DEF Save, Tell, Ends, Moves, At, Error, TypeOK, Task, Reply, records, cards, stream, document,
        cluster, faults
<1>7. ASSUME NEW w \in Workers, EndRun(w) PROVE TypeOK' /\ IsFiniteSet(due)'
    BY <1>7
    DEF EndRun, Drained, Tell, Ends, At, TypeOK, Task, Reply, records, stream, document, cluster, faults
<1>8. ASSUME NEW w \in Workers, RunFails(w) PROVE TypeOK' /\ IsFiniteSet(due)'
    BY <1>8, RoomToDisturb
    DEF RunFails, Tell, Ends, Moves, At, Error, TypeOK, Task, Reply, records, cards, stream, document,
        cluster
<1>9. ASSUME NEW w \in Workers, Ack(w) PROVE TypeOK' /\ IsFiniteSet(due)'
    BY <1>9, RoomToDisturb
    DEF Ack, Ends, At, Error, TypeOK, records, cards, document, cluster, faults
<1>10. ASSUME NEW w \in Workers, NEW c \in Cores, NEW q \in Questions, Turn(w, c, q)
       PROVE  TypeOK' /\ IsFiniteSet(due)'
    BY <1>10, AsksTypes
    DEF Turn, NextOf, Idle, TypeOK, Task, stream, document, cluster
<1>11. ASSUME NEW w \in Workers, NEW q \in Questions, AsksAgain(w, q)
       PROVE  TypeOK' /\ IsFiniteSet(due)'
    <2>1. task[w].core \in Cores
        BY <1>11 DEF AsksAgain, At, TypeOK, Task
    <2>2. QED
        BY <1>11, <2>1, AsksTypes DEF AsksAgain, TypeOK, stream, document, cluster
<1>12. ASSUME NEW w \in Workers, NEW c \in Cores, NEW k \in Clicks, Claim(w, c, k)
       PROVE  TypeOK' /\ IsFiniteSet(due)'
    BY <1>12, RoomToDisturb
    DEF Claim, NextOf, Idle, TypeOK, Task, records, cards, stream, document, cluster
<1>13. ASSUME NEW k \in Clicks, NEW q \in Questions, NEW action \in Action, Press(k, q, action)
       PROVE  TypeOK' /\ IsFiniteSet(due)'
    BY <1>13 DEF Press, TypeOK, Choice, records, document, cluster, faults
<1>14. ASSUME NEW q \in Questions, TimePasses(q) PROVE TypeOK' /\ IsFiniteSet(due)'
    BY <1>14, FS_AddElement DEF TimePasses, TypeOK, cards, stream, document, cluster, faults
<1>15. ASSUME NEW c \in Cores, Crash(c) PROVE TypeOK' /\ IsFiniteSet(due)'
    BY <1>15, RoomToDisturb DEF Crash, TypeOK, Task, stream, document, faults
<1>16. CASE LockLapses \/ Disowned \/ Owned
    BY <1>16, RoomToDisturb
    DEF LockLapses, Disowned, Owned, TypeOK, records, cards, stream, document, cluster, faults
<1>17. CASE UNCHANGED vars
    BY <1>17 DEF vars, TypeOK, records, cards, stream, document, cluster, faults
<1>18. QED
    BY <1>1, <1>2, <1>3, <1>4, <1>5, <1>6, <1>7, <1>8, <1>9, <1>10, <1>11, <1>12, <1>13, <1>14,
       <1>15, <1>16, <1>17
    DEF Next, Step

-----------------------------------------------------------------------------
(* What a step leaves alone *)

LEMMA StatusFate ==
    ASSUME Shape, [Next]_vars, NEW q \in Questions, Asked(q)
    PROVE  Asked(q)' /\ (status[q] # "pending" => status'[q] = status[q])
<1> USE DEF Shape, Asked
<1>1. ASSUME NEW w \in Workers, Step(w) PROVE Asked(q)' /\ (status[q] # "pending" => status'[q] = status[q])
    BY <1>1 DEF Step, Lock, GiveUp, Get, Apply, Mark, Save, EndRun, Ack, Updated, records, TypeOK
<1>2. ASSUME NEW c \in Cores, NEW p \in Questions, Asks(c, p)
      PROVE  Asked(q)' /\ (status[q] # "pending" => status'[q] = status[q])
    BY <1>2 DEF Asks, NextOf, TypeOK
<1>3. ASSUME NEW w \in Workers, NEW p \in Questions, AsksAgain(w, p)
      PROVE  Asked(q)' /\ (status[q] # "pending" => status'[q] = status[q])
    <2>1. task[w].core \in Cores
        BY <1>3 DEF AsksAgain, At, TypeOK, Task
    <2>2. QED
        BY <1>2, <1>3, <2>1 DEF AsksAgain
<1>4. QED
    BY <1>1, <1>2, <1>3
    DEF Next, vars, RunFails, Turn, Claim, Press, TimePasses, Crash, LockLapses, Disowned, Owned, records

LEMMA RecordFate ==
    ASSUME Shape, [Next]_vars, NEW q \in Questions, Asked(q)
    PROVE  at'[q] \in {at[q], None}
<1> USE DEF Shape, Asked
<1>1. ASSUME NEW w \in Workers, Step(w) PROVE at'[q] = at[q]
    BY <1>1 DEF Step, Lock, GiveUp, Get, Apply, Mark, Save, EndRun, Ack, records
<1>2. ASSUME NEW c \in Cores, NEW p \in Questions, Asks(c, p) PROVE at'[q] \in {at[q], None}
    BY <1>2 DEF Asks, Stored, NextOf, TypeOK
<1>3. ASSUME NEW c \in Cores, Crash(c) PROVE at'[q] \in {at[q], None}
    BY <1>3 DEF Crash, TypeOK
<1>4. ASSUME NEW w \in Workers, NEW p \in Questions, AsksAgain(w, p) PROVE at'[q] \in {at[q], None}
    <2>1. task[w].core \in Cores
        BY <1>4 DEF AsksAgain, At, TypeOK, Task
    <2>2. QED
        BY <1>2, <1>4, <2>1 DEF AsksAgain
<1>5. QED
    BY <1>1, <1>2, <1>3, <1>4
    DEF Next, vars, RunFails, Turn, Claim, Press, TimePasses, LockLapses, Disowned, Owned, records

LEMMA ClickStays ==
    ASSUME Shape, [Next]_vars, NEW k \in Clicks, click[k] # None
    PROVE  click'[k] = click[k]
<1> USE DEF Shape
<1>1. ASSUME NEW w \in Workers, Step(w) PROVE click' = click
    BY <1>1 DEF Step, Lock, GiveUp, Get, Apply, Mark, Save, EndRun, Ack, cards
<1>2. ASSUME NEW j \in Clicks, NEW q \in Questions, NEW action \in Action, Press(j, q, action)
      PROVE  click'[k] = click[k]
    BY <1>2 DEF Press, NextOf, TypeOK
<1>3. QED
    BY <1>1, <1>2
    DEF Next, vars, RunFails, AsksAgain, Asks, Turn, Claim, TimePasses, Crash, LockLapses, Disowned,
        Owned, cards

LEMMA TaskStays ==
    ASSUME Shape, [Next]_vars, NEW w \in Workers, task'[w] = task[w]
    PROVE  TaskOK(w)'
<1> SUFFICES ASSUME task[w] # None PROVE TaskOK(w)'
    BY DEF TaskOK
<1>1. task[w] \in Task /\ TaskOK(w)
    BY DEF Shape, TypeOK
<1>2. ASSUME task[w].click # None PROVE click'[task[w].click] = click[task[w].click] /\ click[task[w].click] # None
    BY <1>1, <1>2, ClickStays DEF Task, TaskOK
<1>3. ASSUME task[w].at \in {"apply", "mark"}
      PROVE  /\ task[w].rec \in Questions /\ Asked(task[w].rec)'
             /\ at'[task[w].rec] \in {task[w].core, None}
             /\ TokenOf[task[w].rec] = TokenOf[click[task[w].click].card]
    BY <1>1, <1>3, StatusFate, RecordFate DEF TaskOK
<1>4. QED
    BY <1>1, <1>2, <1>3, NoneAssumption DEF TaskOK, Task

LEMMA TasksKept ==
    ASSUME Shape, [Next]_vars, NEW w \in Workers
    PROVE  TaskOK(w)'
<1> SUFFICES ASSUME task'[w] # None, task'[w] # task[w] PROVE TaskOK(w)'
    BY TaskStays DEF TaskOK
<1> USE DEF Shape
<1>1. task[w] \in Task \cup {None} /\ TaskOK(w)
    BY DEF TypeOK
<1>2. ASSUME task[w] # None, task[w].click # None
      PROVE  /\ click[task[w].click] # None
             /\ click'[task[w].click] = click[task[w].click]
             /\ Asked(click[task[w].click].card)
    BY <1>1, <1>2, ClickStays DEF Task, TaskOK, CardsOK
<1>3. ASSUME NEW v \in Workers, Lock(v) \/ GiveUp(v) \/ Save(v) \/ EndRun(v) \/ RunFails(v) \/ Ack(v)
      PROVE  TaskOK(w)'
    <2>1. /\ v = w /\ task[w] # None /\ task'[w].click = task[w].click
          /\ task'[w].at \notin {"apply", "mark"} /\ (task'[w].at # "run" => task[w].click # None)
        BY <1>3, <1>1
        DEF Lock, GiveUp, Save, EndRun, RunFails, Ack, Ends, Moves, At, TypeOK, Task, TaskOK
    <2>2. QED
        BY <2>1, <1>2 DEF TaskOK
<1>4. ASSUME NEW v \in Workers, Get(v) PROVE TaskOK(w)'
    <2>1. /\ v = w /\ task[w] # None /\ task[w].click # None /\ task'[w].click = task[w].click
          /\ task'[w].core = task[w].core /\ task'[w].at # "mark" /\ task'[w].at # "run"
        BY <1>4, <1>1 DEF Get, Moves, At, TypeOK, Task, TaskOK
    <2>5. task'[w].at = "apply" =>
             /\ task'[w].rec \in Recs(task[w].core, TokenOf[click[task[w].click].card])
             /\ status[task'[w].rec] = "pending"
        BY SMTT(40), <1>4, <1>1, <2>1 DEF Get, Open, Moves, At, TypeOK, Task
    <2>2. at' = at
        BY <1>4 DEF Get
    <2>3. ASSUME task'[w].at = "apply"
          PROVE  /\ task'[w].rec \in Questions /\ status'[task'[w].rec] # "none"
                 /\ at'[task'[w].rec] = task'[w].core
                 /\ TokenOf[task'[w].rec] = TokenOf[click'[task'[w].click].card]
        BY <2>1, <2>2, <2>3, <2>5, <1>2, StatusFate DEF Recs, Asked
    <2>4. QED
        BY <2>1, <2>3, <1>2 DEF TaskOK, Asked
<1>5. ASSUME NEW v \in Workers, Apply(v) PROVE TaskOK(w)'
    <2>1. /\ v = w /\ At(w, "apply") /\ task'[w].click = task[w].click /\ task'[w].core = task[w].core
          /\ task'[w].rec = task[w].rec /\ task[w].click # None
        BY <1>5, <1>1 DEF Apply, Moves, At, TypeOK, Task, TaskOK
    <2>2. /\ task[w].rec \in Questions /\ Asked(task[w].rec)' /\ at'[task[w].rec] \in {task[w].core, None}
        BY <2>1, <1>1, StatusFate, RecordFate DEF TaskOK, At
    <2>3. QED
        BY <2>1, <2>2, <1>1, <1>2 DEF TaskOK, At
<1>6. ASSUME NEW v \in Workers, Mark(v) PROVE TaskOK(w)'
    BY <1>6, <1>1, <1>2 DEF Mark, Moves, At, TypeOK, Task, TaskOK
<1>7. ASSUME NEW v \in Workers, NEW c \in Cores, NEW q \in Questions, Turn(v, c, q) PROVE TaskOK(w)'
    <2>1. task'[w].click = None /\ task'[w].at = "run"
        BY <1>7 DEF Turn, TypeOK
    <2>2. QED
        BY <2>1 DEF TaskOK
<1>8. ASSUME NEW v \in Workers, NEW c \in Cores, NEW k \in Clicks, Claim(v, c, k) PROVE TaskOK(w)'
    <2>1. task'[w].click = k /\ task'[w].at = "lock" /\ k \in pel
        BY <1>8 DEF Claim, TypeOK
    <2>2. k # None /\ click'[k] # None
        BY <2>1, ClickStays, NoneAssumption DEF CardsOK
    <2>3. QED
        BY <2>1, <2>2 DEF TaskOK
<1>9. ASSUME NEW c \in Cores, Crash(c) PROVE FALSE
    BY <1>9 DEF Crash, TypeOK
<1>10. QED
    BY <1>3, <1>4, <1>5, <1>6, <1>7, <1>8, <1>9
    DEF Next, Step, vars, AsksAgain, Press, TimePasses, LockLapses, Disowned, Owned

LEMMA LockKept == ASSUME Shape, [Next]_vars PROVE LockOK'
<1> USE DEF Shape, LockOK
<1>1. ASSUME NEW w \in Workers, Ends(w) PROVE LockOK'
    BY <1>1 DEF Ends, TypeOK
<1>2. ASSUME NEW w \in Workers, task'[w] \in Task, task'[w].at # "lock", lock' \in {lock, w},
             \A v \in Workers \ {w} : task'[v] = task[v]
      PROVE  LockOK'
    BY <1>2, RecordAssumption DEF TypeOK
<1>3. ASSUME NEW w \in Workers, Lock(w) PROVE LockOK'
    BY <1>1, <1>2, <1>3 DEF Lock, Moves, At, TypeOK, Task
<1>4. ASSUME NEW w \in Workers, Get(w) PROVE LockOK'
    <2>1. /\ task'[w] \in Task /\ task'[w].at # "lock" /\ lock' = lock
          /\ \A v \in Workers \ {w} : task'[v] = task[v]
        BY <1>4 DEF Get, Recs, Moves, At, TypeOK, Task
    <2>2. QED
        BY <1>2, <2>1
<1>5. ASSUME NEW w \in Workers, Apply(w) \/ Mark(w) PROVE LockOK'
    <2>1. /\ task'[w] \in Task /\ task'[w].at # "lock" /\ lock' = lock
          /\ \A v \in Workers \ {w} : task'[v] = task[v]
        BY <1>5 DEF Apply, Mark, Moves, At, TypeOK, Task
    <2>2. QED
        BY <1>2, <2>1
<1>6. ASSUME NEW w \in Workers, Save(w) \/ RunFails(w), ~Ends(w) PROVE LockOK'
    <2>1. /\ task'[w] \in Task /\ task'[w].at # "lock" /\ lock' = lock
          /\ \A v \in Workers \ {w} : task'[v] = task[v]
        BY <1>6 DEF Save, RunFails, Moves, At, TypeOK, Task
    <2>2. QED
        BY <1>2, <2>1
<1>7. ASSUME NEW w \in Workers, NEW c \in Cores, NEW q \in Questions, Turn(w, c, q) PROVE LockOK'
    <2>1. task[w] = None /\ lock' = w /\ task'[w] \in Task /\ task'[w].at = "run"
        BY <1>7 DEF Turn, NextOf, Idle, RoutesHere, TypeOK, Task
    <2>2. QED
        BY <2>1, RecordAssumption
<1>8. ASSUME NEW w \in Workers, NEW c \in Cores, NEW k \in Clicks, Claim(w, c, k) PROVE LockOK'
    BY <1>8 DEF Claim, NextOf, Idle, TypeOK
<1>9. ASSUME NEW c \in Cores, Crash(c) PROVE LockOK'
    BY <1>9 DEF Crash, TypeOK
<1>10. QED
    BY <1>1, <1>3, <1>4, <1>5, <1>6, <1>7, <1>8, <1>9
    DEF Next, Step, vars, GiveUp, EndRun, Ack, AsksAgain, Press, TimePasses, LockLapses, Disowned, Owned

LEMMA CardsKept == ASSUME Shape, [Next]_vars PROVE CardsOK'
<1> USE DEF Shape, CardsOK
<1>1. ASSUME NEW c \in Cores, NEW q \in Questions, q \in buffer'[c] PROVE Asked(q)'
    <2>1. CASE q \in buffer[c]
        BY <2>1, StatusFate
    <2>2. CASE q \notin buffer[c]
        <3>1. PICK w \in Workers, p \in Questions, d \in Cores : Turn(w, d, p) \/ AsksAgain(w, p)
            BY ZenonT(60), <1>1, <2>2
            DEF Next, Step, vars, Lock, GiveUp, Get, Apply, Mark, Save, EndRun, RunFails, Ack, Claim, Press,
                TimePasses, Crash, LockLapses, Disowned, Owned, Drained, cards, TypeOK
        <3>2. status' = [status EXCEPT ![p] = "pending"] /\ q = p
            BY <1>1, <2>2, <3>1 DEF Turn, AsksAgain, Asks, cards, TypeOK
        <3>3. QED
            BY <3>2 DEF Asked, TypeOK
    <2>3. QED
        BY <2>1, <2>2
<1>2. ASSUME NEW q \in Questions, q \in shown' PROVE Asked(q)'
    <2>1. CASE shown' = shown
        BY <1>2, <2>1, StatusFate
    <2>2. CASE shown' # shown
        <3>1. PICK w \in Workers : EndRun(w)
            BY ZenonT(60), <2>2
            DEF Next, Step, vars, Lock, GiveUp, Get, Apply, Mark, Save, RunFails, Ack, Claim, Press,
                TimePasses, Crash, LockLapses, Disowned, Owned, Turn, AsksAgain, Asks, cards
        <3>2. task[w].core \in Cores
            BY <3>1 DEF EndRun, At, TypeOK, Task
        <3>3. q \in shown \/ q \in buffer[task[w].core]
            BY <1>2, <3>1 DEF EndRun, Drained
        <3>4. QED
            BY <3>2, <3>3, StatusFate
    <2>3. QED
        BY <2>1, <2>2
<1>3. ASSUME NEW k \in Clicks, click'[k] # None PROVE status'[click'[k].card] # "none"
    <2>1. CASE click[k] # None
        <3>1. click[k].card \in Questions
            BY <2>1 DEF TypeOK, Choice
        <3>2. QED
            BY <2>1, <3>1, ClickStays, StatusFate DEF Asked
    <2>2. CASE click[k] = None
        <3>1. PICK j \in Clicks, q \in Questions, action \in Action : Press(j, q, action)
            BY ZenonT(60), <1>3, <2>2
            DEF Next, Step, vars, Lock, GiveUp, Get, Apply, Mark, Save, EndRun, RunFails, Ack, Claim,
                TimePasses, Crash, LockLapses, Disowned, Owned, Turn, AsksAgain, Asks, cards
        <3>2. click'[k].card = q /\ q \in shown
            BY <1>3, <2>2, <3>1 DEF Press, TypeOK
        <3>3. QED
            BY <3>2, StatusFate DEF Asked
    <2>3. QED
        BY <2>1, <2>2
<1>4. ASSUME NEW k \in Clicks, k \in pel' PROVE click'[k] # None
    <2>1. CASE k \in pel
        BY <2>1, ClickStays
    <2>2. CASE k \notin pel
        <3>1. PICK j \in Clicks, q \in Questions, action \in Action : Press(j, q, action)
            BY ZenonT(60), <1>4, <2>2
            DEF Next, Step, vars, Lock, GiveUp, Get, Apply, Mark, Save, EndRun, RunFails, Ack, Claim,
                TimePasses, Crash, LockLapses, Disowned, Owned, Turn, AsksAgain, Asks, stream
        <3>2. j = k /\ click'[k] = [card |-> q, action |-> action]
            BY <1>4, <2>2, <3>1 DEF Press, TypeOK
        <3>3. QED
            BY <3>2, RecordAssumption DEF Choice
    <2>3. QED
        BY <2>1, <2>2
<1>5. pel' \subseteq Clicks /\ shown' \subseteq Questions /\ buffer' \in [Cores -> SUBSET Questions]
    BY TypesKept DEF TypeOK
<1>6. QED
    BY <1>1, <1>2, <1>3, <1>4, <1>5 DEF Asked

LEMMA ShapeKept == ASSUME Shape, [Next]_vars PROVE Shape'
    BY TypesKept, TasksKept, LockKept, CardsKept DEF Shape

-----------------------------------------------------------------------------
(* UnknownHasCause *)

LEMMA CountersGrow ==
    ASSUME Shape, [Next]_vars
    PROVE  /\ moves' \in {moves, moves + 1} /\ downs' \in {downs, downs + 1}
           /\ errors' \in {errors, errors + 1} /\ timeouts' \in {timeouts, timeouts + 1}
           /\ lapses' \in {lapses, lapses + 1}
           /\ {moves, downs, errors, timeouts, lapses} \subseteq Nat
<1>1. {moves, downs, errors, timeouts, lapses} \subseteq Nat
    BY BoundAssumption DEF Shape, TypeOK
<1>2. ASSUME NEW w \in Workers, Step(w) \/ RunFails(w)
      PROVE  /\ UNCHANGED <<moves, downs, lapses>>
             /\ errors' \in {errors, errors + 1} /\ timeouts' \in {timeouts, timeouts + 1}
    BY <1>2
    DEF Step, Lock, GiveUp, Get, Apply, Mark, Save, EndRun, RunFails, Ack, Error, Timeout, cluster, faults
<1>3. ASSUME NEW c \in Cores, NEW q \in Questions, Asks(c, q)
      PROVE  UNCHANGED <<moves, downs, lapses, timeouts>> /\ errors' \in {errors, errors + 1}
    BY <1>3 DEF Asks, Error, cluster, faults
<1>4. ASSUME NEW w \in Workers, NEW q \in Questions, AsksAgain(w, q)
      PROVE  UNCHANGED <<moves, downs, lapses, timeouts>> /\ errors' \in {errors, errors + 1}
    BY <1>4 DEF AsksAgain, Asks, Error, cluster, faults
<1>5. QED
    BY <1>1, <1>2, <1>3, <1>4
    DEF Next, vars, Turn, Claim, Press, TimePasses, Crash, LockLapses, Disowned, Owned, cluster, faults

LEMMA AskedByStep ==
    ASSUME Shape, [Next]_vars, NEW q \in Questions, ~Asked(q), Asked(q)'
    PROVE  \E w \in Workers, c \in Cores : Turn(w, c, q) \/ (AsksAgain(w, q) /\ c = task[w].core)
<1> USE DEF Shape, Asked
<1>1. ASSUME NEW w \in Workers, Step(w) PROVE FALSE
    BY <1>1 DEF Step, Lock, GiveUp, Get, Apply, Mark, Save, EndRun, Ack, Updated, records, TypeOK
<1>2. PICK w \in Workers, p \in Questions : AsksAgain(w, p) \/ \E c \in Cores : Turn(w, c, p)
    BY <1>1
    DEF Next, vars, RunFails, Claim, Press, TimePasses, Crash, LockLapses, Disowned, Owned, records
<1>3. p = q
    BY <1>2 DEF Turn, AsksAgain, Asks, TypeOK
<1>4. ASSUME AsksAgain(w, q) PROVE task[w].core \in Cores
    BY <1>4 DEF AsksAgain, At, TypeOK, Task
<1>5. QED
    BY <1>2, <1>3, <1>4

LEMMA CalmKept == ASSUME Shape, Calm, [Next]_vars PROVE Calm'
<1> SUFFICES ASSUME moves' + downs' + errors' = 0
             PROVE  /\ owner' \in Cores
                    /\ \A q \in Questions : Asked(q)' => Recs(owner, TokenOf[q])' # {}
                    /\ \A w \in Workers : task'[w] # None /\ task'[w].at # "lock" => task'[w].core = owner'
                    /\ \A k \in Clicks : "unknown" \notin told'[k]
    BY DEF Calm
<1>1. moves + downs + errors = 0 /\ UNCHANGED <<moves, downs, errors>> /\ ~Error
    BY CountersGrow DEF Error
<1>2. /\ owner \in Cores
      /\ \A q \in Questions : Asked(q) => Recs(owner, TokenOf[q]) # {}
      /\ \A w \in Workers : task[w] # None /\ task[w].at # "lock" => task[w].core = owner
      /\ \A k \in Clicks : "unknown" \notin told[k]
    BY <1>1 DEF Calm
<1>3. \A c \in Cores : ~Crash(c)
    BY <1>1, CountersGrow DEF Crash
<1>4. owner' = owner
    <2>1. ~Disowned
        BY <1>1, CountersGrow DEF Disowned
    <2>2. ~Owned
        BY <1>2, NoneAssumption DEF Owned
    <2>3. QED
        BY ZenonT(60), <2>1, <2>2, <1>3
        DEF Next, vars, Step, Lock, GiveUp, Get, Apply, Mark, Save, EndRun, RunFails, Ack, Turn, AsksAgain,
            Asks, Claim, Press, TimePasses, LockLapses, cluster
<1>5. \A c \in Cores : RoutesHere(c) => c = owner
    BY <1>2, NoneAssumption DEF RoutesHere
<1>6. ASSUME NEW w \in Workers, task'[w] # None, task'[w].at # "lock" PROVE task'[w].core = owner
    <2>1. CASE task'[w] = task[w]
        BY <2>1, <1>2, <1>6
    <2>2. ASSUME NEW v \in Workers, Lock(v), task'[w] # task[w] PROVE task'[w].core = owner
        BY <2>2, <1>1, <1>5, <1>6 DEF Lock, Ends, Moves, At, Shape, TypeOK, Task
    <2>3. ASSUME NEW v \in Workers, Step(v) \/ RunFails(v), ~Lock(v), task'[w] # task[w]
          PROVE  task'[w].core = owner
        <3>1. v = w /\ task[w] # None /\ task[w].at # "lock" /\ task'[w].core = task[w].core
            BY <2>3, <1>6
            DEF Step, GiveUp, Get, Apply, Mark, Save, EndRun, RunFails, Ack, Ends, Moves, At, Shape, TypeOK, Task
        <3>2. QED
            BY <3>1, <1>2
    <2>4. ASSUME NEW v \in Workers, NEW c \in Cores, NEW q \in Questions, Turn(v, c, q), task'[w] # task[w]
          PROVE  task'[w].core = owner
        BY <2>4, <1>5 DEF Turn, Shape, TypeOK
    <2>5. ASSUME NEW v \in Workers, NEW c \in Cores, NEW k \in Clicks, Claim(v, c, k), task'[w] # task[w]
          PROVE  FALSE
        BY <2>5, <1>6 DEF Claim, Shape, TypeOK
    <2>6. QED
        BY <2>1, <2>2, <2>3, <2>4, <2>5, <1>3
        DEF Next, vars, AsksAgain, Press, TimePasses, LockLapses, Disowned, Owned
<1>7. ASSUME NEW q \in Questions, Asked(q)' PROVE Recs(owner, TokenOf[q])' # {}
    <2>1. ASSUME NEW p \in Questions, Asks(owner, p) PROVE Recs(owner, TokenOf[q])' # {}
        <3>1. at'[p] = owner /\ \A r \in Questions : at[r] = owner => TokenOf[r] = TokenOf[p] \/ at'[r] = owner
            BY <2>1 DEF Asks, Stored, Recs
        <3>2. CASE q = p
            BY <3>1, <3>2, <1>4 DEF Recs
        <3>3. CASE q # p
            <4>1. Asked(q)
                BY <2>1, <3>3, <1>7 DEF Asks, Asked, Shape, TypeOK
            <4>2. PICK r \in Questions : at[r] = owner /\ TokenOf[r] = TokenOf[q]
                BY <4>1, <1>2 DEF Recs
            <4>3. QED
                BY <3>1, <4>2, <1>4 DEF Recs
        <3>4. QED
            BY <3>2, <3>3
    <2>2. ASSUME NEW w \in Workers, NEW c \in Cores, NEW p \in Questions, Turn(w, c, p) \/ AsksAgain(w, p)
          PROVE  Asks(owner, p)
        <3>1. CASE Turn(w, c, p)
            BY <3>1, <1>5 DEF Turn
        <3>2. CASE AsksAgain(w, p)
            BY <3>2, <1>2 DEF AsksAgain, At
        <3>3. QED
            BY <2>2, <3>1, <3>2
    <2>3. CASE \E w \in Workers, c \in Cores, p \in Questions : Turn(w, c, p) \/ AsksAgain(w, p)
        BY <2>1, <2>2, <2>3
    <2>4. CASE ~ \E w \in Workers, c \in Cores, p \in Questions : Turn(w, c, p) \/ AsksAgain(w, p)
        <3>1. Asked(q)
            BY <2>4, <1>7, AskedByStep
        <3>2. at' = at
            BY <2>4, <1>2, <1>3
            DEF Next, vars, Step, Lock, GiveUp, Get, Apply, Mark, Save, EndRun, RunFails, Ack, Claim, Press,
                TimePasses, LockLapses, Disowned, Owned, records
        <3>3. QED
            BY <3>1, <3>2, <1>2, <1>4 DEF Recs
    <2>5. QED
        BY <2>3, <2>4
<1>8. ASSUME NEW k \in Clicks, "unknown" \in told'[k] PROVE FALSE
    <2>1. "unknown" \notin told[k]
        BY <1>2
    <2>2. ASSUME NEW w \in Workers, Apply(w) \/ Save(w) \/ EndRun(w) \/ RunFails(w) PROVE FALSE
        BY <2>1, <2>2, <1>8 DEF Apply, Save, EndRun, RunFails, Tell, Shape, TypeOK
    <2>3. ASSUME NEW w \in Workers, Get(w) PROVE FALSE
        <3>1. task[w].click = k /\ Recs(task[w].core, TokenOf[click[k].card]) = {}
            BY <2>1, <2>3, <1>8 DEF Get, Tell, Shape, TypeOK
        <3>2. task[w] # None /\ task[w].at = "get"
            BY <2>3 DEF Get, At
        <3>3. Asked(click[k].card) /\ click[k].card \in Questions /\ task[w].core = owner
            BY <3>1, <3>2, <1>2, NoneAssumption DEF Shape, TaskOK, CardsOK, TypeOK, Choice
        <3>4. QED
            BY <3>1, <3>3, <1>2
    <2>4. told' = told
        BY <2>2, <2>3, <1>3
        DEF Next, vars, Step, Lock, GiveUp, Mark, Ack, Turn, AsksAgain, Asks, Claim, Press, TimePasses,
            LockLapses, Disowned, Owned
    <2>5. QED
        BY <2>1, <2>4, <1>8
<1>9. QED
    BY <1>2, <1>4, <1>6, <1>7, <1>8

-----------------------------------------------------------------------------
(* ResolvedIsFinal *)

LEMMA ExclusiveKept == ASSUME Shape, Exclusive, [Next]_vars PROVE Exclusive'
<1> SUFFICES ASSUME lapses' = 0, NEW w \in Workers, task'[w] # None, task'[w].at # "lock"
             PROVE  /\ w = lock'
                    /\ task'[w].at = "apply" => status'[task'[w].rec] = "pending"
    BY DEF Exclusive
<1> USE DEF Shape, TypeOK
<1>1. lapses = 0 /\ ~LockLapses
    BY CountersGrow DEF LockLapses
<1>2. \A v \in Workers : task[v] # None /\ task[v].at # "lock" =>
          v = lock /\ (task[v].at = "apply" => status[task[v].rec] = "pending")
    BY <1>1 DEF Exclusive
<1>3. CASE task'[w] = task[w]
    <2>1. w = lock /\ (task[w].at = "apply" => status[task[w].rec] = "pending")
        BY <1>2, <1>3
    <2>2. ASSUME NEW v \in Workers, Lock(v) \/ Get(v) \/ Mark(v) PROVE FALSE
        <3>1. ~Lock(v)
            BY SMTT(40), <2>1, NoneAssumption DEF Lock
        <3>2. v = w
            BY <3>1, <2>1, <2>2, <1>2 DEF Get, Mark, At
        <3>3. QED
            BY <3>1, <3>2, <2>2, <1>3 DEF Get, Mark, Moves, At, Task
    <2>3. ASSUME NEW v \in Workers, Ends(v) PROVE v # w
        BY <2>3, <1>3 DEF Ends
    <2>4. lock' = lock
        BY <2>1, <2>2, <2>3, <1>1, <1>3, NoneAssumption
        DEF Next, Step, vars, GiveUp, Apply, Save, EndRun, RunFails, Ack, Ends, AsksAgain, Turn, Claim,
            Press, TimePasses, Crash, Disowned, Owned
    <2>5. ASSUME task[w].at = "apply" PROVE status'[task[w].rec] = "pending"
        <3>1. task[w].rec \in Questions /\ Asked(task[w].rec)
            BY <2>5, <1>3 DEF TaskOK
        <3>2. ASSUME NEW q \in Questions, NEW c \in Cores, Asks(c, q) PROVE status'[task[w].rec] = "pending"
            BY <3>1, <3>2, <2>1, <2>5 DEF Asks, NextOf, Asked
        <3>3. ASSUME NEW v \in Workers, NEW q \in Questions, AsksAgain(v, q) PROVE task[v].core \in Cores
            BY <3>3 DEF AsksAgain, At, Task
        <3>4. QED
            BY <3>1, <3>2, <3>3, <2>1, <2>2, <2>5, <1>1
            DEF Next, Step, vars, GiveUp, Apply, Save, EndRun, RunFails, Ack, AsksAgain, Turn, Claim,
                Press, TimePasses, Crash, Disowned, Owned, records
    <2>6. QED
        BY <2>1, <2>4, <2>5, <1>3
<1>4. CASE task'[w] # task[w]
    <2>1. ASSUME NEW v \in Workers, Lock(v) PROVE w = lock' /\ task'[w].at # "apply"
        BY <2>1, <1>4 DEF Lock, Ends, Moves, At, Task
    <2>2. ASSUME NEW v \in Workers, Get(v)
          PROVE  w = lock' /\ (task'[w].at = "apply" => status'[task'[w].rec] = "pending")
        <3>1. v = w /\ lock' = lock /\ v = lock
            BY <2>2, <1>2, <1>4 DEF Get, Moves, At
        <3>2. task'[w].at = "apply" => status'[task'[w].rec] = "pending"
            BY <2>2, <3>1 DEF Get, Open, Moves, At, Task
        <3>3. QED
            BY <3>1, <3>2
    <2>3. ASSUME NEW v \in Workers, Apply(v) \/ Mark(v) \/ Save(v) \/ RunFails(v)
          PROVE  w = lock' /\ task'[w].at # "apply"
        <3>1. v = w /\ v = lock
            BY <2>3, <1>2, <1>4 DEF Apply, Mark, Save, RunFails, Ends, Moves, At
        <3>2. QED
            BY <2>3, <3>1, <1>4, NoneAssumption DEF Apply, Mark, Save, RunFails, Ends, Moves, At, Task
    <2>4. ASSUME NEW v \in Workers, Ends(v) PROVE FALSE
        BY <2>4, <1>4 DEF Ends
    <2>5. ASSUME NEW v \in Workers, NEW c \in Cores, NEW q \in Questions, Turn(v, c, q)
          PROVE  w = lock' /\ task'[w].at # "apply"
        BY <2>5, <1>4 DEF Turn
    <2>6. ASSUME NEW v \in Workers, NEW c \in Cores, NEW k \in Clicks, Claim(v, c, k) PROVE FALSE
        BY <2>6, <1>4 DEF Claim
    <2>7. ASSUME NEW c \in Cores, Crash(c) PROVE FALSE
        BY <2>7, <1>4 DEF Crash
    <2>8. QED
        BY <2>1, <2>2, <2>3, <2>4, <2>5, <2>6, <2>7, <1>1, <1>4
        DEF Next, Step, vars, GiveUp, EndRun, Ack, AsksAgain, Press, TimePasses, Disowned, Owned
<1>5. QED
    BY <1>3, <1>4

-----------------------------------------------------------------------------
(* WritesHaveCauses *)

LEMMA FewerStrays ==
    ASSUME NEW S, NEW T, IsFiniteSet(S), T \subseteq S
    PROVE  IsFiniteSet(T) /\ Cardinality(T) \in Nat /\ Cardinality(S) \in Nat
           /\ Cardinality(T) <= Cardinality(S)
    BY FS_Subset, FS_CardinalityType

LEMMA StrayLess ==
    ASSUME NEW S, NEW T, IsFiniteSet(S), NEW w \in S, T \subseteq S \ {w}
    PROVE  IsFiniteSet(T) /\ Cardinality(T) \in Nat /\ Cardinality(S) \in Nat
           /\ Cardinality(T) + 1 <= Cardinality(S)
<1>1. IsFiniteSet(S \ {w}) /\ Cardinality(S \ {w}) = Cardinality(S) - 1
    BY FS_RemoveElement
<1>2. QED
    BY <1>1, FS_Subset, FS_CardinalityType

LEMMA StrayMore ==
    ASSUME NEW S, NEW T, IsFiniteSet(S), NEW w, T \subseteq S \cup {w}
    PROVE  IsFiniteSet(T) /\ Cardinality(T) \in Nat /\ Cardinality(S) \in Nat
           /\ Cardinality(T) <= Cardinality(S) + 1
<1>1. IsFiniteSet(S \cup {w}) /\ Cardinality(S \cup {w}) <= Cardinality(S) + 1
    <2>1. Cardinality(S) \in Nat
        BY FS_CardinalityType
    <2>2. QED
        BY <2>1, FS_AddElement
<1>2. QED
    BY <1>1, FS_Subset, FS_CardinalityType

\* No question is opened again.
LEMMA OpenFate ==
    ASSUME Shape, [Next]_vars, NEW q \in Questions, StillOpen(q)'
    PROVE  StillOpen(q)
<1>1. status'[q] = "none" \/ (at'[q] # None /\ status'[q] = "pending")
    BY DEF StillOpen
<1>2. CASE Asked(q)
    BY <1>1, <1>2, StatusFate, RecordFate DEF StillOpen, Asked
<1>3. CASE ~Asked(q)
    BY <1>3 DEF StillOpen, Asked
<1>4. QED
    BY <1>2, <1>3

\* A step that adds no handler, opens nothing and writes nothing.
LEMMA FewUnpaid ==
    ASSUME Shape, [Next]_vars, NEW q \in Questions, Few(q),
           Strays(q)' \subseteq Strays(q), MayBeWritten(q)' => MayBeWritten(q),
           writes'[q] = writes[q]
    PROVE  Few(q)'
<1>1. IsFiniteSet(Strays(q)') /\ Cardinality(Strays(q)') \in Nat /\ Cardinality(Strays(q)) \in Nat
      /\ Cardinality(Strays(q)') <= Cardinality(Strays(q))
    BY FewerStrays DEF Few
<1>2. writes[q] \in Nat
    BY DEF Shape, TypeOK
<1>3. QED
    BY <1>1, <1>2, CountersGrow DEF Few

\* A handler w steps to where it does not write, keeping or giving back the lock.
LEMMA FewAside ==
    ASSUME Shape, [Next]_vars, NEW q \in Questions, Few(q), writes'[q] = writes[q], NEW w \in Workers,
           task'[w] = None \/ task'[w].at \notin {"get", "apply", "mark"},
           \A v \in Workers \ {w} : task'[v] = task[v],
           lock' = lock \/ (lock = w /\ lock' = None),
           lock = w /\ HolderIs("mark", q) => ~StillOpen(q)'
    PROVE  Few(q)'
<1>1. Strays(q)' \subseteq Strays(q)
    BY DEF Strays, At
<1>2. lock \in Workers \cup {None} /\ lock' \in Workers \cup {None}
    BY DEF Shape, TypeOK
<1>3. HolderIs("apply", q)' => HolderIs("apply", q)
    BY <1>2 DEF HolderIs, At
<1>4. lock # w /\ HolderIs("mark", q) => HolderIs("mark", q)'
    BY <1>2 DEF HolderIs, At
<1>5. MayBeWritten(q)' => MayBeWritten(q)
    BY <1>3, <1>4, OpenFate DEF MayBeWritten
<1>6. QED
    BY <1>1, <1>5, FewUnpaid

\* A handler takes the lock.
LEMMA FewLocked ==
    ASSUME Shape, [Next]_vars, NEW q \in Questions, Few(q), writes'[q] = writes[q], NEW w \in Workers,
           task'[w].at \in {"run", "get"}, \A v \in Workers \ {w} : task'[v] = task[v],
           lock = None, lock' = w
    PROVE  Few(q)'
<1>1. Strays(q)' \subseteq Strays(q)
    BY NoneAssumption DEF Strays, At
<1>2. MayBeWritten(q)' => MayBeWritten(q)
    BY OpenFate DEF MayBeWritten, HolderIs, At
<1>3. QED
    BY <1>1, <1>2, FewUnpaid

LEMMA FewGet ==
    ASSUME Shape, [Next]_vars, NEW q \in Questions, Few(q), NEW w \in Workers, Get(w)
    PROVE  Few(q)'
<1> USE DEF Shape, TypeOK
<1>1. /\ writes' = writes /\ lock' = lock /\ At(w, "get")
      /\ \A v \in Workers \ {w} : task'[v] = task[v]
    BY DEF Get, Moves, document
<1>2. CASE task'[w].at \notin {"get", "apply", "mark"}
    BY <1>1, <1>2, FewAside DEF HolderIs, At
<1>3. CASE task'[w].at \in {"get", "apply", "mark"}
    <2>1. PICK p \in Questions :
              /\ p \in Recs(task[w].core, TokenOf[click[task[w].click].card]) /\ Open(p)
              /\ task' = [task EXCEPT ![w].at = "apply", ![w].rec = p]
        BY <1>3, <1>1 DEF Get, Recs, Moves, At, Task
    <2>2. StillOpen(p) /\ task'[w].at = "apply" /\ task'[w].rec = p
        <3>1. task[w].core \in Cores
            BY <1>1 DEF At, Task
        <3>2. QED
            BY <2>1, <3>1, <1>1, NoneAssumption DEF StillOpen, Recs, Open, At, Task
    <2>3. Strays(q)' \subseteq Strays(q)
        BY <1>1 DEF Strays, At
    <2>4. MayBeWritten(q)' => MayBeWritten(q)
        <3>1. CASE w = lock
            BY <3>1, <1>1, <2>2, OpenFate DEF MayBeWritten, HolderIs, At
        <3>2. CASE w # lock
            <4>1. HolderIs("apply", q)' = HolderIs("apply", q) /\ HolderIs("mark", q)' = HolderIs("mark", q)
                BY <3>2, <1>1 DEF HolderIs, At
            <4>2. QED
                BY <4>1, OpenFate DEF MayBeWritten
        <3>3. QED
            BY <3>1, <3>2
    <2>5. QED
        BY <2>3, <2>4, <1>1, FewUnpaid
<1>4. QED
    BY <1>2, <1>3

LEMMA FewApply ==
    ASSUME Shape, [Next]_vars, NEW q \in Questions, Few(q), NEW w \in Workers, Apply(w)
    PROVE  Few(q)'
<1> USE DEF Shape, TypeOK
<1>1. /\ lock' = lock /\ At(w, "apply") /\ \A v \in Workers \ {w} : task'[v] = task[v]
      /\ task[w] \in Task /\ task'[w] \in Task
      /\ task'[w].rec = task[w].rec /\ task'[w].at \in {"mark", "ack"}
    BY DEF Apply, Moves, At, Task
<1>2. writes'[q] = writes[q] \/ (q = task[w].rec /\ writes'[q] = writes[q] + 1)
    BY <1>1 DEF Apply, Written, document, TaskOK, At
<1>3. task'[w].at = "ack" => timeouts' = timeouts + 1
    BY <1>1 DEF Apply, Moves, Timeout, At, Task
<1>4. Strays(q)' \subseteq Strays(q) /\ w \notin Strays(q)'
    BY <1>1 DEF Strays, At
<1>5. MayBeWritten(q)' => MayBeWritten(q)
    <2>1. CASE w = lock /\ q = task[w].rec
        BY <2>1, <1>1, NoneAssumption DEF MayBeWritten, HolderIs
    <2>2. CASE w # lock \/ q # task[w].rec
        <3>1. HolderIs("apply", q)' = HolderIs("apply", q) /\ HolderIs("mark", q)' = HolderIs("mark", q)
            BY <2>2, <1>1 DEF HolderIs, At
        <3>2. QED
            BY <3>1, OpenFate DEF MayBeWritten
    <2>3. QED
        BY <2>1, <2>2
<1>6. CASE writes'[q] = writes[q]
    BY <1>6, <1>4, <1>5, FewUnpaid
<1>7. CASE q = task[w].rec /\ writes'[q] = writes[q] + 1
    <2>1. writes[q] \in Nat
        OBVIOUS
    <2>2. IsFiniteSet(Strays(q)') /\ Cardinality(Strays(q)') \in Nat /\ Cardinality(Strays(q)) \in Nat
          /\ Cardinality(Strays(q)') <= Cardinality(Strays(q))
        BY <1>4, FewerStrays DEF Few
    <2>3. CASE task'[w].at = "ack"
        BY <2>1, <2>2, <2>3, <1>3, <1>5, <1>7, CountersGrow DEF Few
    <2>4. CASE task'[w].at = "mark" /\ w = lock
        <3>1. MayBeWritten(q) /\ ~MayBeWritten(q)'
            BY <2>4, <1>1, <1>7, NoneAssumption, RecordAssumption DEF MayBeWritten, HolderIs, At
        <3>2. QED
            BY <2>1, <2>2, <3>1, <1>7, CountersGrow DEF Few
    <2>5. CASE task'[w].at = "mark" /\ w # lock
        <3>1. w \in Strays(q)
            BY <2>5, <1>1, <1>7 DEF Strays
        <3>2. Cardinality(Strays(q)') + 1 <= Cardinality(Strays(q))
            BY <3>1, <1>4, StrayLess DEF Few
        <3>3. QED
            BY <2>1, <2>2, <3>2, <1>5, <1>7, CountersGrow DEF Few
    <2>6. QED
        BY <2>3, <2>4, <2>5, <1>1
<1>8. QED
    BY <1>2, <1>6, <1>7

LEMMA FewMark ==
    ASSUME Shape, [Next]_vars, NEW q \in Questions, Few(q), NEW w \in Workers, Mark(w)
    PROVE  Few(q)'
<1> USE DEF Shape, TypeOK
<1>1. /\ lock' = lock /\ writes' = writes /\ at' = at /\ At(w, "mark") /\ task'[w].at = "save"
      /\ \A v \in Workers \ {w} : task'[v] = task[v]
    BY DEF Mark, Moves, At, Task, document
<1>2. ASSUME lock = w, HolderIs("mark", q) PROVE ~StillOpen(q)'
    <2>1. /\ q = task[w].rec /\ Asked(q) /\ at[q] \in {task[w].core, None}
          /\ TokenOf[q] = TokenOf[click[task[w].click].card]
        BY <1>1, <1>2 DEF HolderIs, TaskOK, At
    <2>2. status'[q] # "none"
        BY <2>1, StatusFate DEF Asked
    <2>3. CASE at[q] = None
        BY <2>2, <2>3, <1>1 DEF StillOpen
    <2>4. CASE at[q] = task[w].core
        <3>1. status'[q] # "pending"
            BY <2>1, <2>4 DEF Mark, Updated, Recs
        <3>2. QED
            BY <2>2, <3>1 DEF StillOpen
    <2>5. QED
        BY <2>1, <2>3, <2>4
<1>3. QED
    BY <1>1, <1>2, FewAside

LEMMA FewLapses ==
    ASSUME Shape, [Next]_vars, NEW q \in Questions, Few(q), LockLapses
    PROVE  Few(q)'
<1> USE DEF Shape, TypeOK
<1>1. /\ lock # None /\ lock' = None /\ task' = task /\ writes' = writes
      /\ lapses' = lapses + 1 /\ timeouts' = timeouts
    BY DEF LockLapses, document
<1>2. writes[q] \in Nat
    OBVIOUS
<1>3. CASE HolderIs("mark", q)
    <2>1. Strays(q)' \subseteq Strays(q)
        BY <1>1, <1>3 DEF Strays, HolderIs, At
    <2>2. IsFiniteSet(Strays(q)') /\ Cardinality(Strays(q)') \in Nat /\ Cardinality(Strays(q)) \in Nat
          /\ Cardinality(Strays(q)') <= Cardinality(Strays(q))
        BY <2>1, FewerStrays DEF Few
    <2>3. QED
        BY <2>2, <1>1, <1>2, CountersGrow DEF Few
<1>4. CASE ~HolderIs("mark", q)
    <2>1. Strays(q)' \subseteq Strays(q) \cup {lock}
        BY <1>1 DEF Strays, At
    <2>2. IsFiniteSet(Strays(q)') /\ Cardinality(Strays(q)') \in Nat /\ Cardinality(Strays(q)) \in Nat
          /\ Cardinality(Strays(q)') <= Cardinality(Strays(q)) + 1
        BY <2>1, StrayMore DEF Few
    <2>3. MayBeWritten(q)' => MayBeWritten(q)
        BY <1>1, <1>4, OpenFate DEF MayBeWritten, HolderIs
    <2>4. QED
        BY <2>2, <2>3, <1>1, <1>2, CountersGrow DEF Few
<1>5. QED
    BY <1>3, <1>4

LEMMA FewCrash ==
    ASSUME Shape, [Next]_vars, NEW q \in Questions, Few(q), NEW c \in Cores, Crash(c)
    PROVE  Few(q)'
<1> USE DEF Shape, TypeOK
<1>1. /\ writes' = writes
      /\ \A w \in Workers : task'[w] = None \/ task'[w] = task[w]
      /\ lock' = IF lock # None /\ task'[lock] = None THEN None ELSE lock
    BY DEF Crash, document
<1>2. Strays(q)' \subseteq Strays(q)
    BY <1>1, NoneAssumption DEF Strays, At
<1>3. HolderIs("apply", q)' => HolderIs("apply", q)
    BY <1>1 DEF HolderIs, At
<1>4. ASSUME HolderIs("mark", q), ~HolderIs("mark", q)' PROVE ~StillOpen(q)'
    <2>1. lock # None /\ lock \in Workers /\ task'[lock] = None /\ task[lock] # None
        BY <1>1, <1>4 DEF HolderIs, At
    <2>2. task[lock].core = c
        BY <2>1 DEF Crash
    <2>3. Asked(q) /\ at[q] \in {c, None}
        BY <2>1, <2>2, <1>4 DEF HolderIs, At, TaskOK
    <2>4. at'[q] = None
        BY <2>3 DEF Crash
    <2>5. QED
        BY <2>3, <2>4, StatusFate DEF StillOpen, Asked
<1>5. MayBeWritten(q)' => MayBeWritten(q)
    BY <1>3, <1>4, OpenFate DEF MayBeWritten
<1>6. QED
    BY <1>1, <1>2, <1>5, FewUnpaid

LEMMA FewKept ==
    ASSUME Shape, [Next]_vars, NEW q \in Questions, Few(q)
    PROVE  Few(q)'
<1> USE DEF Shape, TypeOK
<1>1. ASSUME UNCHANGED <<task, lock, writes>> PROVE Few(q)'
    <2>1. Strays(q)' = Strays(q) /\ (MayBeWritten(q)' => MayBeWritten(q))
        BY <1>1, OpenFate DEF Strays, MayBeWritten, HolderIs, At
    <2>2. QED
        BY <2>1, <1>1, FewUnpaid
<1>2. ASSUME NEW w \in Workers, Ends(w), ~At(w, "mark"), UNCHANGED writes PROVE Few(q)'
    BY <1>2, FewAside DEF Ends, HolderIs
<1>3. ASSUME NEW w \in Workers, Lock(w), ~Ends(w) PROVE Few(q)'
    <2>1. /\ writes' = writes /\ lock = None /\ lock' = w /\ task'[w].at = "get"
          /\ \A v \in Workers \ {w} : task'[v] = task[v]
        BY <1>3 DEF Lock, Moves, At, Task, document
    <2>2. QED
        BY <2>1, FewLocked
<1>4. ASSUME NEW w \in Workers, NEW c \in Cores, NEW p \in Questions, Turn(w, c, p) PROVE Few(q)'
    <2>1. /\ writes' = writes /\ lock = None /\ lock' = w /\ task'[w].at = "run"
          /\ \A v \in Workers \ {w} : task'[v] = task[v]
        BY <1>4 DEF Turn, Asks, document
    <2>2. QED
        BY <2>1, FewLocked
<1>5. ASSUME NEW w \in Workers, Save(w) \/ RunFails(w), ~Ends(w) PROVE Few(q)'
    <2>1. /\ writes' = writes /\ lock' = lock /\ ~At(w, "mark") /\ task'[w].at \in {"run", "ack"}
          /\ \A v \in Workers \ {w} : task'[v] = task[v]
        BY <1>5 DEF Save, RunFails, Moves, At, Task, document
    <2>2. QED
        BY <2>1, FewAside DEF HolderIs
<1>6. ASSUME NEW w \in Workers, NEW c \in Cores, NEW k \in Clicks, Claim(w, c, k) PROVE Few(q)'
    <2>1. /\ writes' = writes /\ lock' = lock /\ ~At(w, "mark") /\ task'[w].at = "lock"
          /\ \A v \in Workers \ {w} : task'[v] = task[v]
        BY <1>6 DEF Claim, NextOf, Idle, At, document
    <2>2. QED
        BY <2>1, FewAside DEF HolderIs
<1>7. ASSUME NEW w \in Workers, Lock(w) \/ GiveUp(w) \/ Save(w) \/ RunFails(w) \/ EndRun(w) \/ Ack(w)
      PROVE  ~At(w, "mark") /\ writes' = writes
    BY <1>7 DEF Lock, GiveUp, Save, RunFails, EndRun, Ack, At, document
<1>8. QED
    BY <1>1, <1>2, <1>3, <1>4, <1>5, <1>6, <1>7, FewGet, FewApply, FewMark, FewLapses, FewCrash
    DEF Next, Step, vars, GiveUp, EndRun, Ack, AsksAgain, Asks, Press, TimePasses, Disowned, Owned, document

-----------------------------------------------------------------------------
(* The theorems *)

LEMMA InitInv == Init => IInv
<1> SUFFICES ASSUME Init PROVE IInv
    OBVIOUS
<1>1. TypeOK /\ IsFiniteSet(due)
    BY InitTypes
<1>2. (\A w \in Workers : TaskOK(w)) /\ LockOK /\ CardsOK
    BY DEF Init, TaskOK, LockOK, CardsOK
<1>3. Calm
    BY DEF Init, Calm, NextOf, Asked
<1>4. Exclusive
    BY DEF Init, Exclusive
<1>5. ASSUME NEW q \in Questions PROVE Few(q)
    <2>1. Strays(q) = {}
        BY DEF Init, Strays, At
    <2>2. writes[q] = 0 /\ timeouts = 0 /\ lapses = 0
        BY DEF Init
    <2>3. QED
        BY <2>1, <2>2, FS_EmptySet DEF Few
<1>6. QED
    BY <1>1, <1>2, <1>3, <1>4, <1>5 DEF IInv, Shape

LEMMA InvKept == IInv /\ [Next]_vars => IInv'
    BY ShapeKept, CalmKept, ExclusiveKept, FewKept DEF IInv

LEMMA Invariance == Spec => []IInv
    BY InitInv, InvKept, PTL DEF Spec

\* Every variable keeps its type, whatever goes wrong.
THEOREM TypeCorrect == Spec => []TypeOK
<1>1. IInv => TypeOK
    BY DEF IInv, Shape
<1>2. QED
    BY Invariance, <1>1, PTL

\* A question is written once, but for calls of apply that get no answer and session
\* locks that are lost: of clicks, of deliveries of them and of handlers there may be
\* any number.
THEOREM WritesAreCaused == Spec => []WritesHaveCauses
<1>1. IInv => WritesHaveCauses
    <2> SUFFICES ASSUME IInv, NEW q \in Questions PROVE writes[q] <= 1 + timeouts + lapses
        BY DEF WritesHaveCauses
    <2>1. Cardinality(Strays(q)) \in Nat
        BY FS_CardinalityType DEF IInv, Few
    <2>2. writes[q] \in Nat /\ timeouts \in Nat /\ lapses \in Nat
        BY BoundAssumption DEF IInv, Shape, TypeOK
    <2>3. QED
        BY <2>1, <2>2 DEF IInv, Few
<1>2. QED
    BY Invariance, <1>1, PTL

\* The user has to start again only after the owner changed, a core went down or the
\* owner could not be read: where a click is handled, a record of its token is found.
THEOREM UnknownIsCaused == Spec => []UnknownHasCause
<1>1. IInv => UnknownHasCause
    <2> SUFFICES ASSUME IInv, NEW k \in Clicks, "unknown" \in told[k] PROVE moves + downs + errors > 0
        BY DEF UnknownHasCause
    <2>1. moves + downs + errors # 0
        BY DEF IInv, Calm
    <2>2. moves \in Nat /\ downs \in Nat /\ errors \in Nat
        BY BoundAssumption DEF IInv, Shape, TypeOK
    <2>3. QED
        BY <2>1, <2>2
<1>2. QED
    BY Invariance, <1>1, PTL

\* What is cancelled, expired or applied is not written any more while no session lock
\* was lost, though the record is checked before the write is awaited.
THEOREM ResolvedStays == Spec => ResolvedIsFinal
<1>1. ASSUME IInv, [Next]_vars, NEW q \in Questions, status[q] \in {"cancelled", "applied", "expired"},
             lapses = 0
      PROVE  writes'[q] = writes[q]
    <2>1. ASSUME NEW w \in Workers, Apply(w) PROVE writes'[q] = writes[q]
        <3>1. task[w].rec # q
            BY <1>1, <2>1 DEF IInv, Exclusive, Apply, At
        <3>2. QED
            BY <1>1, <2>1, <3>1 DEF IInv, Shape, TypeOK, Apply, Written, document
    <2>2. QED
        BY <1>1, <2>1
        DEF Next, vars, Step, Lock, GiveUp, Get, Mark, Save, EndRun, RunFails, Ack, Turn, AsksAgain, Asks,
            Claim, Press, TimePasses, Crash, LockLapses, Disowned, Owned, document
<1>2. IInv /\ [Next]_vars =>
          [\A q \in Questions : status[q] \in {"cancelled", "applied", "expired"} /\ lapses = 0
              => writes'[q] = writes[q]]_vars
    BY <1>1
<1>3. QED
    BY Invariance, <1>2, PTL DEF Spec, ResolvedIsFinal
=============================================================================
