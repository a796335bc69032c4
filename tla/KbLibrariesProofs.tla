-------------------------- MODULE KbLibrariesProofs --------------------------
(* Proofs about knowledge bases and datasets: what a deletion leaves behind, *)
(* for any number of libraries, datasets, requests, failures and changes by  *)
(* hand, beside the reconciler.                                              *)
EXTENDS KbLibraries, TLAPS

\* The engine never gives out a dataset id again, so that whatever names a dataset,
\* in the database, in the memory of a request or in a pass, names a given one.
Given(row) == row.ref # None => row.ref \in given
AllGiven ==
    /\ \A d \in Datasets : Exists(d) \/ orphan[d] = "open" => d \in given
    /\ \A l \in Libraries : IsRow(l) => Given(rows[l])
    /\ \A a \in Requests : task[a] # None => Given(task[a].row)
    /\ pass # None => /\ \A d \in Datasets : pass.seen[d] # None => d \in given
                      /\ \A l \in Libraries : pass.rows[l] # None => Given(pass.rows[l])

\* A deletion that goes to its commit has seen its dataset off.
DatasetGone ==
    \A a \in Requests :
        task[a] # None /\ task[a].op = "delete" /\ task[a].at = "commit" =>
            task[a].row.ref = None \/ ~Exists(task[a].row.ref)

IInv == TypeOK /\ AllGiven /\ DatasetGone

LEMMA NamesOK == \A l \in Libraries : Live(l) \in Names /\ Archived(l) \in Names /\ Other \in Names
BY DEF Live, Archived, Other, Names

LEMMA WrittenOK ==
    ASSUME NEW t \in Task, NEW s \in {"unknown", "consistent", "missing", "drift"}
    PROVE  Written(t, s) \in Row /\ Written(t, s).ref = t.row.ref
<1>1. t.row \in Row
    BY DEF Task
<1>2. CASE t.op = "archive"
    BY <1>1, <1>2 DEF Written, Row
<1>3. CASE t.op = "update"
    BY <1>1, <1>3 DEF Written, Row
<1>4. CASE t.op \notin {"archive", "update"}
  <2>1. Written(t, s) = [t.row EXCEPT !.sync = s]
      BY <1>4 DEF Written
  <2>2. QED
      BY <1>1, <2>1 DEF Row
<1>5. QED
    BY <1>2, <1>3, <1>4

LEMMA MarkedOK ==
    ASSUME NEW l, NEW row \in Row, NEW name
    PROVE  Marked(l, row, name) \in Row /\ Marked(l, row, name).ref = row.ref
<1> DEFINE gone == [row EXCEPT !.sync = "missing", !.since = IF @ = "never" THEN "recent" ELSE @]
           same == [row EXCEPT !.sync = "consistent", !.since = "never"]
           drift == [row EXCEPT !.sync = "drift", !.since = "never"]
<1>1. /\ gone \in Row /\ gone.ref = row.ref /\ same \in Row /\ same.ref = row.ref
      /\ drift \in Row /\ drift.ref = row.ref
    BY DEF Row
<1>2. Marked(l, row, name) \in {gone, same, drift}
    BY DEF Marked
<1>3. QED
    BY <1>1, <1>2

\* The parts of the type that a step of a request, or of a pass, leaves alone.
BoundsOK == requests \in 0..MaxRequests /\ faults \in 0..MaxFaults /\ console \in 0..MaxConsole

LEMMA InitIInv == Init => IInv
<1> SUFFICES ASSUME Init PROVE IInv
    OBVIOUS
<1>1. NewRow \in Row /\ NewRow.ref = None
    BY DEF NewRow, Row
<1>2. TypeOK
    BY <1>1, LibraryAssumption, BoundAssumption DEF Init, TypeOK, Table, Orphan
<1>3. AllGiven
    BY <1>1 DEF Init, AllGiven, Given, Exists, IsRow
<1>4. DatasetGone
    BY DEF Init, DatasetGone
<1>5. QED
    BY <1>2, <1>3, <1>4 DEF IInv

\* A request's next state of its task.
LEMMA GoesOK ==
    ASSUME TypeOK, NEW a \in Requests, task[a] # None, NEW row \in Row, Goes(a, row)
    PROVE  /\ task' \in [Requests -> Task \cup {None}]
           /\ task'[a].row = row /\ task'[a].at = "commit" /\ task'[a].op = task[a].op
           /\ \A b \in Requests : b # a => task'[b] = task[b]
<1>1. task[a] \in Task
    BY DEF TypeOK
<1>2. PICK t \in Task : /\ t.row = row /\ t.at = "commit" /\ t.op = task[a].op
                        /\ task' = [task EXCEPT ![a] = t]
  <2> DEFINE t == [task[a] EXCEPT !.row = row, !.at = "commit"]
  <2>1. t \in Task /\ t.row = row /\ t.at = "commit" /\ t.op = task[a].op
      BY <1>1 DEF Task
  <2>2. task' = [task EXCEPT ![a] = t]
      BY DEF Goes, TypeOK
  <2>3. QED
      BY <2>1, <2>2
<1>3. QED
    BY <1>2 DEF TypeOK

LEMMA EndsOK ==
    ASSUME TypeOK, NEW a \in Requests, Ends(a)
    PROVE  /\ task' \in [Requests -> Task \cup {None}] /\ task'[a] = None
           /\ \A b \in Requests : b # a => task'[b] = task[b]
BY DEF Ends, TypeOK

LEMMA StepIInv == IInv /\ [Next]_vars => IInv'
<1> SUFFICES ASSUME IInv, [Next]_vars PROVE IInv'
    OBVIOUS
<1> USE LibraryAssumption, BoundAssumption DEF IInv
<1>t. /\ BoundsOK /\ rows \in Table /\ engine \in [Datasets -> Names \cup {None}]
      /\ orphan \in [Datasets -> Orphan] /\ given \subseteq Libraries \cup Datasets
      /\ task \in [Requests -> Task \cup {None}] /\ pass \in Pass \cup {None}
    BY DEF TypeOK, BoundsOK
\* What a step of a request has to show.
<1>r. ASSUME UNCHANGED pass, BoundsOK', rows' \in Table, engine' \in [Datasets -> Names \cup {None}],
             orphan' \in [Datasets -> Orphan], given \subseteq given', given' \subseteq Libraries \cup Datasets,
             task' \in [Requests -> Task \cup {None}],
             \A d \in Datasets : Exists(d)' \/ (orphan[d] # "open" /\ orphan'[d] = "open") => Exists(d) \/ d \in given',
             \A l \in Libraries : IsRow(l)' => Given(rows[l])' \/ rows'[l] = rows[l],
             \A a \in Requests : task'[a] # None => task'[a] = task[a] \/ Given(task[a].row)',
             \A a \in Requests : task'[a] # None /\ task'[a].op = "delete" /\ task'[a].at = "commit" =>
                 task'[a] = task[a] \/ task'[a].row.ref = None \/ ~Exists(task[a].row.ref)',
             \A d \in given \cap Datasets : engine'[d] # None => engine[d] # None
      PROVE  IInv'
  <2>1. TypeOK'
      BY <1>r, <1>t DEF TypeOK, BoundsOK
  <2>2. AllGiven'
      BY <1>r, <1>t DEF AllGiven, Given, Exists, IsRow
  <2>3. DatasetGone'
    <3>1. SUFFICES ASSUME NEW a \in Requests, task'[a] # None, task'[a].op = "delete", task'[a].at = "commit"
                   PROVE  task'[a].row.ref = None \/ ~Exists(task[a].row.ref)'
        BY DEF DatasetGone
    <3>2. CASE task'[a] = task[a]
      <4>1. task[a] \in Task
          BY <1>t, <3>1, <3>2
      <4>2. task[a].row.ref \in Datasets \cup {None}
          BY <4>1 DEF Task, Row
      <4>3. QED
          BY <1>r, <3>1, <3>2, <4>2 DEF DatasetGone, AllGiven, Given, Exists
    <3>3. QED
        BY <1>r, <3>1, <3>2
  <2>4. QED
      BY <2>1, <2>2, <2>3
\* A request begins.
<1>b. ASSUME NEW a \in Requests, NEW op \in {"create", "archive", "update", "delete", "bound", "adopted", "fix"},
             NEW l \in Libraries, NEW row \in Row, Begin(a, op, l, row),
             given \subseteq given', given' \subseteq Libraries \cup Datasets, Given(row)
      PROVE  IInv'
  <2>1. PICK t \in Task : t.row = row /\ t.at = "call" /\ task' = [task EXCEPT ![a] = t]
    <3> DEFINE t == [op |-> op, lib |-> l, row |-> row, at |-> "call"]
    <3>1. t \in Task /\ t.row = row /\ t.at = "call"
        BY DEF Task
    <3>2. QED
        BY <1>b, <3>1 DEF Begin
  <2>2. /\ task' \in [Requests -> Task \cup {None}] /\ task'[a] = t
        /\ \A b \in Requests : b # a => task'[b] = task[b]
      BY <1>t, <2>1
  <2>3. UNCHANGED <<rows, engine, orphan, pass>> /\ BoundsOK'
      BY <1>b, <1>t DEF Begin, BoundsOK
  <2>4. Given(task[a].row)'
      BY <1>b, <2>1, <2>2 DEF Given
  <2>5. QED
      BY <1>r, <1>t, <1>b, <2>1, <2>2, <2>3, <2>4 DEF Exists, IsRow
<1>1. ASSUME NEW a \in Requests, NEW l \in Libraries, Create(a, l) PROVE IInv'
  <2>1. NewRow \in Row /\ Given(NewRow)
      BY DEF NewRow, Row, Given
  <2>2. Begin(a, "create", l, NewRow) /\ given' = given \cup {l}
      BY <1>1 DEF Create
  <2>3. QED
      BY <1>t, <1>b, <2>1, <2>2
<1>2. ASSUME NEW a \in Requests, NEW l \in Libraries, Archive(a, l) PROVE IInv'
  <2>1. Begin(a, "archive", l, rows[l]) /\ given' = given /\ rows[l] # None
      BY <1>2 DEF Archive, IsRow, BoundIn
  <2>2. rows[l] \in Row /\ Given(rows[l])
      BY <1>t, <2>1 DEF Table, AllGiven, IsRow
  <2>3. QED
      BY <1>t, <1>b, <2>1, <2>2
<1>3. ASSUME NEW a \in Requests, NEW l \in Libraries, Delete(a, l) PROVE IInv'
  <2>1. Begin(a, "delete", l, rows[l]) /\ given' = given /\ rows[l] # None
      BY <1>3 DEF Delete, IsRow, BoundIn
  <2>2. rows[l] \in Row /\ Given(rows[l])
      BY <1>t, <2>1 DEF Table, AllGiven, IsRow
  <2>3. QED
      BY <1>t, <1>b, <2>1, <2>2
<1>4. ASSUME NEW a \in Requests, NEW l \in Libraries, Update(a, l) PROVE IInv'
  <2>1. Begin(a, "update", l, rows[l]) /\ given' = given /\ rows[l] # None
      BY <1>4 DEF Update, IsRow, BoundIn
  <2>2. rows[l] \in Row /\ Given(rows[l])
      BY <1>t, <2>1 DEF Table, AllGiven, IsRow
  <2>3. QED
      BY <1>t, <1>b, <2>1, <2>2
<1>5. ASSUME NEW a \in Requests, NEW l \in Libraries, Fix(a, l) PROVE IInv'
  <2>1. Begin(a, "fix", l, rows[l]) /\ given' = given /\ rows[l] # None
      BY <1>5 DEF Fix, IsRow, BoundIn
  <2>2. rows[l] \in Row /\ Given(rows[l])
      BY <1>t, <2>1 DEF Table, AllGiven, IsRow
  <2>3. QED
      BY <1>t, <1>b, <2>1, <2>2
<1>6. ASSUME NEW a \in Requests, NEW l \in Libraries, NEW d \in Datasets, Bind(a, l, d) PROVE IInv'
  <2> DEFINE row == [rows[l] EXCEPT !.ref = d, !.sync = "unknown"]
  <2>1. Begin(a, "bound", l, row) /\ given' = given /\ rows[l] # None /\ orphan[d] = "open"
      BY <1>6 DEF Bind, IsRow
  <2>2. rows[l] \in Row
      BY <1>t, <2>1 DEF Table
  <2>3. row \in Row /\ row.ref = d
      BY <2>2 DEF Row
  <2>4. Given(row)
      BY <2>1, <2>3 DEF Given, AllGiven
  <2> HIDE DEF row
  <2>5. QED
      BY <1>t, <1>b, <2>1, <2>3, <2>4
<1>7. ASSUME NEW a \in Requests, NEW l \in Libraries, NEW d \in Datasets, Adopt(a, l, d) PROVE IInv'
  <2> DEFINE row == [NewRow EXCEPT !.ref = d]
  <2>1. Begin(a, "adopted", l, row) /\ given' = given \cup {l} /\ orphan[d] = "open"
      BY <1>7 DEF Adopt
  <2>2. row \in Row /\ row.ref = d
      BY DEF NewRow, Row
  <2>3. Given(row)
      BY <2>1, <2>2 DEF Given, AllGiven
  <2> HIDE DEF row
  <2>4. QED
      BY <1>t, <1>b, <2>1, <2>2, <2>3
<1>8. ASSUME NEW d \in Datasets, Ignore(d) PROVE IInv'
  <2>1. /\ orphan' = [orphan EXCEPT ![d] = "ignored"] /\ BoundsOK'
        /\ UNCHANGED <<rows, engine, given, task, pass>>
      BY <1>8, <1>t DEF Ignore, BoundsOK
  <2>2. orphan' \in [Datasets -> Orphan] /\ \A e \in Datasets : orphan'[e] = "open" => orphan[e] = "open"
      BY <1>t, <2>1 DEF Orphan
  <2>3. QED
      BY <1>r, <1>t, <2>1, <2>2 DEF Exists, IsRow
<1>9. ASSUME NEW a \in Requests, NEW d \in Datasets, CallCreate(a, d) PROVE IInv'
  <2>1. /\ task[a] # None /\ task[a] \in Task /\ d \notin given /\ given' = given \cup {d}
        /\ engine' = [engine EXCEPT ![d] = Live(task[a].lib)] /\ UNCHANGED <<rows, orphan, pass>>
      BY <1>9, <1>t DEF CallCreate, Calling
  <2>2. task[a].row \in Row /\ task[a].lib \in Libraries /\ task[a].op = "create"
      BY <1>9, <2>1 DEF Task, CallCreate
  <2>3. /\ engine' \in [Datasets -> Names \cup {None}]
        /\ \A e \in Datasets : e # d => engine'[e] = engine[e]
      BY <1>t, <2>1, <2>2, NamesOK
  <2>4. PICK row \in Row : row = [task[a].row EXCEPT !.ref = d] /\ row.ref = d
    <3> DEFINE row == [task[a].row EXCEPT !.ref = d]
    <3>1. row \in Row /\ row.ref = d
        BY <2>2 DEF Row
    <3>2. QED
        BY <3>1
  <2>5. BoundsOK' /\ (Goes(a, row) \/ Ends(a))
      BY <1>9, <1>t, <2>4 DEF CallCreate, BoundsOK, bounds, Fault
  <2>6. CASE Goes(a, row)
    <3>1. /\ task' \in [Requests -> Task \cup {None}]
          /\ task'[a].row = row /\ task'[a].op = "create"
          /\ \A b \in Requests : b # a => task'[b] = task[b]
        BY <2>1, <2>2, <2>6, GoesOK
    <3>2. Given(task[a].row)'
        BY <2>1, <2>4, <3>1 DEF Given
    <3>3. QED
        BY <1>r, <1>t, <2>1, <2>3, <2>5, <3>1, <3>2 DEF Exists, IsRow
  <2>7. CASE Ends(a)
    <3>1. /\ task' \in [Requests -> Task \cup {None}] /\ task'[a] = None
          /\ \A b \in Requests : b # a => task'[b] = task[b]
        BY <2>7, EndsOK
    <3>2. QED
        BY <1>r, <1>t, <2>1, <2>3, <2>5, <3>1 DEF Exists, IsRow
  <2>8. QED
      BY <2>5, <2>6, <2>7
<1>10. ASSUME NEW a \in Requests, CallCreateFails(a) PROVE IInv'
  <2>1. Ends(a) /\ BoundsOK' /\ UNCHANGED <<rows, engine, orphan, given, pass>>
      BY <1>10, <1>t DEF CallCreateFails, Fault, BoundsOK
  <2>2. /\ task' \in [Requests -> Task \cup {None}] /\ task'[a] = None
        /\ \A b \in Requests : b # a => task'[b] = task[b]
      BY <2>1, EndsOK
  <2>3. QED
      BY <1>r, <1>t, <2>1, <2>2 DEF Exists, IsRow
<1>11. ASSUME NEW a \in Requests, CallDelete(a) PROVE IInv'
  <2>1. /\ task[a] # None /\ task[a] \in Task /\ task[a].op = "delete"
        /\ UNCHANGED <<rows, orphan, given, pass>> /\ BoundsOK'
      BY <1>11, <1>t DEF CallDelete, Calling, Fault, BoundsOK, bounds
  <2>2. task[a].row \in Row /\ Given(task[a].row)
      BY <2>1 DEF Task, AllGiven
  <2>3. PICK d \in Datasets \cup {None} : d = task[a].row.ref
      BY <2>2 DEF Row
  <2>4. /\ engine' = engine \/ engine' = [engine EXCEPT ![d] = None]
        /\ Ends(a) \/ (Goes(a, task[a].row) /\ (d # None => engine' = [engine EXCEPT ![d] = None]))
      BY <1>11, <2>3 DEF CallDelete
  <2>5. /\ engine' \in [Datasets -> Names \cup {None}]
        /\ \A e \in Datasets : engine'[e] # None => engine[e] # None
      BY <1>t, <2>4
  <2>6. CASE Goes(a, task[a].row) /\ (d # None => engine' = [engine EXCEPT ![d] = None])
    <3>1. /\ task' \in [Requests -> Task \cup {None}] /\ task'[a].row = task[a].row
          /\ \A b \in Requests : b # a => task'[b] = task[b]
        BY <2>1, <2>2, <2>6, GoesOK
    <3>2. Given(task[a].row)' /\ (task'[a].row.ref = None \/ ~Exists(task[a].row.ref)')
        BY <1>t, <2>1, <2>2, <2>3, <2>6, <3>1 DEF Given, Exists
    <3>3. QED
        BY <1>r, <1>t, <2>1, <2>5, <3>1, <3>2 DEF Exists, IsRow
  <2>7. CASE Ends(a)
    <3>1. /\ task' \in [Requests -> Task \cup {None}] /\ task'[a] = None
          /\ \A b \in Requests : b # a => task'[b] = task[b]
        BY <2>7, EndsOK
    <3>2. QED
        BY <1>r, <1>t, <2>1, <2>5, <3>1 DEF Exists, IsRow
  <2>8. QED
      BY <2>4, <2>6, <2>7
<1>12. ASSUME NEW a \in Requests, CallRename(a) PROVE IInv'
  <2>1. /\ task[a] # None /\ task[a] \in Task /\ task[a].op # "delete"
        /\ UNCHANGED <<rows, orphan, given, pass>> /\ BoundsOK'
    <3>1. task[a] # None /\ task[a].op # "delete" /\ UNCHANGED <<rows, orphan, given, pass>>
        BY <1>12 DEF CallRename, Calling, Renames
    <3>2. UNCHANGED bounds \/ Fault
        BY <1>12 DEF CallRename
    <3>3. BoundsOK'
        BY <1>t, <3>2 DEF Fault, BoundsOK, bounds
    <3>4. QED
        BY <1>t, <3>1, <3>3
  <2>2. task[a].row \in Row /\ Given(task[a].row) /\ task[a].lib \in Libraries
      BY <2>1 DEF Task, AllGiven
  <2>3. NameFor(task[a]) \in Names
      BY <2>2, NamesOK DEF NameFor
  <2>4. (\E row \in Row : Goes(a, row) /\ row.ref = task[a].row.ref) \/ Ends(a)
    <3>1. \/ Goes(a, Written(task[a], "consistent")) \/ Goes(a, Written(task[a], "missing"))
          \/ Goes(a, Written(task[a], "drift")) \/ Ends(a)
        BY <1>12 DEF CallRename
    <3>2. QED
        BY <2>1, <3>1, WrittenOK
  <2>5. /\ engine' \in [Datasets -> Names \cup {None}]
        /\ \A e \in Datasets : engine'[e] # None => engine[e] # None
    <3>1. \/ engine' = engine
          \/ /\ engine' = [engine EXCEPT ![task[a].row.ref] = NameFor(task[a])]
             /\ Exists(task[a].row.ref)
        BY <1>12 DEF CallRename
    <3>2. QED
        BY <1>t, <2>3, <3>1 DEF Exists
  <2>6. CASE \E row \in Row : Goes(a, row) /\ row.ref = task[a].row.ref
    <3>1. PICK row \in Row : Goes(a, row) /\ row.ref = task[a].row.ref
        BY <2>6
    <3>2. /\ task' \in [Requests -> Task \cup {None}]
          /\ task'[a].row = row /\ task'[a].op = task[a].op
          /\ \A b \in Requests : b # a => task'[b] = task[b]
        BY <2>1, <3>1, GoesOK
    <3>3. Given(task[a].row)'
        BY <2>1, <2>2, <3>1, <3>2 DEF Given
    <3>4. QED
        BY <1>r, <1>t, <2>1, <2>5, <3>2, <3>3 DEF Exists, IsRow
  <2>7. CASE Ends(a)
    <3>1. /\ task' \in [Requests -> Task \cup {None}] /\ task'[a] = None
          /\ \A b \in Requests : b # a => task'[b] = task[b]
        BY <2>7, EndsOK
    <3>2. QED
        BY <1>r, <1>t, <2>1, <2>5, <3>1 DEF Exists, IsRow
  <2>8. QED
      BY <2>4, <2>6, <2>7
<1>13. ASSUME NEW a \in Requests, NoCall(a) PROVE IInv'
  <2>1. /\ task[a] # None /\ task[a] \in Task /\ task[a].op \in {"archive", "update"}
        /\ UNCHANGED <<rows, engine, orphan, given, pass>> /\ BoundsOK'
    <3>1. task[a] # None /\ task[a].op \in {"archive", "update"} /\ UNCHANGED <<rows, engine, orphan, given, pass>>
        BY <1>13 DEF NoCall, Calling
    <3>2. UNCHANGED bounds \/ Fault
        BY <1>13 DEF NoCall
    <3>3. BoundsOK'
        BY <1>t, <3>2 DEF Fault, BoundsOK, bounds
    <3>4. QED
        BY <1>t, <3>1, <3>3
  <2>2. task[a].row \in Row /\ Given(task[a].row) /\ task[a].row.sync \in {"unknown", "consistent", "missing", "drift"}
      BY <2>1 DEF Task, AllGiven, Row
  <2>4. (\E row \in Row : Goes(a, row) /\ row.ref = task[a].row.ref) \/ Ends(a)
    <3>1. \/ Goes(a, Written(task[a], task[a].row.sync))
          \/ \E on \in BOOLEAN : \/ Goes(a, [task[a].row EXCEPT !.enabled = on])
                                 \/ Goes(a, [task[a].row EXCEPT !.enabled = on, !.sync = "drift"])
        BY <1>13 DEF NoCall
    <3>2. CASE Goes(a, Written(task[a], task[a].row.sync))
        BY <2>1, <2>2, <3>2, WrittenOK
    <3>3. ASSUME NEW on \in BOOLEAN
          PROVE  LET r == [task[a].row EXCEPT !.enabled = on]
                     q == [task[a].row EXCEPT !.enabled = on, !.sync = "drift"]
                 IN  /\ r \in Row /\ r.ref = task[a].row.ref
                     /\ q \in Row /\ q.ref = task[a].row.ref
        BY <2>2 DEF Row
    <3>4. QED
        BY <3>1, <3>2, <3>3
  <2>5. /\ engine' \in [Datasets -> Names \cup {None}]
        /\ \A e \in Datasets : engine'[e] # None => engine[e] # None
      BY <1>t, <2>1
  <2>6. CASE \E row \in Row : Goes(a, row) /\ row.ref = task[a].row.ref
    <3>1. PICK row \in Row : Goes(a, row) /\ row.ref = task[a].row.ref
        BY <2>6
    <3>2. /\ task' \in [Requests -> Task \cup {None}]
          /\ task'[a].row = row /\ task'[a].op = task[a].op
          /\ \A b \in Requests : b # a => task'[b] = task[b]
        BY <2>1, <3>1, GoesOK
    <3>3. Given(task[a].row)'
        BY <2>1, <2>2, <3>1, <3>2 DEF Given
    <3>4. QED
        BY <1>r, <1>t, <2>1, <2>5, <3>2, <3>3 DEF Exists, IsRow
  <2>7. CASE Ends(a)
    <3>1. /\ task' \in [Requests -> Task \cup {None}] /\ task'[a] = None
          /\ \A b \in Requests : b # a => task'[b] = task[b]
        BY <2>7, EndsOK
    <3>2. QED
        BY <1>r, <1>t, <2>1, <2>5, <3>1 DEF Exists, IsRow
  <2>8. QED
      BY <2>4, <2>6, <2>7
<1>14. ASSUME NEW a \in Requests, Commit(a) PROVE IInv'
  <2>1. /\ task[a] # None /\ task[a] \in Task /\ Ends(a)
        /\ UNCHANGED <<engine, given, pass>> /\ BoundsOK'
      BY <1>14, <1>t DEF Commit, BoundsOK, bounds
  <2>2. task[a].row \in Row /\ Given(task[a].row) /\ task[a].lib \in Libraries
      BY <2>1 DEF Task, AllGiven
  <2>3. /\ task' \in [Requests -> Task \cup {None}] /\ task'[a] = None
        /\ \A b \in Requests : b # a => task'[b] = task[b]
      BY <2>1, EndsOK
  <2>4. PICK v \in Row \cup {None} :
           /\ rows' = [rows EXCEPT ![task[a].lib] = v]
           /\ v # None => Given(v) \/ v = rows[task[a].lib]
    <3> DEFINE l == task[a].lib
               w == [rows[l] EXCEPT !.sync = "consistent"]
    <3>1. \/ rows' = [rows EXCEPT ![l] = task[a].row] \/ rows' = [rows EXCEPT ![l] = None]
          \/ rows' = [rows EXCEPT ![l] = rows[l]]
          \/ IsRow(l) /\ rows' = [rows EXCEPT ![l] = w]
        BY <1>14, <1>t DEF Commit, Table
    <3>2. rows[l] \in Row \cup {None} /\ (IsRow(l) => Given(rows[l]))
        BY <1>t, <2>2 DEF Table, AllGiven
    <3>3. IsRow(l) => w \in Row /\ w.ref = rows[l].ref
        BY <3>2 DEF IsRow, Row
    <3>4. IsRow(l) => Given(w)
        BY <3>2, <3>3 DEF Given
    <3> HIDE DEF w
    <3>5. QED
        BY <2>2, <3>1, <3>2, <3>3, <3>4
  <2>5. rows' \in Table /\ \A l \in Libraries : IsRow(l)' => Given(rows[l])' \/ rows'[l] = rows[l]
      BY <1>t, <2>1, <2>4 DEF Table, IsRow, Given
  <2>6. orphan' \in [Datasets -> Orphan] /\ \A e \in Datasets : orphan'[e] = "open" => orphan[e] = "open"
    <3>1. \/ orphan' = orphan
          \/ task[a].op \in {"adopted", "bound"} /\ orphan' = [orphan EXCEPT ![task[a].row.ref] = task[a].op]
        BY <1>14 DEF Commit
    <3>2. QED
        BY <1>t, <3>1 DEF Orphan
  <2>7. QED
      BY <1>r, <1>t, <2>1, <2>3, <2>5, <2>6 DEF Exists
<1>15. ASSUME NEW a \in Requests, Rollback(a) PROVE IInv'
  <2>1. Ends(a) /\ BoundsOK' /\ UNCHANGED <<rows, engine, orphan, given, pass>>
      BY <1>15, <1>t DEF Rollback, Fault, BoundsOK
  <2>2. /\ task' \in [Requests -> Task \cup {None}] /\ task'[a] = None
        /\ \A b \in Requests : b # a => task'[b] = task[b]
      BY <2>1, EndsOK
  <2>3. QED
      BY <1>r, <1>t, <2>1, <2>2 DEF Exists, IsRow
\* What a step of a pass has to show.
<1>p. ASSUME UNCHANGED <<engine, given, task>>, BoundsOK', rows' \in Table,
             orphan' \in [Datasets -> Orphan], pass' \in Pass \cup {None},
             \A d \in Datasets : orphan'[d] = "open" => d \in given,
             \A l \in Libraries : rows'[l] # None => Given(rows'[l]),
             pass' # None => /\ \A d \in Datasets : pass'.seen[d] # None => d \in given
                             /\ \A l \in Libraries : pass'.rows[l] # None => Given(pass'.rows[l])
      PROVE  IInv'
  <2>1. TypeOK'
      BY <1>p, <1>t DEF TypeOK, BoundsOK
  <2>2. AllGiven'
      BY <1>p, <1>t DEF AllGiven, Given, Exists, IsRow
  <2>3. DatasetGone'
      BY <1>p DEF DatasetGone, Exists
  <2>4. QED
      BY <2>1, <2>2, <2>3
<1>g. /\ \A d \in Datasets : orphan[d] = "open" => d \in given
      /\ \A l \in Libraries : rows[l] # None => Given(rows[l])
      /\ pass # None => /\ \A d \in Datasets : pass.seen[d] # None => d \in given
                        /\ \A l \in Libraries : pass.rows[l] # None => Given(pass.rows[l])
                        /\ pass \in Pass /\ pass.rows \in Table
                        /\ pass.seen \in [Datasets -> Names \cup {None}]
                        /\ pass.found \in [Datasets -> Orphan]
    BY <1>t DEF AllGiven, IsRow, Pass
<1>16. CASE List
  <2>1. /\ UNCHANGED <<rows, engine, orphan, given, task, bounds>>
        /\ pass' = [at |-> "read", seen |-> engine, rows |-> [l \in Libraries |-> None],
                    found |-> [d \in Datasets |-> "none"]]
      BY <1>16 DEF List
  <2>2. pass' \in Pass /\ pass'.seen = engine /\ pass'.rows = [l \in Libraries |-> None]
      BY <1>t, <2>1 DEF Pass, Table, Orphan
  <2>3. BoundsOK'
      BY <1>t, <2>1 DEF BoundsOK, bounds
  <2>4. QED
      BY <1>p, <1>t, <1>g, <2>1, <2>2, <2>3 DEF AllGiven, Exists
<1>17. CASE ReadRows
  <2>1. /\ UNCHANGED <<rows, engine, orphan, given, task, bounds>> /\ pass # None
      BY SMTT(40), <1>17 DEF ReadRows, At
  <2>2. PICK first \in Firsts :
           pass' = [pass EXCEPT !.at = "save", !.rows =
                      [l \in Libraries |->
                          IF l \notin BoundIn(rows) THEN None
                          ELSE Marked(l, rows[l], IF l \in first THEN pass.seen[rows[l].ref] ELSE None)]]
      BY <1>17 DEF ReadRows
  <2> DEFINE table == [l \in Libraries |->
                          IF l \notin BoundIn(rows) THEN None
                          ELSE Marked(l, rows[l], IF l \in first THEN pass.seen[rows[l].ref] ELSE None)]
  <2>3. table \in Table /\ \A l \in Libraries : table[l] # None => Given(table[l])
    <3>1. ASSUME NEW l \in Libraries, l \in BoundIn(rows)
          PROVE  table[l] \in Row /\ Given(table[l])
      <4>1. rows[l] \in Row /\ Given(rows[l])
          BY <1>t, <1>g, <3>1 DEF BoundIn, Table
      <4>2. table[l] = Marked(l, rows[l], IF l \in first THEN pass.seen[rows[l].ref] ELSE None)
          BY <3>1
      <4>3. table[l] \in Row /\ table[l].ref = rows[l].ref
          BY <4>1, <4>2, MarkedOK
      <4>4. QED
          BY <4>1, <4>3 DEF Given
    <3>2. ASSUME NEW l \in Libraries, l \notin BoundIn(rows) PROVE table[l] = None
        BY <3>2
    <3> HIDE DEF table
    <3>3. table = [l \in Libraries |-> table[l]]
        BY DEF table
    <3>4. QED
        BY <3>1, <3>2, <3>3 DEF Table
  <2>4. pass' = [pass EXCEPT !.at = "save", !.rows = table]
      BY <2>2
  <2> HIDE DEF table
  <2>5. pass' \in Pass /\ pass'.seen = pass.seen /\ pass'.rows = table
      BY <1>g, <2>1, <2>3, <2>4 DEF Pass
  <2>6. BoundsOK'
      BY <1>t, <2>1 DEF BoundsOK, bounds
  <2>7. QED
      BY <1>p, <1>t, <1>g, <2>1, <2>3, <2>5, <2>6 DEF Given
<1>18. CASE SaveRows
  <2>1. /\ UNCHANGED <<engine, orphan, given, task, bounds>> /\ pass # None
        /\ pass' = [pass EXCEPT !.at = "find"] /\ rows' = [l \in Libraries |-> Saved(l)]
      BY <1>18 DEF SaveRows, At, Moves
  <2>2. pass' \in Pass /\ pass'.seen = pass.seen /\ pass'.rows = pass.rows
      BY <1>g, <2>1 DEF Pass
  <2>3. rows' \in Table /\ \A l \in Libraries : rows'[l] # None => Given(rows'[l])
      BY <1>t, <1>g, <2>1 DEF Saved, Table
  <2>4. BoundsOK'
      BY <1>t, <2>1 DEF BoundsOK, bounds
  <2>5. QED
      BY <1>p, <1>t, <1>g, <2>1, <2>2, <2>3, <2>4
<1>19. CASE FindOrphans
  <2>1. /\ UNCHANGED <<rows, engine, orphan, given, task, bounds>> /\ pass # None
        /\ pass' = [pass EXCEPT !.at = "upsert", !.found = orphan]
      BY <1>19 DEF FindOrphans, At
  <2>2. pass' \in Pass /\ pass'.seen = pass.seen /\ pass'.rows = pass.rows
      BY <1>g, <1>t, <2>1 DEF Pass
  <2>3. BoundsOK'
      BY <1>t, <2>1 DEF BoundsOK, bounds
  <2>4. QED
      BY <1>p, <1>t, <1>g, <2>1, <2>2, <2>3
<1>20. CASE UpsertOrphans
  <2>1. /\ UNCHANGED <<rows, engine, given, task, bounds>> /\ pass # None /\ pass' = None
        /\ orphan' = [d \in Datasets |->
                         IF d \notin Unmatched THEN Closed(orphan[d])
                         ELSE IF pass.found[d] \in Resolved THEN pass.found[d] ELSE "open"]
      BY <1>20 DEF UpsertOrphans, At
  <2>2. \A d \in Datasets : Closed(orphan[d]) \in Orphan /\ Closed(orphan[d]) # "open"
      BY <1>t DEF Closed, Orphan
  <2>3. \A d \in Datasets : d \in Unmatched => pass.seen[d] # None
      BY DEF Unmatched
  <2>4. orphan' \in [Datasets -> Orphan] /\ \A d \in Datasets : orphan'[d] = "open" => d \in given
      BY <1>g, <2>1, <2>2, <2>3 DEF Orphan, Resolved
  <2>5. BoundsOK'
      BY <1>t, <2>1 DEF BoundsOK, bounds
  <2>6. QED
      BY <1>p, <1>t, <1>g, <2>1, <2>4, <2>5
<1>21. CASE Converge
  <2>1. UNCHANGED <<engine, orphan, given, task, pass, bounds>>
      BY <1>21 DEF Converge
  <2>2. ASSUME NEW l \in Libraries
        PROVE  \/ rows'[l] = rows[l]
               \/ IsRow(l) /\ rows'[l] \in Row /\ rows'[l].ref = rows[l].ref
    <3>1. IsRow(l) => rows[l] \in Row
        BY <1>t DEF IsRow, Table
    <3>2. \/ rows'[l] = rows[l]
          \/ IsRow(l) /\ rows'[l] = [rows[l] EXCEPT !.enabled = FALSE, !.archived = TRUE, !.since = "never"]
        BY <1>21 DEF Converge
    <3>3. QED
        BY <3>1, <3>2 DEF Row
  <2>3. rows' \in Table
    <3>1. \A l \in Libraries : rows'[l] \in Row \cup {None}
        BY <1>t, <2>2 DEF Table
    <3>2. DOMAIN rows' = Libraries /\ rows' = [l \in Libraries |-> rows'[l]]
        BY <1>21 DEF Converge
    <3>3. QED
        BY <3>1, <3>2 DEF Table
  <2>4. \A l \in Libraries : rows'[l] # None => Given(rows'[l])
      BY <1>g, <2>2 DEF Given, IsRow
  <2>5. BoundsOK'
      BY <1>t, <2>1 DEF BoundsOK, bounds
  <2>6. QED
      BY <1>p, <1>t, <1>g, <2>1, <2>3, <2>4, <2>5
<1>22. CASE TimePasses
  <2>1. UNCHANGED <<engine, orphan, given, task, pass, bounds>>
      BY <1>22 DEF TimePasses
  <2>2. ASSUME NEW l \in Libraries
        PROVE  \/ rows'[l] = rows[l]
               \/ IsRow(l) /\ rows'[l] \in Row /\ rows'[l].ref = rows[l].ref
    <3>1. IsRow(l) => rows[l] \in Row
        BY <1>t DEF IsRow, Table
    <3>2. \/ rows'[l] = rows[l]
          \/ IsRow(l) /\ rows'[l] = [rows[l] EXCEPT !.since = "due"]
        BY <1>22 DEF TimePasses
    <3>3. QED
        BY <3>1, <3>2 DEF Row
  <2>3. rows' \in Table
    <3>1. \A l \in Libraries : rows'[l] \in Row \cup {None}
        BY <1>t, <2>2 DEF Table
    <3>2. DOMAIN rows' = Libraries /\ rows' = [l \in Libraries |-> rows'[l]]
        BY <1>22 DEF TimePasses
    <3>3. QED
        BY <3>1, <3>2 DEF Table
  <2>4. \A l \in Libraries : rows'[l] # None => Given(rows'[l])
      BY <1>g, <2>2 DEF Given, IsRow
  <2>5. BoundsOK'
      BY <1>t, <2>1 DEF BoundsOK, bounds
  <2>6. QED
      BY <1>p, <1>t, <1>g, <2>1, <2>3, <2>4, <2>5
<1>23. ASSUME NEW d \in Datasets, Drift(d) PROVE IInv'
  <2>1. /\ UNCHANGED <<rows, orphan, task, pass>> /\ BoundsOK'
        /\ \/ d \notin given /\ given' = given \cup {d} /\ engine' = [engine EXCEPT ![d] = Other]
           \/ Exists(d) /\ given' = given /\ \E name \in {Other, None} : engine' = [engine EXCEPT ![d] = name]
      BY <1>23, <1>t DEF Drift, Console, BoundsOK
  <2>2. Other \in Names
      BY DEF Other, Names
  <2>3. /\ engine' \in [Datasets -> Names \cup {None}]
        /\ \A e \in Datasets : engine'[e] # None => engine[e] # None \/ (e = d /\ d \in given')
        /\ \A e \in given : e \in Datasets /\ engine'[e] # None => engine[e] # None
      BY <1>t, <2>1, <2>2 DEF Exists
  <2>4. QED
      BY <1>r, <1>t, <2>1, <2>3 DEF Exists, IsRow
<1>24. CASE UNCHANGED vars
    BY <1>24 DEF vars, bounds, TypeOK, AllGiven, Given, DatasetGone, Exists, IsRow
<1>25. QED
    BY <1>1, <1>2, <1>3, <1>4, <1>5, <1>6, <1>7, <1>8, <1>9, <1>10, <1>11, <1>12, <1>13, <1>14,
       <1>15, <1>16, <1>17, <1>18, <1>19, <1>20, <1>21, <1>22, <1>23, <1>24 DEF Next, Serve,
       Reconcile

LEMMA Invariance == Spec => []IInv
BY InitIInv, StepIInv, PTL DEF Spec

\* Every variable keeps its type.
THEOREM TypeCorrect == Spec => []TypeOK
<1>1. IInv => TypeOK
    BY DEF IInv
<1>2. QED
    BY Invariance, <1>1, PTL

\* Rows go only by the commit of a deletion, whatever the reconciler saves beside it.
LEMMA OnlyCommitDeletes ==
    ASSUME TypeOK, Next, NEW l \in Libraries, rows[l] # None, rows'[l] = None
    PROVE  \E a \in Requests : Commit(a) /\ task[a].op = "delete" /\ task[a].lib = l
<1>1. rows \in Table /\ rows[l] \in Row
    BY DEF TypeOK, Table
<1>2. ASSUME NEW a \in Requests, Commit(a)
      PROVE  task[a].op = "delete" /\ task[a].lib = l
  <2>1. task[a] \in Task /\ task[a].row \in Row
      BY <1>2 DEF Commit, TypeOK, Task
  <2> DEFINE w == [rows[l] EXCEPT !.sync = "consistent"]
  <2>2. w \in Row
      BY <1>1 DEF Row
  <2>3. \/ rows'[l] = rows[l] \/ rows'[l] = task[a].row \/ rows'[l] = w
        \/ task[a].op = "delete" /\ task[a].lib = l
      BY <1>1, <1>2 DEF Commit, Table
  <2> HIDE DEF w
  <2>4. QED
      BY <1>1, <2>1, <2>2, <2>3, NoneAssumption
<1>3. ~SaveRows
    BY <1>1 DEF SaveRows, Saved
<1>4. ~Converge
  <2> DEFINE w == [rows[l] EXCEPT !.enabled = FALSE, !.archived = TRUE, !.since = "never"]
  <2>1. w \in Row
      BY <1>1 DEF Row
  <2>2. Converge => rows'[l] \in {rows[l], w}
      BY DEF Converge
  <2> HIDE DEF w
  <2>3. QED
      BY <1>1, <2>1, <2>2, NoneAssumption
<1>5. ~TimePasses
  <2> DEFINE w == [rows[l] EXCEPT !.since = "due"]
  <2>1. w \in Row
      BY <1>1 DEF Row
  <2>2. TimePasses => rows'[l] \in {rows[l], w}
      BY DEF TimePasses
  <2> HIDE DEF w
  <2>3. QED
      BY <1>1, <2>1, <2>2, NoneAssumption
<1>6. ASSUME NEW a \in Requests
      PROVE  /\ \A k \in Libraries : Create(a, k) \/ Archive(a, k) \/ Update(a, k) => rows' = rows
             /\ \A k \in Libraries : Delete(a, k) \/ Fix(a, k) => rows' = rows
             /\ \A k \in Libraries, d \in Datasets : Bind(a, k, d) \/ Adopt(a, k, d) => rows' = rows
  <2>1. \A op, k, row : Begin(a, op, k, row) => rows' = rows
      BY DEF Begin
  <2>2. QED
      BY <2>1 DEF Create, Archive, Update, Delete, Fix, Bind, Adopt
<1>c. ASSUME NEW a \in Requests
      PROVE  /\ \A d \in Datasets : CallCreate(a, d) => rows' = rows
             /\ CallCreateFails(a) => rows' = rows
             /\ CallDelete(a) => rows' = rows
             /\ CallRename(a) => rows' = rows
             /\ NoCall(a) => rows' = rows
             /\ Rollback(a) => rows' = rows
  <2>1. /\ \A d \in Datasets : CallCreate(a, d) => rows' = rows
        /\ CallCreateFails(a) => rows' = rows
      BY DEF CallCreate, CallCreateFails
  <2>2. CallDelete(a) => rows' = rows
      BY DEF CallDelete
  <2>3. CallRename(a) => rows' = rows
      BY DEF CallRename
  <2>4. NoCall(a) => rows' = rows
      BY DEF NoCall
  <2>5. Rollback(a) => rows' = rows
      BY DEF Rollback
  <2>6. QED
      BY <2>1, <2>2, <2>3, <2>4, <2>5
<1>7. /\ List \/ ReadRows \/ FindOrphans \/ UpsertOrphans => rows' = rows
      /\ \A d \in Datasets : Ignore(d) \/ Drift(d) => rows' = rows
    BY DEF List, ReadRows, FindOrphans, UpsertOrphans, Ignore, Drift
<1>8. QED
    BY <1>2, <1>3, <1>4, <1>5, <1>6, <1>c, <1>7 DEF Next, Serve, Reconcile

\* A library is deleted only when the dataset its deletion has read is gone from the
\* engine (KbLibraryService.physicalDelete), whatever fails and whoever else works
\* on rows and datasets.
THEOREM DeletedWithDatasetHolds == Spec => DeletedWithDataset
<1> DEFINE Gone(l) ==
        \E a \in Requests : /\ task[a] # None /\ task[a].op = "delete" /\ task[a].lib = l
                            /\ task[a].row.ref = None \/ ~Exists(task[a].row.ref)
           A == \A l \in Libraries : rows[l] # None /\ rows'[l] = None => Gone(l)
<1>1. IInv /\ [Next]_vars => [A]_vars
  <2> SUFFICES ASSUME IInv, Next, NEW l \in Libraries, rows[l] # None, rows'[l] = None
               PROVE  Gone(l)
      OBVIOUS
  <2>1. PICK a \in Requests : Commit(a) /\ task[a].op = "delete" /\ task[a].lib = l
      BY OnlyCommitDeletes DEF IInv
  <2>2. QED
      BY <2>1 DEF IInv, DatasetGone, Commit
<1>2. QED
    BY Invariance, <1>1, PTL DEF Spec, DeletedWithDataset
=============================================================================
