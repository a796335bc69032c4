----------------------------- MODULE KbLibraries -----------------------------
(***************************************************************************)
(* The knowledge bases of mis-kb and the datasets of the retrieval engine  *)
(* (RAGFlow) behind them.  A row of kb_library names its dataset; nothing  *)
(* but the order of the calls keeps the two systems together.  Requests    *)
(* (KbLibraryService, KbEngineOrphanService, KbEngineLegacyRenameService)  *)
(* read a row, call the engine and write the row when their transaction    *)
(* commits; the reconciler (KbEngineReconcileService) compares both sides, *)
(* marks the rows and keeps a table of datasets that no row names.         *)
(*                                                                         *)
(* Rows have no version column and every write of a row writes all of its  *)
(* columns.  Documents are not modelled.                                   *)
(***************************************************************************)
EXTENDS Naturals, FiniteSets

CONSTANTS
    Libraries, Datasets,    \* the ids that may be given out
    Unbound,                \* libraries from before the engine: without a dataset
    Requests,               \* requests that run at the same time
    None,
    MaxRequests,            \* bound: requests
    MaxFaults,              \* bound: failed engine calls and commits
    MaxConsole              \* bound: changes by hand in the engine's console

ASSUME LibraryAssumption == Unbound \subseteq Libraries /\ None \notin Libraries \cup Datasets
ASSUME BoundAssumption == MaxRequests \in Nat /\ MaxFaults \in Nat /\ MaxConsole \in Nat

VARIABLES
    rows,       \* kb_library
    engine,     \* the datasets' names in the engine; None: no such dataset
    orphan,     \* kb_engine_orphan, by dataset
    given,      \* the ids given out so far
    task,       \* what each request works on
    pass,       \* the reconcile pass that runs
    requests, faults, console

bounds == <<requests, faults, console>>
vars == <<rows, engine, orphan, given, task, pass, bounds>>

\* A dataset's name, seen from the libraries' own: "live" is what a library's name
\* and category ask for (expectedEngineName), "archived" has the archive prefix.
Live(l) == <<"live", l>>
Archived(l) == <<"archived", l>>
Other == <<"other", None>>
Names == {"live", "archived", "other"} \X (Libraries \cup {None})

\* sync: engine_sync_status.  since: engine_missing_since, before and after the
\* threshold of the convergence.
Row == [ref : Datasets \cup {None}, enabled : BOOLEAN, archived : BOOLEAN,
        sync : {"unknown", "consistent", "missing", "drift"},
        since : {"never", "recent", "due"}]
ASSUME NoneAssumption == None \notin Row
Orphan == {"none", "open", "closed", "bound", "adopted", "ignored"}
Resolved == {"bound", "adopted", "ignored"}     \* resolved_action is set
Table == [Libraries -> Row \cup {None}]
Task == [op : {"create", "archive", "update", "delete", "bound", "adopted", "fix"},
         lib : Libraries, row : Row, at : {"call", "commit"}]
Pass == [at : {"read", "save", "find", "upsert"}, seen : [Datasets -> Names \cup {None}],
         rows : Table, found : [Datasets -> Orphan]]

TypeOK ==
    /\ rows \in Table /\ engine \in [Datasets -> Names \cup {None}]
    /\ orphan \in [Datasets -> Orphan] /\ given \subseteq Libraries \cup Datasets
    /\ task \in [Requests -> Task \cup {None}] /\ pass \in Pass \cup {None}
    /\ requests \in 0..MaxRequests /\ faults \in 0..MaxFaults /\ console \in 0..MaxConsole

NewRow == [ref |-> None, enabled |-> TRUE, archived |-> FALSE, sync |-> "unknown", since |-> "never"]
IsArchived(row) == ~row.enabled /\ row.archived
IsRow(l) == rows[l] # None
BoundIn(table) == {l \in Libraries : table[l] # None /\ table[l].ref # None}
Refs(table) == {table[l].ref : l \in BoundIn(table)}
Exists(d) == engine[d] # None

Init ==
    /\ rows = [l \in Libraries |-> IF l \in Unbound THEN NewRow ELSE None]
    /\ engine = [d \in Datasets |-> None] /\ orphan = [d \in Datasets |-> "none"]
    /\ given = Unbound /\ task = [a \in Requests |-> None] /\ pass = None
    /\ requests = 0 /\ faults = 0 /\ console = 0

Fault == faults < MaxFaults /\ faults' = faults + 1 /\ UNCHANGED <<requests, console>>
Console == console < MaxConsole /\ console' = console + 1 /\ UNCHANGED <<requests, faults>>

-----------------------------------------------------------------------------
(* A request begins: its transaction reads what it is about *)

Begin(a, op, l, row) ==
    /\ task[a] = None /\ requests < MaxRequests
    /\ task' = [task EXCEPT ![a] = [op |-> op, lib |-> l, row |-> row, at |-> "call"]]
    /\ requests' = requests + 1
    /\ UNCHANGED <<rows, engine, orphan, pass, faults, console>>

Create(a, l) ==
    /\ l \notin given /\ given' = given \cup {l}
    /\ Begin(a, "create", l, NewRow)

Archive(a, l) == IsRow(l) /\ Begin(a, "archive", l, rows[l]) /\ UNCHANGED given
Delete(a, l) == IsRow(l) /\ Begin(a, "delete", l, rows[l]) /\ UNCHANGED given

\* update() to another status; with the change back from "archived" the dataset
\* gets its name back.
Restores(row) == IsArchived(row) /\ row.ref # None
Update(a, l) ==
    /\ IsRow(l) /\ UNCHANGED given
    /\ Begin(a, "update", l, rows[l])

\* The rename tool: libraries in use whose dataset has another name.
Fix(a, l) ==
    /\ l \in BoundIn(rows) /\ ~IsArchived(rows[l]) /\ UNCHANGED given
    /\ engine[rows[l].ref] \notin {None, Live(l)}
    /\ Begin(a, "fix", l, rows[l])

\* An orphan is bound to a library without a dataset or gets a library of its own.
Bind(a, l, d) ==
    /\ orphan[d] = "open" /\ IsRow(l) /\ UNCHANGED given
    /\ rows[l].ref = None
    /\ Begin(a, "bound", l, [rows[l] EXCEPT !.ref = d, !.sync = "unknown"])

Adopt(a, l, d) ==
    /\ orphan[d] = "open" /\ l \notin given /\ given' = given \cup {l}
    /\ Begin(a, "adopted", l, [NewRow EXCEPT !.ref = d])

Ignore(d) ==
    /\ orphan[d] = "open" /\ requests < MaxRequests
    /\ orphan' = [orphan EXCEPT ![d] = "ignored"] /\ requests' = requests + 1
    /\ UNCHANGED <<rows, engine, given, task, pass, faults, console>>

-----------------------------------------------------------------------------
(* It calls the engine ... *)

Ends(a) == task' = [task EXCEPT ![a] = None]
Goes(a, row) == task' = [task EXCEPT ![a].row = row, ![a].at = "commit"]
Calling(a) == task[a] # None /\ task[a].at = "call"

\* The dataset of a new library.
CallCreate(a, d) ==
    LET t == task[a] IN
    /\ Calling(a) /\ t.op = "create"
    /\ d \notin given /\ given' = given \cup {d}
    /\ engine' = [engine EXCEPT ![d] = Live(t.lib)]
    /\ \/ Goes(a, [t.row EXCEPT !.ref = d]) /\ UNCHANGED bounds
       \/ Ends(a) /\ Fault
    /\ UNCHANGED <<rows, orphan, pass>>

CallCreateFails(a) ==
    /\ Calling(a) /\ task[a].op = "create" /\ Ends(a) /\ Fault
    /\ UNCHANGED <<rows, engine, orphan, given, pass>>

\* Physical deletion: local rows are touched only after the engine's dataset is
\* gone, or is found missing and the administrator insists.
MutCallDelete(a) ==
    LET t == task[a] d == t.row.ref IN
    /\ Calling(a) /\ t.op = "delete"
    /\ \/ engine' = (IF d = None THEN engine ELSE [engine EXCEPT ![d] = None])
          /\ Goes(a, t.row) /\ UNCHANGED bounds
       \/ UNCHANGED engine /\ Goes(a, t.row) /\ Fault
    /\ UNCHANGED <<rows, orphan, given, pass>>
CallDelete(a) ==
    LET t == task[a] d == t.row.ref IN
    /\ Calling(a) /\ t.op = "delete"
    /\ \/ /\ engine' = (IF d = None THEN engine ELSE [engine EXCEPT ![d] = None])
          /\ UNCHANGED bounds
          /\ Goes(a, t.row) \/ (d # None /\ ~Exists(d) /\ Ends(a))
       \/ /\ d # None /\ Ends(a) /\ Fault
          /\ engine' \in {engine, [engine EXCEPT ![d] = None]}
    /\ UNCHANGED <<rows, orphan, given, pass>>

\* The other operations rename the dataset, if there is one to rename.
Renames(t) == t.op \in {"archive", "bound", "adopted", "fix"} \/ (t.op = "update" /\ Restores(t.row))
MutNameFor(t) == IF t.op = "archive" THEN <<"disabled", t.lib>> ELSE Live(t.lib)
NameFor(t) == IF t.op = "archive" THEN Archived(t.lib) ELSE Live(t.lib)

\* The row as the operation will write it, by what the engine answered.
Written(t, sync) ==
    CASE t.op = "archive" -> [t.row EXCEPT !.enabled = FALSE, !.archived = TRUE, !.sync = sync]
      [] t.op = "update" -> [t.row EXCEPT !.enabled = TRUE, !.archived = FALSE, !.sync = sync]
      [] OTHER -> [t.row EXCEPT !.sync = sync]

\* A dataset that is missing ends an archive with a question, unless it is forced,
\* and ends the tool; the rest goes on with the failure on record.
CallRename(a) ==
    LET t == task[a] d == t.row.ref IN
    /\ Calling(a) /\ Renames(t) /\ d # None
    /\ \/ /\ Exists(d) /\ engine' = [engine EXCEPT ![d] = NameFor(t)]
          /\ Goes(a, Written(t, "consistent")) /\ UNCHANGED bounds
       \/ /\ ~Exists(d) /\ UNCHANGED <<engine, bounds>>
          /\ CASE t.op = "archive" -> Ends(a) \/ Goes(a, Written(t, "missing"))
               [] t.op = "fix" -> Ends(a)
               [] OTHER -> Goes(a, Written(t, "drift"))
       \/ /\ Fault
          /\ engine' \in {engine, IF Exists(d) THEN [engine EXCEPT ![d] = NameFor(t)] ELSE engine}
          /\ IF t.op = "fix" THEN Ends(a) ELSE Goes(a, Written(t, "drift"))
    /\ UNCHANGED <<rows, orphan, given, pass>>

\* No rename: an archive without a dataset, and a change of status or settings
\* alone; settings that the engine does not take are on record.
NoCall(a) ==
    LET t == task[a] IN
    /\ Calling(a)
    /\ \/ t.op = "archive" /\ t.row.ref = None /\ Goes(a, Written(t, t.row.sync)) /\ UNCHANGED bounds
       \/ /\ t.op = "update"
          /\ \E on \in IF Restores(t.row) THEN {FALSE} ELSE BOOLEAN :
                \/ Goes(a, [t.row EXCEPT !.enabled = on]) /\ UNCHANGED bounds
                \/ /\ on /\ t.row.ref # None
                   /\ IF Exists(t.row.ref) THEN Fault ELSE UNCHANGED bounds
                   /\ Goes(a, [t.row EXCEPT !.enabled = on, !.sync = "drift"])
    /\ UNCHANGED <<rows, engine, orphan, given, pass>>

-----------------------------------------------------------------------------
(* ... and commits: an update or deletion of a row that is gone is refused *)

Commit(a) ==
    LET t == task[a] l == t.lib IN
    /\ task[a] # None /\ t.at = "commit" /\ Ends(a)
    /\ rows' = [rows EXCEPT ![l] =
                   CASE t.op \in {"create", "adopted"} -> t.row
                     [] t.op = "delete" -> None
                     [] t.op = "fix" /\ IsRow(l) -> [@ EXCEPT !.sync = "consistent"]
                     [] t.op \in {"archive", "update", "bound"} /\ IsRow(l) -> t.row
                     [] OTHER -> @]
    /\ orphan' = IF t.op = "adopted" \/ (t.op = "bound" /\ IsRow(l))
                   THEN [orphan EXCEPT ![t.row.ref] = t.op] ELSE orphan
    /\ UNCHANGED <<engine, given, pass, bounds>>

Rollback(a) ==
    /\ task[a] # None /\ task[a].at = "commit" /\ Ends(a) /\ Fault
    /\ UNCHANGED <<rows, engine, orphan, given, pass>>

-----------------------------------------------------------------------------
(* reconcile() *)

Moves(at) == pass' = [pass EXCEPT !.at = at]
At(at) == pass # None /\ pass.at = at

\* listLibraries; an error here ends the pass before it has changed anything.
List ==
    /\ pass = None
    /\ pass' = [at |-> "read", seen |-> engine, rows |-> [l \in Libraries |-> None],
                found |-> [d \in Datasets |-> "none"]]
    /\ UNCHANGED <<rows, engine, orphan, given, task, bounds>>

MutNameMatches(l, row, name) == name = Live(l)
NameMatches(l, row, name) ==
    IF IsArchived(row) THEN name[1] = "archived" ELSE name = Live(l)

Marked(l, row, name) ==
    CASE name = None -> [row EXCEPT !.sync = "missing",
                                    !.since = IF @ = "never" THEN "recent" ELSE @]
      [] name # None /\ NameMatches(l, row, name) -> [row EXCEPT !.sync = "consistent", !.since = "never"]
      [] OTHER -> [row EXCEPT !.sync = "drift", !.since = "never"]

\* findAll of the libraries with a dataset.  Of two libraries with the same one,
\* the first finds it.
Firsts == {f \in SUBSET BoundIn(rows) :
              \A d \in Refs(rows) : Cardinality({l \in f : rows[l].ref = d}) = 1}
ReadRows ==
    /\ At("read")
    /\ \E first \in Firsts :
         pass' = [pass EXCEPT !.at = "save", !.rows =
                    [l \in Libraries |->
                        IF l \notin BoundIn(rows) THEN None
                        ELSE Marked(l, rows[l], IF l \in first THEN pass.seen[rows[l].ref] ELSE None)]]
    /\ UNCHANGED <<rows, engine, orphan, given, task, bounds>>

\* saveAll merges the rows as they were read: it undoes what was written since,
\* and inserts again what was deleted.
Saved(l) == IF pass.rows[l] # None THEN pass.rows[l] ELSE rows[l]
SaveRows ==
    /\ At("save") /\ Moves("find")
    /\ rows' = [l \in Libraries |-> Saved(l)]
    /\ UNCHANGED <<engine, orphan, given, task, bounds>>

FindOrphans ==
    /\ At("find")
    /\ pass' = [pass EXCEPT !.at = "upsert", !.found = orphan]
    /\ UNCHANGED <<rows, engine, orphan, given, task, bounds>>

\* upsertOrphans: what no row named is open, unless somebody has dealt with it;
\* what was open and did not show up again is closed.
Unmatched == {d \in Datasets : pass.seen[d] # None} \ Refs(pass.rows)
MutClosed(state) == state
Closed(state) == IF state = "open" THEN "closed" ELSE state
UpsertOrphans ==
    /\ At("upsert") /\ pass' = None
    /\ orphan' = [d \in Datasets |->
                     IF d \notin Unmatched THEN Closed(orphan[d])
                     ELSE IF pass.found[d] \in Resolved THEN pass.found[d] ELSE "open"]
    /\ UNCHANGED <<rows, engine, given, task, bounds>>

\* applyConvergence: libraries that have been missing for long are archived.
Converge ==
    /\ \E l \in Libraries : IsRow(l) /\ rows[l].sync = "missing" /\ rows[l].since = "due"
    /\ rows' = [l \in Libraries |->
                   IF IsRow(l) /\ rows[l].sync = "missing" /\ rows[l].since = "due"
                     THEN [rows[l] EXCEPT !.enabled = FALSE, !.archived = TRUE, !.since = "never"]
                     ELSE rows[l]]
    /\ UNCHANGED <<engine, orphan, given, task, pass, bounds>>

-----------------------------------------------------------------------------
(* Outside *)

TimePasses ==
    /\ \E l \in Libraries : IsRow(l) /\ rows[l].since = "recent"
    /\ rows' = [l \in Libraries |->
                   IF IsRow(l) /\ rows[l].since = "recent" THEN [rows[l] EXCEPT !.since = "due"]
                                                           ELSE rows[l]]
    /\ UNCHANGED <<engine, orphan, given, task, pass, bounds>>

\* A dataset is created, renamed or deleted in the console; or a library gets a new
\* name, which its dataset does not follow.
Drift(d) ==
    /\ Console
    /\ \/ d \notin given /\ given' = given \cup {d} /\ engine' = [engine EXCEPT ![d] = Other]
       \/ Exists(d) /\ UNCHANGED given /\ \E name \in {Other, None} : engine' = [engine EXCEPT ![d] = name]
    /\ UNCHANGED <<rows, orphan, task, pass>>

-----------------------------------------------------------------------------

Serve(a) ==
    \/ \E d \in Datasets : CallCreate(a, d)
    \/ CallCreateFails(a) \/ CallDelete(a) \/ CallRename(a) \/ NoCall(a)
    \/ Commit(a) \/ Rollback(a)

Reconcile == List \/ ReadRows \/ SaveRows \/ FindOrphans \/ UpsertOrphans

Next ==
    \/ \E a \in Requests :
          \/ Serve(a)
          \/ \E l \in Libraries :
                \/ Create(a, l) \/ Archive(a, l) \/ Update(a, l) \/ Delete(a, l) \/ Fix(a, l)
                \/ \E d \in Datasets : Bind(a, l, d) \/ Adopt(a, l, d)
    \/ \E d \in Datasets : Ignore(d) \/ Drift(d)
    \/ Reconcile \/ Converge \/ TimePasses

Spec == Init /\ [][Next]_vars

\* Requests end (HTTP timeouts), and the scheduler starts pass after pass.
FairSpec ==
    /\ Spec
    /\ WF_vars(Reconcile)
    /\ \A a \in Requests : WF_vars(Serve(a))

-----------------------------------------------------------------------------
(* Properties *)

\* What a mark of a row should say, if no other row has the same dataset.
Shares(l) == \E k \in BoundIn(rows) \ {l} : rows[k].ref = rows[l].ref
Right(l) ==
    LET row == rows[l] name == engine[row.ref] IN
    row.sync = CASE name = None -> "missing"
                 [] name = Live(l) -> IF IsArchived(row) THEN "drift" ELSE "consistent"
                 [] name # None /\ name[1] = "archived" -> IF IsArchived(row) THEN "consistent" ELSE "drift"
                 [] OTHER -> "drift"

\* Whatever requests, failures and changes by hand have done to rows and datasets,
\* once they are over the marks of the rows tell the truth and stay so.
MarksSettle == <>[](\A l \in BoundIn(rows) : Shares(l) \/ Right(l))

\* And the table of orphans does: a dataset that no row names is in it, and one
\* that is open in it is named by no row.
OrphansSettle ==
    <>[](\A d \in Datasets :
            /\ Exists(d) /\ d \notin Refs(rows) => orphan[d] \in {"open"} \cup Resolved
            /\ orphan[d] = "open" => Exists(d) /\ d \notin Refs(rows))

\* A library is not deleted while the dataset that the deletion has read in its row
\* is still in the engine, where nobody would ask for it any more
\* (KbLibraryService.physicalDelete).  An orphan that is bound to the library in
\* between does stay behind.
DeletedWithDataset ==
    [][\A l \in Libraries : rows[l] # None /\ rows'[l] = None =>
          \E a \in Requests : /\ task[a] # None /\ task[a].op = "delete" /\ task[a].lib = l
                              /\ task[a].row.ref = None \/ ~Exists(task[a].row.ref)]_vars

\* KbEngineReconcileService.java:76 calls the pass a refresh of the rows' marks.
\* Does not hold: it writes back all that it read.
OnlyMarksChange ==
    [][SaveRows => \A l \in Libraries :
          /\ (rows[l] = None) = (rows'[l] = None)
          /\ rows[l] # None => rows'[l] = [rows[l] EXCEPT !.sync = rows'[l].sync, !.since = rows'[l].since]]_vars

=============================================================================
