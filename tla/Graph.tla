-------------------------------- MODULE Graph --------------------------------
(***************************************************************************)
(* The relationship graph of an index: which file imports, uses or calls   *)
(* which (src/workspace_indexer/pipeline/indexer.py from _backfill_graph   *)
(* on, and the graph tables of state/manifest.py).                         *)
(*                                                                         *)
(* A run records the edges of each changed file with the file's row, then  *)
(* forgets the files that are gone, re-reads files whose edges an older    *)
(* release extracted, and goes over the whole table: retire namespace      *)
(* edges whose targets went, decline what no resolver answers, resolve     *)
(* imports, classify origins, resolve client calls.  Most of these are     *)
(* single autocommitted statements, so a run can stop between any two of   *)
(* them, and the next one starts over from the tables.                     *)
(*                                                                         *)
(* The vectors of the same run are module Indexer's; here a file is in the *)
(* manifest, with the content it was read with, or it is not.              *)
(***************************************************************************)
EXTENDS Scanners

CONSTANTS
  ContentsOf,     \* [Paths -> sets of contents the file can have]
  InitialDisk,    \* [Paths -> content or Nothing] when the model starts
  Workspaces,     \* sets of roots a workspace may be made of
  OldIndexes,     \* sets of files an older release may have indexed by then
  Scopes,         \* --root options that occur: Nothing for a whole run
  BackfillBatch,  \* files per transaction of the backfill (500)
  MayFail,        \* TRUE if a grammar may be missing for one read of a file
  MaxEdits,       \* bound: changes by the outside world
  MaxAborts       \* bound: runs that stop half way

Contents == UNION {ContentsOf[f] : f \in Paths}

ASSUME GraphAssumption ==
  /\ InitialDisk \in [Paths -> Contents \cup {Nothing}]
  /\ \A f \in Paths : InitialDisk[f] \in ContentsOf[f] \cup {Nothing}
  /\ Nothing \notin Contents \cup [content : Contents, version : {0, 1}]
  /\ Nothing \notin Origins \cup {"path", "namespace", "declined"}
  /\ OldIndexes \subseteq SUBSET {f \in Paths : InitialDisk[f] # Nothing}
  /\ BackfillBatch \in Nat \ {0} /\ MayFail \in BOOLEAN
  /\ MaxEdits \in Nat /\ MaxAborts \in Nat

\* GRAPH_VERSION: what the installed release extracts.
GraphVersion == 1

VARIABLES
  configured,\* roots in the workspace config; none is added or dropped
  disk,      \* [Paths -> content or Nothing]
  edits,     \* changes so far
  rows,      \* files: the content recorded and its graph_version, or Nothing
  imports,   \* imports: edges with their target, resolved_by and origin
  spaces,    \* namespace_declarations
  routes,    \* route_edges of kind declaration
  calls,     \* route_edges of kind call, with their target
  pc,        \* which pass of the run is under way
  scope,     \* the run's --root
  seen,      \* files the walk listed
  todo,      \* of these, files not taken down the ladder yet
  stale,     \* files the backfill has still to read
  batch,     \* what it has read and not written: [file, content]
  aborts,    \* runs stopped so far
  steady,    \* files nothing has touched since the run started (read by no step)
  torn       \* files whose edges come from a read the row is not of (likewise)

tables == <<rows, imports, spaces, routes, calls>>
vars   == <<configured, disk, edits, tables, pc, scope, seen, todo, stale, batch, aborts,
            steady, torn>>

Passes ==
  {"idle", "walk", "orphans", "backfill", "retire", "decline", "resolve",
   "classify", "routes"}

Edges   == UNION {ScanImports(f, c, v) : f \in Paths, c \in Contents, v \in {0, 1}}
Symbols == UNION {ScanNamespaces(f, c, 1) : f \in Paths, c \in Contents}
Urls    == UNION {ScanCalls(f, c) : f \in Paths, c \in Contents}

CallRow ==
  [file : Paths, template : {u.template : u \in Urls}, exact : {u.exact : u \in Urls},
   to : Paths \cup {Nothing}]

\* resolved_path is written by a path match only.
ImportRow ==
  [file : Paths, edge : Edges, to : Paths \cup {Nothing},
   by : {Nothing, "path", "namespace", "declined"}, origin : Origins \cup {Nothing}]

TablesOK ==
  /\ rows \in [Paths -> [content : Contents, version : {0, 1}] \cup {Nothing}]
  /\ imports \in SUBSET ImportRow
  /\ \A i \in imports : (i.to # Nothing) = (i.by = "path")
  /\ \A i \in imports : rows[i.file] # Nothing
  /\ spaces \in SUBSET [file : Paths, symbol : Symbols]
  /\ \A n \in spaces : rows[n.file] # Nothing
  /\ \A r \in routes : r.file \in Paths /\ rows[r.file] # Nothing
  /\ calls \in SUBSET CallRow
  /\ \A c \in calls : rows[c.file] # Nothing

RunOK ==
  /\ pc \in Passes
  /\ scope \in Scopes \cup {Nothing}
  /\ seen \subseteq Paths /\ todo \subseteq seen
  /\ stale \subseteq Paths
  /\ batch \in SUBSET [file : Paths, content : Contents]
  /\ aborts \in 0..MaxAborts
  /\ steady \subseteq Paths /\ torn \subseteq Paths

TypeOK ==
  /\ configured \in Workspaces
  /\ disk \in [Paths -> Contents \cup {Nothing}]
  /\ edits \in 0..MaxEdits
  /\ TablesOK /\ RunOK

-----------------------------------------------------------------------------
(* What the tables say, before and after one file is written.              *)

Indexed == {f \in Paths : rows[f] # Nothing}

\* record_imports: DELETE, then INSERT of rows with no resolution.
NewImports(f, c, v) ==
  {[file |-> f, edge |-> e, to |-> Nothing, by |-> Nothing, origin |-> Nothing] :
     e \in ScanImports(f, c, v)}

NewSpaces(f, c, v) == {[file |-> f, symbol |-> s] : s \in ScanNamespaces(f, c, v)}
NewRoutes(f, c) == {[file |-> f, template |-> t] : t \in ScanRoutes(f, c)}
NewCalls(f, c) ==
  {[file |-> f, template |-> k.template, exact |-> k.exact, to |-> Nothing] :
     k \in ScanCalls(f, c)}

Without(table, files) == {x \in table : x.file \notin files}

\* The edges of each [file, content] of a set, in place of what was there.
WriteEdges(written) ==
  LET files == {w.file : w \in written} IN
  /\ imports' = Without(imports, files)
                \cup UNION {NewImports(w.file, w.content, GraphVersion) : w \in written}
  /\ spaces'  = Without(spaces, files)
                \cup UNION {NewSpaces(w.file, w.content, GraphVersion) : w \in written}
  /\ routes'  = Without(routes, files)
                \cup UNION {NewRoutes(w.file, w.content) : w \in written}
  /\ calls'   = Without(calls, files)
                \cup UNION {NewCalls(w.file, w.content) : w \in written}

Init ==
  /\ configured \in Workspaces
  /\ disk = [f \in Paths |-> IF f.root \in configured THEN InitialDisk[f] ELSE Nothing]
  /\ edits = 0
  /\ \E old \in {{f \in o : f.root \in configured} : o \in OldIndexes} :
       /\ rows = [f \in Paths |-> IF f \in old
                                  THEN [content |-> disk[f], version |-> 0]
                                  ELSE Nothing]
       /\ imports = UNION {NewImports(f, disk[f], 0) : f \in old}
       /\ spaces = {}
       /\ routes = UNION {NewRoutes(f, disk[f]) : f \in old}
       /\ calls = UNION {NewCalls(f, disk[f]) : f \in old}
  /\ pc = "idle" /\ scope = Nothing
  /\ seen = {} /\ todo = {} /\ stale = {} /\ batch = {}
  /\ aborts = 0
  /\ steady = {} /\ torn = {}

-----------------------------------------------------------------------------
(* Everyone else.                                                          *)

Edit(f, c) ==
  /\ edits < MaxEdits /\ f.root \in configured
  /\ disk[f] # c
  /\ disk' = [disk EXCEPT ![f] = c]
  /\ edits' = edits + 1
  /\ steady' = steady \ {f}
  /\ UNCHANGED <<configured, tables, pc, scope, seen, todo, stale, batch,
                 aborts, torn>>

-----------------------------------------------------------------------------
(* The walk.                                                               *)

InScope(f) == scope \in {Nothing, f.root}

StartRun(s) ==
  /\ pc = "idle"
  /\ pc' = "walk"
  /\ scope' = s
  /\ seen' = {f \in Paths : disk[f] # Nothing /\ s \in {Nothing, f.root}}
  /\ todo' = seen'
  /\ steady' = Paths
  /\ UNCHANGED <<configured, disk, edits, tables, stale, batch, aborts, torn>>

\* The bytes on record are the bytes on disk: no rung reads the syntax tree.
Unchanged(f) == rows[f] # Nothing /\ rows[f].content = disk[f]

IndexSkip(f) ==
  /\ pc = "walk" /\ f \in todo
  /\ Unchanged(f) \/ disk[f] = Nothing
  /\ todo' = todo \ {f}
  /\ UNCHANGED <<configured, disk, edits, tables, pc, scope, seen, stale, batch, aborts,
                 steady, torn>>

Stamped(files) ==
  [f \in Paths |-> IF f \in {w.file : w \in files}
                   THEN [content |-> (CHOOSE w \in files : w.file = f).content,
                         version |-> GraphVersion]
                   ELSE rows[f]]

\* _record: the row, its edges and the stamp in one transaction.
IndexFile(f) ==
  /\ pc = "walk" /\ f \in todo
  /\ disk[f] # Nothing /\ ~Unchanged(f)
  /\ todo' = todo \ {f}
  /\ LET written == {[file |-> f, content |-> disk[f]]}
     IN rows' = Stamped(written) /\ WriteEdges(written)
  /\ torn' = torn \ {f}
  /\ UNCHANGED <<configured, disk, edits, pc, scope, seen, stale, batch, aborts, steady>>

\* The grammar could not be had: the scanners find nothing, and the file is
\* stamped all the same.
IndexFileBlind(f) ==
  /\ MayFail
  /\ pc = "walk" /\ f \in todo
  /\ disk[f] # Nothing /\ ~Unchanged(f)
  /\ LanguageOf(f) \in GraphLanguages
  /\ todo' = todo \ {f}
  /\ rows' = Stamped({[file |-> f, content |-> disk[f]]})
  /\ imports' = Without(imports, {f}) /\ spaces' = Without(spaces, {f})
  /\ routes' = Without(routes, {f}) /\ calls' = Without(calls, {f})
  /\ torn' = torn \cup {f}
  /\ UNCHANGED <<configured, disk, edits, pc, scope, seen, stale, batch, aborts, steady>>

EndWalk ==
  /\ pc = "walk" /\ todo = {}
  /\ pc' = "orphans"
  /\ UNCHANGED <<configured, disk, edits, tables, scope, seen, todo, stale, batch, aborts,
                 steady, torn>>

Gone == {f \in Indexed \ seen : InScope(f)}

\* Mutant: foreign keys are off.
ForgetRowOnly(f) ==
  /\ pc = "orphans" /\ f \in Gone
  /\ rows' = [rows EXCEPT ![f] = Nothing]
  /\ UNCHANGED <<configured, disk, edits, imports, spaces, routes, calls, pc,
                 scope, seen, todo, stale, batch, aborts, steady, torn>>

\* forget_file: the cascade takes every row the file owns.
ForgetFile(f) ==
  /\ pc = "orphans" /\ f \in Gone
  /\ rows' = [rows EXCEPT ![f] = Nothing]
  /\ imports' = Without(imports, {f})
  /\ spaces' = Without(spaces, {f})
  /\ routes' = Without(routes, {f})
  /\ calls' = Without(calls, {f})
  /\ UNCHANGED <<configured, disk, edits, pc, scope, seen, todo, stale, batch, aborts,
                 steady, torn>>

\* files_missing_graph_version, over GRAPH_VERSION_LANGUAGES.
Outdated ==
  {f \in Indexed : /\ LanguageOf(f) \in NamespaceLanguages
                   /\ rows[f].version < GraphVersion
                   /\ InScope(f)}

EndOrphans ==
  /\ pc = "orphans" /\ Gone = {}
  /\ pc' = "backfill"
  /\ stale' = Outdated
  /\ UNCHANGED <<configured, disk, edits, tables, scope, seen, todo, batch, aborts, steady,
                 torn>>

-----------------------------------------------------------------------------
(* The backfill.  Reads are outside the transaction, which comes when the  *)
(* batch is full and at the end.                                           *)

Full == Cardinality(batch) >= BackfillBatch

Rescan(f) ==
  /\ pc = "backfill" /\ ~Full
  /\ f \in stale
  /\ stale' = stale \ {f}
  /\ batch' = IF disk[f] = Nothing THEN batch
              ELSE batch \cup {[file |-> f, content |-> disk[f]]}
  /\ UNCHANGED <<configured, disk, edits, tables, pc, scope, seen, todo, aborts,
                 steady, torn>>

\* Unreadable, undecodable or without a grammar: it waits for the next run.
RescanFails(f) ==
  /\ MayFail
  /\ pc = "backfill" /\ ~Full
  /\ f \in stale
  /\ stale' = stale \ {f}
  /\ steady' = steady \ {f}
  /\ UNCHANGED <<configured, disk, edits, tables, pc, scope, seen, todo, batch,
                 aborts, torn>>

\* Mutant: the new kind of edge only.
RecordRescannedNamespaces ==
  /\ pc = "backfill"
  /\ batch # {} /\ (Full \/ stale = {})
  /\ spaces' = Without(spaces, {w.file : w \in batch})
               \cup UNION {NewSpaces(w.file, w.content, GraphVersion) : w \in batch}
  /\ rows' = [f \in Paths |-> IF f \in {w.file : w \in batch}
                              THEN [rows[f] EXCEPT !.version = GraphVersion]
                              ELSE rows[f]]
  /\ batch' = {}
  /\ UNCHANGED <<configured, disk, edits, imports, routes, calls, pc, scope,
                 seen, todo, stale, aborts, steady, torn>>

\* Mutant: the buffer is not cleared after the flush.
RecordRescannedAgain ==
  /\ pc = "backfill"
  /\ batch # {} /\ (Full \/ stale = {})
  /\ WriteEdges(batch)
  /\ rows' = [f \in Paths |-> IF f \in {w.file : w \in batch}
                              THEN [rows[f] EXCEPT !.version = GraphVersion]
                              ELSE rows[f]]
  /\ torn' = (torn \ {w.file : w \in batch})
               \cup {w.file : w \in {x \in batch : rows[x.file].content # x.content}}
  /\ UNCHANGED <<configured, disk, edits, pc, scope, seen, todo, stale, batch, aborts,
                 steady>>

\* _record_rescanned: edges and stamps; the row keeps the content it had.
RecordRescanned ==
  /\ pc = "backfill"
  /\ batch # {} /\ (Full \/ stale = {})
  /\ WriteEdges(batch)
  /\ rows' = [f \in Paths |-> IF f \in {w.file : w \in batch}
                              THEN [rows[f] EXCEPT !.version = GraphVersion]
                              ELSE rows[f]]
  /\ batch' = {}
  /\ torn' = (torn \ {w.file : w \in batch})
               \cup {w.file : w \in {x \in batch : rows[x.file].content # x.content}}
  /\ UNCHANGED <<configured, disk, edits, pc, scope, seen, todo, stale, aborts, steady>>

EndBackfill ==
  /\ pc = "backfill" /\ stale = {} /\ batch = {}
  /\ pc' = "retire"
  /\ UNCHANGED <<configured, disk, edits, tables, scope, seen, todo, stale, batch, aborts,
                 steady, torn>>

-----------------------------------------------------------------------------
(* _resolve_imports.  The declarations and the file list are read once;    *)
(* no step of this pass changes either.                                    *)

Targets(i) == NamespaceTargets(spaces, i.edge.module, i.file)

SameModule(i, j) ==
  /\ i.file = j.file
  /\ i.edge.module = j.edge.module /\ i.edge.dots = j.edge.dots
  /\ i.edge.ext = j.edge.ext

\* clear_namespace_resolution, for one using whose declaring files have gone.
Retire(i) ==
  /\ pc = "retire"
  /\ i \in imports /\ i.by = "namespace" /\ Targets(i) = {}
  /\ imports' = {IF SameModule(i, j) /\ j.by = "namespace"
                 THEN [j EXCEPT !.by = Nothing] ELSE j : j \in imports}
  /\ UNCHANGED <<configured, disk, edits, rows, spaces, routes, calls, pc, scope, seen,
                 todo, stale, batch, aborts, steady, torn>>

\* Mutant: no edge is pending, so there is nothing to do here.
EndRetireEarly ==
  /\ pc = "retire"
  /\ \/ ~\E i \in imports : i.by = "namespace" /\ Targets(i) = {}
     \/ ~\E i \in imports : i.to = Nothing /\ i.by = Nothing
  /\ pc' = "decline"
  /\ UNCHANGED <<configured, disk, edits, tables, scope, seen, todo, stale,
                 batch, aborts, steady, torn>>

EndRetire ==
  /\ pc = "retire"
  /\ ~\E i \in imports : i.by = "namespace" /\ Targets(i) = {}
  /\ pc' = "decline"
  /\ UNCHANGED <<configured, disk, edits, tables, scope, seen, todo, stale, batch, aborts,
                 steady, torn>>

Undecided(i) == i.to = Nothing /\ i.by = Nothing

\* mark_declined, in one transaction.
Decline ==
  /\ pc = "decline"
  /\ imports' = {IF Undecided(i) /\ i.edge.kind \in DeclinedKinds
                 THEN [i EXCEPT !.by = "declined"] ELSE i : i \in imports}
  /\ pc' = "resolve"
  /\ UNCHANGED <<configured, disk, edits, rows, spaces, routes, calls, scope, seen, todo,
                 stale, batch, aborts, steady, torn>>

PathTarget(i) == ImportTarget(i.edge, i.file, Indexed)

\* set_resolved_path: by file and module, whatever the kind.
ResolvePath(i) ==
  /\ pc = "resolve"
  /\ i \in imports /\ Undecided(i) /\ LanguageOf(i.file) # "csharp"
  /\ PathTarget(i) # Nothing
  /\ imports' = {IF SameModule(i, j)
                 THEN [j EXCEPT !.to = PathTarget(i), !.by = "path"] ELSE j :
                 j \in imports}
  /\ UNCHANGED <<configured, disk, edits, rows, spaces, routes, calls, pc, scope, seen,
                 todo, stale, batch, aborts, steady, torn>>

\* Mutant: keyed without the form, a declined row is marked with its sibling.
ResolveNamespaceAnyKind(i) ==
  /\ pc = "resolve"
  /\ i \in imports /\ Undecided(i) /\ LanguageOf(i.file) = "csharp"
  /\ Targets(i) # {}
  /\ imports' = {IF SameModule(i, j) THEN [j EXCEPT !.by = "namespace"] ELSE j :
                 j \in imports}
  /\ UNCHANGED <<configured, disk, edits, rows, spaces, routes, calls, pc, scope, seen,
                 todo, stale, batch, aborts, steady, torn>>

\* mark_namespace_resolved: the flag only; the targets stay derived.
ResolveNamespace(i) ==
  /\ pc = "resolve"
  /\ i \in imports /\ Undecided(i) /\ LanguageOf(i.file) = "csharp"
  /\ Targets(i) # {}
  /\ imports' = {IF SameModule(i, j) /\ j.edge.kind = i.edge.kind
                 THEN [j EXCEPT !.by = "namespace"] ELSE j : j \in imports}
  /\ UNCHANGED <<configured, disk, edits, rows, spaces, routes, calls, pc, scope, seen,
                 todo, stale, batch, aborts, steady, torn>>

\* What the resolvers have to say of it.
AnswersTo(i) ==
  IF LanguageOf(i.file) = "csharp" THEN Targets(i) ELSE {PathTarget(i)} \ {Nothing}

Resolvable(i) == Undecided(i) /\ AnswersTo(i) # {}

EndResolve ==
  /\ pc = "resolve"
  /\ ~\E i \in imports : Resolvable(i)
  /\ pc' = "classify"
  /\ UNCHANGED <<configured, disk, edits, tables, scope, seen, todo, stale, batch, aborts,
                 steady, torn>>

-----------------------------------------------------------------------------
(* _classify_origins and _resolve_routes.                                  *)

OriginOf(i) == Origin(i.edge, i.file, i.to, i.by)

\* Mutant: only edges that reached something are given an origin.
ClassifyResolved ==
  /\ pc = "classify"
  /\ imports' = {IF i.by \in {"path", "namespace"}
                 THEN [i EXCEPT !.origin = OriginOf(i)] ELSE i : i \in imports}
  /\ pc' = "routes"
  /\ UNCHANGED <<configured, disk, edits, rows, spaces, routes, calls, scope,
                 seen, todo, stale, batch, aborts, steady, torn>>

\* record_origins: every edge that is not declined, and with it every row of
\* the same file and module.
Classify ==
  /\ pc = "classify"
  /\ LET asked    == {i \in imports : i.by # "declined"}
         like(i)  == {j \in asked : SameModule(i, j)}
         stamp(i) == IF i \in asked THEN OriginOf(i)
                     ELSE IF like(i) = {} THEN i.origin
                     ELSE OriginOf(CHOOSE j \in like(i) : TRUE)
     IN imports' = {[i EXCEPT !.origin = stamp(i)] : i \in imports}
  /\ pc' = "routes"
  /\ UNCHANGED <<configured, disk, edits, rows, spaces, routes, calls, scope, seen, todo,
                 stale, batch, aborts, steady, torn>>

CallTarget(c) == RouteTarget(routes, c.template, c.exact)

Callable(c) == c.to = Nothing /\ CallTarget(c) # Nothing

\* set_route_resolution: once given, a target is not looked at again.
ResolveCall(c) ==
  /\ pc = "routes"
  /\ c \in calls /\ Callable(c)
  /\ calls' = (calls \ {c}) \cup {[c EXCEPT !.to = CallTarget(c)]}
  /\ UNCHANGED <<configured, disk, edits, rows, imports, spaces, routes, pc, scope, seen,
                 todo, stale, batch, aborts, steady, torn>>

RunDone == pc = "routes" /\ ~\E c \in calls : Callable(c)

Reset ==
  /\ pc' = "idle" /\ scope' = Nothing
  /\ seen' = {} /\ todo' = {} /\ stale' = {} /\ batch' = {}
  /\ steady' = {}

FinishRun ==
  /\ RunDone
  /\ Reset
  /\ UNCHANGED <<configured, disk, edits, tables, aborts, torn>>

\* A crash, a kill or a failed transaction: the tables are as committed.
Abort ==
  /\ pc # "idle"
  /\ aborts < MaxAborts
  /\ aborts' = aborts + 1
  /\ Reset
  /\ UNCHANGED <<configured, disk, edits, tables, torn>>

Walk ==
  \/ \E f \in Paths : IndexSkip(f) \/ IndexFile(f)
  \/ EndWalk
  \/ \E f \in Paths : ForgetFile(f)
  \/ EndOrphans

Backfill == (\E f \in Paths : Rescan(f)) \/ RecordRescanned \/ EndBackfill

Relate ==
  \/ \E i \in imports : Retire(i) \/ ResolvePath(i) \/ ResolveNamespace(i)
  \/ EndRetire \/ Decline \/ EndResolve \/ Classify
  \/ \E c \in calls : ResolveCall(c)

Progress == Walk \/ Backfill \/ Relate \/ FinishRun

Next ==
  \/ \E f \in Paths : \E c \in ContentsOf[f] \cup {Nothing} : Edit(f, c)
  \/ \E s \in Scopes : StartRun(s)
  \/ Progress
  \/ \E f \in Paths : IndexFileBlind(f) \/ RescanFails(f)
  \/ Abort

Spec == Init /\ [][Next]_vars

\* A run that was started goes on, whole runs are started again and again, and
\* a read that is retried in every run succeeds in one of them.
Fairness ==
  /\ WF_vars(Progress)
  /\ SF_vars(StartRun(Nothing))
  /\ SF_vars(\E f \in Paths : Rescan(f))

FairSpec == Spec /\ Fairness

-----------------------------------------------------------------------------
(* Properties.                                                             *)

EdgesAre(f, c) ==
  /\ {i.edge : i \in {x \in imports : x.file = f}} = ScanImports(f, c, GraphVersion)
  /\ {n.symbol : n \in {x \in spaces : x.file = f}} = ScanNamespaces(f, c, GraphVersion)
  /\ {r.template : r \in {x \in routes : x.file = f}} = ScanRoutes(f, c)
  /\ {[template |-> k.template, exact |-> k.exact] : k \in {x \in calls : x.file = f}}
       = ScanCalls(f, c)

EdgesAsOnDisk(f) ==
  IF disk[f] = Nothing
  THEN rows[f] = Nothing
  ELSE rows[f] # Nothing /\ EdgesAre(f, disk[f])

(* A completed run leaves every file nobody touched with the edges of what *)
(* is on disk, the kinds that came with the new release included, whatever *)
(* release indexed it first and wherever earlier runs stopped.  Files      *)
(* stamped after a read that was not the recorded one are the exception    *)
(* (see torn).  (_record, _backfill_graph)                                 *)
EdgesCurrent ==
  RunDone =>
    \A f \in steady \ torn : InScope(f) => EdgesAsOnDisk(f)

\* What an answer lists for an edge: a path as it was recorded, whether or not
\* the LEFT JOIN still finds a file there.
Named(i) == IF i.by = "namespace" THEN Targets(i) ELSE {i.to} \ {Nothing}

\* The files of the index among them.
Reached(i) == Named(i) \cap Indexed

Dangling(i) == i.to \notin Indexed \cup {Nothing}

\* What resolution_coverage and origin_coverage count as resolved.
CountedResolved(i) == i.to # Nothing \/ i.by \notin {Nothing, "declined"}

(* After a completed run the flags that the coverage figures read agree    *)
(* with the joins that the answers are made of.  A using that is counted   *)
(* as resolved reaches a file of the index, whatever was deleted since; an *)
(* edge left unresolved is one that no file of the index answers now; and  *)
(* first-party is on record of what is counted as resolved, of what is     *)
(* relative, and of nothing else.  A path is not looked at again: one may  *)
(* go on being counted when its file is forgotten (NoDanglingTarget).      *)
(* (_retire_stale_namespace_edges, _resolve_imports, _classify_origins)    *)
FlagsAgreeWithJoins ==
  RunDone =>
    \A i \in {x \in imports : x.by # "declined"} :
      /\ i.by = "namespace" => Reached(i) # {}
      /\ ~CountedResolved(i) => AnswersTo(i) = {}
      /\ i.origin = "first_party" <=> CountedResolved(i) \/ i.edge.dots > 0

(* An import never names a file of another repository.  (ImportResolver,   *)
(* NamespaceResolver, namespace_targets)                                   *)
StaysInUnit ==
  \A i \in imports : \A g \in Named(i) : SameUnit(i.file, g)

Life == INSTANCE EdgeLife WITH
  Files <- Paths, Nothing <- Nothing,
  Near    <- {p \in Paths \X Paths : SameUnit(p[1], p[2])},
  records <- rows,
  edges   <- {[file |-> i.file, edge |-> i.edge, to |-> i.to, by |-> i.by] : i \in imports}

(* The table of imports implements EdgeLife: an answer is given to the one *)
(* edge it was asked for, though the UPDATE is keyed by file and module; a *)
(* path is that of a file in the index at that moment, and it or a refusal *)
(* stays until the manifest's row of the importing file changes;           *)
(* and with the row, edges and answers go together, wherever a run stops.  *)
(* (set_resolved_path, mark_namespace_resolved, clear_namespace_resolution,*)
(* record_imports)                                                         *)
EdgesLiveOnce == Life!LifeSpec

(* Once edits and crashes stop, the whole graph comes to be that of the    *)
(* files on disk, and stays so.  (index, run again)                        *)
EdgesCatchUp ==
  <>[](\A f \in Paths \ torn : EdgesAsOnDisk(f))

-----------------------------------------------------------------------------
(* What the code's comments say, and the code does not do.                 *)

(* "A path edge needs no equivalent: deleting its target cascades the row  *)
(* away" (_retire_stale_namespace_edges): after a completed run no edge    *)
(* points at a file that the run forgot.                                   *)
NoDanglingTarget ==
  RunDone => \A i \in imports : i.to # Nothing => i.to \in Indexed

=============================================================================
