------------------------------- MODULE Impact -------------------------------
(***************************************************************************)
(* What the graph is asked: the impact_of tool                             *)
(* (src/workspace_indexer/mcp/impact_service.py) and the manifest queries  *)
(* it is made of.  Each query reads the tables at some moment of a run,    *)
(* from another process, so what it promises is promised of every state;   *)
(* the lists of one report may come from different ones.                   *)
(***************************************************************************)
EXTENDS Graph

CONSTANTS
  Needles,      \* paths that are asked about: [dir, stem, ext]
  Limit         \* the tool's limit (25)

\* Nothing above max_file_bytes is indexed: there are finitely many contents.
ASSUME ImpactAssumption ==
  /\ IsFiniteSet(Paths) /\ IsFiniteSet(Edges)
  /\ Limit \in Nat /\ Nothing # 100

\* dependencies_of: one entry per edge, or per declaring file of a namespace.
\* Its inner queries run while the outer one's cursor is open, and so read the
\* same snapshot.
DependenciesOf(f) ==
  UNION {IF Named(i) # {}
         THEN {[edge |-> i.edge, to |-> g, origin |-> i.origin, by |-> i.by] :
                 g \in Named(i)}
         ELSE {[edge |-> i.edge, to |-> Nothing, origin |-> i.origin,
                by |-> IF i.by = "namespace" THEN Nothing ELSE i.by]} :
         i \in {x \in imports : x.file = f}}

\* Mutant: the using's unit is not compared with the subject's.
DependentsInRoot(g) ==
  {[file |-> i.file, edge |-> i.edge] : i \in {x \in imports : x.to = g}}
  \cup
  {[file |-> i.file, edge |-> i.edge] : i \in {x \in imports :
     /\ x.by = "namespace" /\ x.file.root = g.root
     /\ [file |-> g, symbol |-> x.edge.module] \in spaces}}

\* dependents_of: by path, and by a namespace the subject declares.
DependentsOf(g) ==
  {[file |-> i.file, edge |-> i.edge] : i \in {x \in imports : x.to = g}}
  \cup
  {[file |-> i.file, edge |-> i.edge] : i \in {x \in imports :
     /\ x.by = "namespace" /\ SameUnit(x.file, g)
     /\ [file |-> g, symbol |-> x.edge.module] \in spaces}}

\* route_callers_of and route_calls_from.
CallersOf(g) == {c \in calls : c.to = g}
CallsFrom(f) == {c \in calls : c.file = f}

Whole(needle, f) ==
  f.dir = needle.dir /\ f.stem = needle.stem /\ f.ext = needle.ext

\* LIKE '%/needle', which tells no upper case from lower case.
Ends(needle, f) ==
  LET folded(names) == [i \in DOMAIN names |-> Lower(names[i])] IN
  /\ Len(needle.dir) < Len(f.dir)
  /\ Lower(f.stem) = Lower(needle.stem) /\ Lower(f.ext) = Lower(needle.ext)
  /\ IsSuffix(folded(needle.dir), folded(f.dir))

\* find_paths: whole, or on a directory boundary.  Its LIMIT of eight, shortest
\* first, keeps exact matches and more than one of several.
FindPaths(needle) == {f \in Indexed : Whole(needle, f) \/ Ends(needle, f)}

Exact(needle, matches) == {f \in matches : Whole(needle, f)}

\* Mutant: of several, the first.
PickFirst(needle, matches) == AnyOf(matches)

\* _pick: a whole path wins over longer ones that end with it; then the only one.
Pick(needle, matches) ==
  IF TheOnly(Exact(needle, matches)) # Nothing
  THEN TheOnly(Exact(needle, matches))
  ELSE TheOnly(matches)

-----------------------------------------------------------------------------
(* The note: what the answer could not see, by reason.                     *)

Buckets == {"outside", "inside", "unruled", "unlooked"}

BucketOf(origin) ==
  CASE origin \in {"framework", "declared_dependency"} -> "outside"
    [] origin = "first_party"  -> "inside"
    [] origin = "unclassified" -> "unruled"
    [] OTHER                   -> "unlooked"

\* _unresolved_notes, of the list that dependencies_of returned.
Unresolved(dependencies) == {d \in dependencies : d.to = Nothing}

NoteCounts(dependencies) ==
  [b \in Buckets |->
     Cardinality({d \in Unresolved(dependencies) : BucketOf(d.origin) = b})]

\* origin_coverage: declined edges are in no column.
CoverageOf(language) ==
  LET asked == {i \in imports : LanguageOf(i.file) = language /\ i.by # "declined"}
      with(o) == Cardinality({i \in asked : i.origin = o})
  IN [total |-> Cardinality(asked),
      first_party |-> with("first_party"),
      first_party_resolved |->
        Cardinality({i \in asked : i.origin = "first_party" /\ CountedResolved(i)}),
      external |-> with("framework") + with("declared_dependency"),
      unclassified |-> with("unclassified"),
      unrecorded |-> with(Nothing)]

\* first_party_resolution_percent: floored, and 100 only when complete.
Percent(coverage) ==
  IF coverage.first_party = 0 THEN Nothing
  ELSE IF coverage.first_party_resolved >= coverage.first_party THEN 100
  ELSE LET floor == (coverage.first_party_resolved * 100) \div coverage.first_party
       IN IF floor < 99 THEN floor ELSE 99

Dropped(list, limit) ==
  IF Cardinality(list) > limit THEN Cardinality(list) - limit ELSE 0

\* _build, once Pick has found its subject: the lists come from queries of their
\* own, one after the other, and a run of another process may commit between any
\* two of them.
Report(subject, dependencies, dependents, callers, called) ==
  [subject |-> subject,
   depends_on_total |-> Cardinality(dependencies),
   used_by_total |-> Cardinality(dependents),
   called_by |-> callers, calls |-> called,
   dropped |-> Dropped(dependencies, Limit) + Dropped(dependents, Limit),
   note |-> NoteCounts(dependencies)]

-----------------------------------------------------------------------------
(* Properties.                                                             *)

(* The two directions of the graph are one relation: a file is listed      *)
(* among what uses another exactly if the other is listed among what it    *)
(* depends on, at any moment, by path or by namespace.  (dependents_of,    *)
(* dependencies_of, namespace_targets)                                     *)
BothEndsAgree ==
  \A f \in Indexed, g \in Paths :
    (\E d \in DependentsOf(g) : d.file = f)
      <=> (\E d \in DependenciesOf(f) : d.to = g)

(* A path that is short for several files is answered with none of them,   *)
(* unless it is the whole path of exactly one; and since an end of a path  *)
(* is found whatever its case is, files whose names differ in case only    *)
(* are several.  (find_paths, _pick)                                       *)
NeverTheWrongFile ==
  \A n \in Needles :
    LET matches == FindPaths(n)
        subject == Pick(n, matches)
    IN subject # Nothing =>
         \A g \in matches \ {subject} : Whole(n, subject) /\ ~Whole(n, g)

(* The figures of the note, for what they can say.  After a completed run  *)
(* no edge that is counted is without an origin, the columns add up to the *)
(* total, and 100% means that every first-party edge reaches a file of the *)
(* index or has the path of one that was forgotten since it was resolved:  *)
(* the note says "an indexed file" of those too.                           *)
(* (_workspace_notes, OriginCoverage)                                      *)
RateIsHonest ==
  RunDone =>
    \A l \in Languages :
      LET c == CoverageOf(l)
          own == {i \in imports : /\ LanguageOf(i.file) = l
                                  /\ i.by # "declined" /\ i.origin = "first_party"}
      IN /\ c.unrecorded = 0
         /\ c.total = c.first_party + c.external + c.unclassified
         /\ Percent(c) = 100
              <=> own # {} /\ \A i \in own : Reached(i) # {} \/ Dangling(i)

=============================================================================
