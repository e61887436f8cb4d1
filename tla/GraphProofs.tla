----------------------------- MODULE GraphProofs -----------------------------
(***************************************************************************)
(* Theorems about Graph, and about what Impact answers in any state of it, *)
(* for any workspace, any contents and any number of edits, runs and       *)
(* crashes.                                                                *)
(***************************************************************************)
EXTENDS Impact, FiniteSetTheorems, WellFoundedInduction, TLAPS

-----------------------------------------------------------------------------
(* What the resolvers answer.                                              *)

LEMMA LeastOfNaturals ==
  ASSUME NEW I, I \subseteq Nat, I # {}
  PROVE  Min(I) \in I
<1> DEFINE R == OpToRel(<, Nat)
<1>1. IsWellFoundedOn(R, Nat)
  BY NatLessThanWellFounded
<1>2. \A x, y \in Nat : y < x => <<y, x>> \in R
  BY DEF OpToRel
<1> HIDE DEF R
<1>3. PICK x \in I : \A y \in I : ~ (<<y, x>> \in R)
  BY <1>1, WFMin
<1>4. ASSUME NEW y \in I PROVE x <= y
  <2>1. x \in Nat /\ y \in Nat
    OBVIOUS
  <2>2. ~ (y < x)
    BY <1>2, <1>3, <2>1
  <2> QED
    BY <2>1, <2>2
<1> QED
  BY <1>4 DEF Min

LEMMA FirstKnownIsKnown ==
  ASSUME NEW s, Len(s) \in Nat, NEW known
  PROVE  FirstKnown(s, known) \in known \cup {Nothing}
<1> DEFINE I == {i \in 1..Len(s) : s[i] \in known}
           at == IF I # {} THEN Min(I) ELSE 0
<1>1. SelectInSeq(s, LAMBDA c : c \in known) = at
  BY DEF SelectInSeq
<1>2. I # {} => Min(I) \in I
  BY LeastOfNaturals
<1>3. at # 0 => s[at] \in known
  BY <1>2
<1>4. FirstKnown(s, known) = IF at = 0 THEN Nothing ELSE s[at]
  BY <1>1 DEF FirstKnown
<1> QED
  BY <1>3, <1>4

LEMMA TheOnlyIsOneOfThem ==
  ASSUME NEW S
  PROVE  TheOnly(S) \in S \cup {Nothing}
<1>1. Cardinality(S) = 1 => S # {}
  BY FS_EmptySet
<1> QED
  BY <1>1 DEF TheOnly

LEMMA PythonTargetIsKnown ==
  ASSUME NEW edge, NEW from, NEW known
  PROVE  PythonTarget(edge, from, known) \in known \cup {Nothing}
<1>1. ASSUME NEW root, NEW base
      PROVE  PythonCandidates(root, base, known) \in known \cup {Nothing}
  BY FirstKnownIsKnown DEF PythonCandidates
<1>2. TheOnly(SuffixMatches(edge.module, known)) \in known \cup {Nothing}
  BY TheOnlyIsOneOfThem DEF SuffixMatches
<1> QED
  BY <1>1, <1>2 DEF PythonTarget, PythonRelative

LEMMA JsTargetIsKnown ==
  ASSUME NEW edge, NEW from, NEW known
  PROVE  JsTarget(edge, from, known) \in known \cup {Nothing}
<1> DEFINE E == {".ts", ".tsx", ".js", ".jsx", ".mjs", ".cjs", ".mts", ".cts"}
           tried(root, parts, suffixes) ==
             FirstKnown([i \in DOMAIN suffixes |-> At(root, parts, suffixes[i])], known)
<1>1. ASSUME NEW S, NEW suffixes \in Seq(S), NEW root, NEW parts
      PROVE  tried(root, parts, suffixes) \in known \cup {Nothing}
  <2> DEFINE named == [i \in DOMAIN suffixes |-> At(root, parts, suffixes[i])]
             P     == {At(root, parts, e) : e \in S}
  <2>1. named \in Seq(P)
    OBVIOUS
  <2> HIDE DEF named, P
  <2>2. Len(named) \in Nat
    BY <2>1
  <2>3. FirstKnown(named, known) \in known \cup {Nothing}
    BY <2>2, FirstKnownIsKnown
  <2> QED
    BY <2>3 DEF named
<1>2. JsExtensions \in Seq(E)
  BY DEF JsExtensions
<1>3. ASSUME NEW ext PROVE <<ext>> \o EsmRewrites(ext) \in Seq(E \cup {ext})
  <2> DEFINE S == E \cup {ext}
  <2>1. /\ <<".ts", ".tsx">> \in Seq(S) /\ <<".mts">> \in Seq(S)
        /\ <<".cts">> \in Seq(S) /\ <<>> \in Seq(S) /\ <<ext>> \in Seq(S)
    OBVIOUS
  <2> HIDE DEF S
  <2>2. EsmRewrites(ext) \in Seq(S)
    BY <2>1 DEF EsmRewrites
  <2>3. <<ext>> \o EsmRewrites(ext) \in Seq(S)
    BY <2>1, <2>2
  <2> QED
    BY <2>3 DEF S
<1> HIDE DEF E, tried
<1>4. ASSUME NEW root, NEW base, NEW ext
      PROVE  JsCandidates(root, base, ext, known) \in known \cup {Nothing}
  <2> DEFINE whole == Append(Front(base), Last(base) \o ext)
  <2>1. /\ tried(root, base, <<ext>> \o EsmRewrites(ext)) \in known \cup {Nothing}
        /\ tried(root, whole, JsExtensions) \in known \cup {Nothing}
        /\ tried(root, Append(whole, "index"), JsExtensions) \in known \cup {Nothing}
    BY <1>1, <1>2, <1>3
  <2>2. JsCandidates(root, base, ext, known) =
          OrElse(tried(root, base, <<ext>> \o EsmRewrites(ext)),
            OrElse(tried(root, whole, JsExtensions),
                   tried(root, Append(whole, "index"), JsExtensions)))
    BY DEF JsCandidates, tried
  <2> QED
    BY <2>1, <2>2 DEF OrElse
<1> QED
  BY <1>4 DEF JsTarget

(* An import is resolved to a file of its own repository, or not at all.   *)
LEMMA PathTargetIsNear ==
  ASSUME NEW i, PathTarget(i) # Nothing
  PROVE  PathTarget(i) \in Indexed /\ SameUnit(PathTarget(i), i.file)
<1>1. PathTarget(i) \in Known(Indexed, i.file) \cup {Nothing}
  BY PythonTargetIsKnown, JsTargetIsKnown DEF PathTarget, ImportTarget
<1> QED
  BY <1>1 DEF Known

(* A call is resolved to a file that declares a route, or not at all.      *)
LEMMA CallTargetDeclares ==
  ASSUME NEW c, CallTarget(c) # Nothing
  PROVE  \E r \in routes : CallTarget(c) = r.file
<1>1. ASSUME NEW wanted, NEW exact
      PROVE  RouteMatch(routes, wanted, exact) \in {r.file : r \in routes} \cup {Nothing}
  BY TheOnlyIsOneOfThem DEF RouteMatch
<1>2. ASSUME NEW under
      PROVE  (IF c.template = <<>> \/ RouteMatch(routes, c.template, c.exact) # Nothing
                 \/ under = <<>>
              THEN (IF c.template = <<>> THEN Nothing
                    ELSE RouteMatch(routes, c.template, c.exact))
              ELSE RouteMatch(routes,
                     SubSeq(c.template, Len(under[1]) + 1, Len(c.template)), c.exact))
             \in {r.file : r \in routes} \cup {Nothing}
  BY <1>1
<1>3. CallTarget(c) \in {r.file : r \in routes} \cup {Nothing}
  BY <1>2 DEF CallTarget, RouteTarget
<1> QED
  BY <1>3

-----------------------------------------------------------------------------
(* The types.  A row is typed because of who may have written it, so the   *)
(* typing is proved together with the resolvers' division of labour and    *)
(* with where the backfill is.                                             *)

\* What the backfill has still to read, and has read, is in the manifest.
BackfillInv ==
  /\ pc # "backfill" => stale = {} /\ batch = {}
  /\ stale \subseteq Indexed
  /\ \A w \in batch : w.file \in Indexed /\ w.file \notin stale
  /\ \A w \in batch, x \in batch : w.file = x.file => w = x

\* Who may have answered an edge.
ResolvedInv ==
  \A i \in imports :
    /\ i.by = "path" => LanguageOf(i.file) # "csharp" /\ SameUnit(i.file, i.to)
    /\ i.by = "namespace" => LanguageOf(i.file) = "csharp"
    /\ i.by = "declined" => i.edge.kind \in DeclinedKinds
    /\ i.edge.kind \in DeclinedKinds => LanguageOf(i.file) = "csharp"

StateInv == TypeOK /\ BackfillInv /\ ResolvedInv

\* What a scan of a file may put in the tables.
LEMMA ScansAreTyped ==
  ASSUME NEW f \in Paths, NEW c \in Contents, NEW v \in {0, 1}
  PROVE  /\ ScanImports(f, c, v) \subseteq Edges
         /\ \A e \in ScanImports(f, c, v) :
              e.kind \in DeclinedKinds => LanguageOf(f) = "csharp"
         /\ ScanNamespaces(f, c, GraphVersion) \subseteq Symbols
         /\ ScanCalls(f, c) \subseteq Urls
<1>1. ScanImports(f, c, v) \subseteq Edges
  BY DEF Edges
<1>2. ASSUME NEW e \in ScanImports(f, c, v), e.kind \in DeclinedKinds
      PROVE  LanguageOf(f) = "csharp"
  BY <1>2 DEF ScanImports, Edge, DeclinedKinds
<1>3. ScanNamespaces(f, c, GraphVersion) \subseteq Symbols
  BY DEF Symbols, GraphVersion
<1>4. ScanCalls(f, c) \subseteq Urls
  BY DEF Urls
<1> QED
  BY <1>1, <1>2, <1>3, <1>4

\* A row of an import is an old one of another file, or a new one.
LEMMA WrittenImports ==
  ASSUME NEW written, written \subseteq [file : Paths, content : Contents],
         WriteEdges(written), NEW i \in imports'
  PROVE  \/ i \in imports /\ \A w \in written : i.file # w.file
         \/ \E w \in written : \E e \in ScanImports(w.file, w.content, GraphVersion) :
              i = [file |-> w.file, edge |-> e, to |-> Nothing, by |-> Nothing,
                   origin |-> Nothing]
  BY DEF WriteEdges, Without, NewImports

LEMMA WrittenRest ==
  ASSUME NEW written, written \subseteq [file : Paths, content : Contents],
         WriteEdges(written)
  PROVE  /\ \A n \in spaces' :
              \/ n \in spaces /\ \A w \in written : n.file # w.file
              \/ \E w \in written :
                   \E s \in ScanNamespaces(w.file, w.content, GraphVersion) :
                     n = [file |-> w.file, symbol |-> s]
         /\ \A r \in routes' :
              \/ r \in routes /\ \A w \in written : r.file # w.file
              \/ \E w \in written : \E t \in ScanRoutes(w.file, w.content) :
                   r = [file |-> w.file, template |-> t]
         /\ \A c \in calls' :
              \/ c \in calls /\ \A w \in written : c.file # w.file
              \/ \E w \in written : \E k \in ScanCalls(w.file, w.content) :
                   c = [file |-> w.file, template |-> k.template, exact |-> k.exact,
                        to |-> Nothing]
<1>1. \A n \in spaces' :
        \/ n \in spaces /\ \A w \in written : n.file # w.file
        \/ \E w \in written :
             \E s \in ScanNamespaces(w.file, w.content, GraphVersion) :
               n = [file |-> w.file, symbol |-> s]
  BY DEF WriteEdges, Without, NewSpaces
<1>2. \A r \in routes' :
        \/ r \in routes /\ \A w \in written : r.file # w.file
        \/ \E w \in written : \E t \in ScanRoutes(w.file, w.content) :
             r = [file |-> w.file, template |-> t]
  BY DEF WriteEdges, Without, NewRoutes
<1>3. \A c \in calls' :
        \/ c \in calls /\ \A w \in written : c.file # w.file
        \/ \E w \in written : \E k \in ScanCalls(w.file, w.content) :
             c = [file |-> w.file, template |-> k.template, exact |-> k.exact,
                  to |-> Nothing]
  BY DEF WriteEdges, Without, NewCalls
<1> QED
  BY <1>1, <1>2, <1>3

(* Writing the edges of files that are in the manifest afterwards leaves   *)
(* the tables typed.                                                       *)
LEMMA WriteEdgesTyped ==
  ASSUME TypeOK, ResolvedInv, NEW written,
         written \subseteq [file : Paths, content : Contents], WriteEdges(written),
         rows' \in [Paths -> [content : Contents, version : {0, 1}] \cup {Nothing}],
         \A f \in Paths : f \in Indexed => rows'[f] # Nothing,
         \A w \in written : rows'[w.file] # Nothing
  PROVE  TablesOK' /\ ResolvedInv'
<1> USE DEF TypeOK, TablesOK, Indexed
<1>1. ASSUME NEW i \in imports'
      PROVE  /\ i \in ImportRow /\ (i.to # Nothing) = (i.by = "path")
             /\ rows'[i.file] # Nothing
             /\ i.by = "path" => LanguageOf(i.file) # "csharp" /\ SameUnit(i.file, i.to)
             /\ i.by = "namespace" => LanguageOf(i.file) = "csharp"
             /\ i.by = "declined" => i.edge.kind \in DeclinedKinds
             /\ i.edge.kind \in DeclinedKinds => LanguageOf(i.file) = "csharp"
  <2>1. CASE i \in imports
    BY <2>1 DEF ResolvedInv, ImportRow
  <2>2. CASE \E w \in written : \E e \in ScanImports(w.file, w.content, GraphVersion) :
               i = [file |-> w.file, edge |-> e, to |-> Nothing, by |-> Nothing,
                    origin |-> Nothing]
    <3> PICK w \in written : \E e \in ScanImports(w.file, w.content, GraphVersion) :
          i = [file |-> w.file, edge |-> e, to |-> Nothing, by |-> Nothing,
               origin |-> Nothing]
      BY <2>2
    <3>1. PICK e \in ScanImports(w.file, w.content, GraphVersion) :
            i = [file |-> w.file, edge |-> e, to |-> Nothing, by |-> Nothing,
                 origin |-> Nothing]
      OBVIOUS
    <3>2. /\ w.file \in Paths /\ e \in Edges
          /\ e.kind \in DeclinedKinds => LanguageOf(w.file) = "csharp"
      BY ScansAreTyped DEF GraphVersion
    <3> QED
      BY <3>1, <3>2, GraphAssumption DEF ImportRow
  <2> QED
    BY <2>1, <2>2, WrittenImports
<1>2. spaces' \in SUBSET [file : Paths, symbol : Symbols]
      /\ \A n \in spaces' : rows'[n.file] # Nothing
  BY WrittenRest, ScansAreTyped
<1>3. \A r \in routes' : r.file \in Paths /\ rows'[r.file] # Nothing
  BY WrittenRest
<1>4. calls' \in SUBSET CallRow /\ \A c \in calls' : rows'[c.file] # Nothing
  BY WrittenRest, ScansAreTyped DEF CallRow
<1>5. TablesOK'
  BY <1>1, <1>2, <1>3, <1>4
<1>6. ResolvedInv'
  BY <1>1 DEF ResolvedInv
<1> QED
  BY <1>5, <1>6

\* Steps that leave the tables and what the backfill holds.
LEMMA TablesKept ==
  ASSUME StateInv, UNCHANGED tables
  PROVE  TablesOK' /\ ResolvedInv' /\ Indexed' = Indexed
BY DEF StateInv, TypeOK, TablesOK, ResolvedInv, Indexed, tables

LEMMA StampedOne ==
  ASSUME NEW f \in Paths, NEW c \in Contents,
         rows \in [Paths -> [content : Contents, version : {0, 1}] \cup {Nothing}],
         rows' = Stamped({[file |-> f, content |-> c]})
  PROVE  /\ rows' \in [Paths -> [content : Contents, version : {0, 1}] \cup {Nothing}]
         /\ rows'[f] = [content |-> c, version |-> GraphVersion]
         /\ rows'[f] # Nothing
         /\ \A g \in Paths \ {f} : rows'[g] = rows[g]
<1> DEFINE files == {[file |-> f, content |-> c]}
<1>1. (CHOOSE w \in files : w.file = f) = [file |-> f, content |-> c]
  OBVIOUS
<1>2. rows' = [g \in Paths |-> IF g = f THEN [content |-> c, version |-> GraphVersion]
                                        ELSE rows[g]]
  <2>1. \A g : g \in {w.file : w \in files} <=> g = f
    OBVIOUS
  <2> QED
    BY <1>1, <2>1 DEF Stamped
<1>3. [content |-> c, version |-> GraphVersion] \in [content : Contents, version : {0, 1}]
  BY DEF GraphVersion
<1>4. rows'[f] = [content |-> c, version |-> GraphVersion]
      /\ \A g \in Paths \ {f} : rows'[g] = rows[g]
  BY <1>2
<1>5. rows'[f] # Nothing
  BY <1>3, <1>4, GraphAssumption
<1>6. rows' \in [Paths -> [content : Contents, version : {0, 1}] \cup {Nothing}]
  BY <1>2, <1>3
<1> QED
  BY <1>4, <1>5, <1>6

(* The whole row of one file is replaced, with or without its edges.       *)
LEMMA IndexedOne ==
  ASSUME StateInv, NEW f \in Paths, IndexFile(f) \/ IndexFileBlind(f)
  PROVE  StateInv'
<1> USE DEF StateInv
<1> DEFINE new == [file |-> f, content |-> disk[f]]
<1>1. /\ disk[f] \in Contents /\ rows' = Stamped({new})
      /\ pc = "walk" /\ todo' = todo \ {f} /\ torn' \in {torn \ {f}, torn \cup {f}}
      /\ UNCHANGED <<configured, disk, edits, pc, scope, seen, stale, batch, aborts, steady>>
  BY DEF IndexFile, IndexFileBlind, TypeOK
<1>2. /\ rows' \in [Paths -> [content : Contents, version : {0, 1}] \cup {Nothing}]
      /\ rows'[f] # Nothing /\ \A g \in Paths \ {f} : rows'[g] = rows[g]
  BY <1>1, StampedOne DEF TypeOK, TablesOK
<1>3. TablesOK' /\ ResolvedInv'
  <2>1. CASE IndexFile(f)
    <3>1. WriteEdges({new}) /\ {new} \subseteq [file : Paths, content : Contents]
      BY <1>1, <2>1 DEF IndexFile
    <3> QED
      BY <1>2, <3>1, WriteEdgesTyped DEF Indexed
  <2>2. CASE IndexFileBlind(f)
    BY <1>2, <2>2
    DEF IndexFileBlind, Without, TypeOK, TablesOK, ResolvedInv, ImportRow, CallRow
  <2> QED
    BY <2>1, <2>2
<1>4. TypeOK'
  BY <1>1, <1>3 DEF TypeOK, RunOK
<1>5. BackfillInv'
  BY <1>1, <1>2 DEF BackfillInv, Indexed
<1> QED
  BY <1>3, <1>4, <1>5

LEMMA RecordedBatch ==
  ASSUME StateInv, RecordRescanned
  PROVE  StateInv'
<1> USE DEF StateInv
<1>1. rows' \in [Paths -> [content : Contents, version : {0, 1}] \cup {Nothing}]
      /\ \A f \in Paths : f \in Indexed => rows'[f] # Nothing
  <2>1. ASSUME NEW f \in Paths
        PROVE  /\ rows'[f] \in [content : Contents, version : {0, 1}] \cup {Nothing}
               /\ f \in Indexed => rows'[f] # Nothing
    <3>1. rows'[f] \in {rows[f], [rows[f] EXCEPT !.version = GraphVersion]}
          /\ (f \notin Indexed => rows'[f] = rows[f])
      BY DEF RecordRescanned, BackfillInv
    <3> QED
      BY <3>1, GraphAssumption DEF TypeOK, TablesOK, Indexed, GraphVersion
  <2> QED
    BY <2>1 DEF RecordRescanned
<1>2. TablesOK' /\ ResolvedInv'
  BY <1>1, WriteEdgesTyped DEF RecordRescanned, BackfillInv, TypeOK, RunOK, Indexed
<1>3. TypeOK'
  BY <1>2 DEF RecordRescanned, TypeOK, RunOK
<1>4. BackfillInv'
  BY <1>1 DEF RecordRescanned, BackfillInv, Indexed
<1> QED
  BY <1>2, <1>3, <1>4

\* A pass over the imports: who answered an edge changes, as the resolvers may.
LEMMA Rewritten ==
  ASSUME StateInv, UNCHANGED <<rows, spaces, routes, calls>>,
         \A j \in imports' : \E i \in imports :
           /\ j.file = i.file /\ j.edge = i.edge /\ j \in ImportRow
           /\ \/ j.by = i.by /\ j.to = i.to
              \/ j.by = Nothing /\ j.to = Nothing
              \/ j.by = "declined" /\ j.to = Nothing /\ i.edge.kind \in DeclinedKinds
              \/ j.by = "namespace" /\ j.to = Nothing /\ LanguageOf(i.file) = "csharp"
              \/ /\ j.by = "path" /\ j.to # Nothing /\ SameUnit(i.file, j.to)
                 /\ LanguageOf(i.file) # "csharp"
  PROVE  TablesOK' /\ ResolvedInv' /\ Indexed' = Indexed
<1> USE DEF StateInv, TypeOK, TablesOK, ResolvedInv
<1>1. ASSUME NEW j \in imports'
      PROVE  /\ j \in ImportRow /\ (j.to # Nothing) = (j.by = "path")
             /\ rows'[j.file] # Nothing
             /\ j.by = "path" => LanguageOf(j.file) # "csharp" /\ SameUnit(j.file, j.to)
             /\ j.by = "namespace" => LanguageOf(j.file) = "csharp"
             /\ j.by = "declined" => j.edge.kind \in DeclinedKinds
             /\ j.edge.kind \in DeclinedKinds => LanguageOf(j.file) = "csharp"
  BY GraphAssumption
<1>2. TablesOK' /\ ResolvedInv'
  BY <1>1
<1> QED
  BY <1>2 DEF Indexed

LEMMA RelatingStep ==
  ASSUME StateInv,
         \/ \E i \in imports : Retire(i) \/ ResolvePath(i) \/ ResolveNamespace(i)
         \/ Decline \/ Classify
  PROVE  TablesOK' /\ ResolvedInv' /\ Indexed' = Indexed
<1> USE DEF StateInv, TypeOK, TablesOK
<1>1. CASE \E i \in imports : Retire(i)
  <2> PICK i \in imports : Retire(i)
    BY <1>1
  <2>1. \A j \in imports : j.by = "namespace" =>
          j.to = Nothing /\ [j EXCEPT !.by = Nothing] \in ImportRow
    BY GraphAssumption DEF ImportRow
  <2> QED
    BY <2>1, Rewritten DEF Retire, ImportRow
<1>2. CASE \E i \in imports : ResolvePath(i)
  <2> PICK i \in imports : ResolvePath(i)
    BY <1>2
  <2>1. PathTarget(i) \in Paths /\ PathTarget(i) # Nothing /\ SameUnit(i.file, PathTarget(i))
    BY PathTargetIsNear DEF ResolvePath, Indexed, SameUnit
  <2>2. ASSUME NEW j \in imports'
        PROVE  \E k \in imports :
                 /\ j.file = k.file /\ j.edge = k.edge /\ j \in ImportRow
                 /\ \/ j.by = k.by /\ j.to = k.to
                    \/ /\ j.by = "path" /\ j.to # Nothing /\ SameUnit(k.file, j.to)
                       /\ LanguageOf(k.file) # "csharp"
    <3>1. PICK k \in imports :
            j = IF SameModule(i, k) THEN [k EXCEPT !.to = PathTarget(i), !.by = "path"]
                                    ELSE k
      BY DEF ResolvePath
    <3>2. CASE SameModule(i, k)
      <4>1. k.file = i.file /\ LanguageOf(i.file) # "csharp"
        BY <3>2 DEF SameModule, ResolvePath
      <4> QED
        BY <2>1, <3>1, <3>2, <4>1 DEF ImportRow
    <3>3. CASE ~SameModule(i, k)
      BY <3>1, <3>3
    <3> QED
      BY <3>2, <3>3
  <2> QED
    BY <2>2, Rewritten DEF ResolvePath
<1>3. CASE \E i \in imports : ResolveNamespace(i)
  <2> PICK i \in imports : ResolveNamespace(i)
    BY <1>3
  <2>1. \A j \in imports : SameModule(i, j) => j.to = Nothing
    BY DEF ResolvedInv, ResolveNamespace, SameModule, ImportRow
  <2> QED
    BY <2>1, Rewritten DEF ResolveNamespace, SameModule, ImportRow
<1>4. CASE Decline
  BY <1>4, Rewritten DEF Decline, Undecided, ImportRow
<1>5. CASE Classify
  <2>1. \A e, f, to, by : Origin(e, f, to, by) \in Origins
    BY DEF Origin, Origins
  <2>2. ASSUME NEW j \in imports'
        PROVE  \E i \in imports : /\ j.file = i.file /\ j.edge = i.edge
                                  /\ j.by = i.by /\ j.to = i.to /\ j \in ImportRow
    BY <1>5, <2>1 DEF Classify, OriginOf, ImportRow
  <2> QED
    BY <1>5, <2>2, Rewritten DEF Classify
<1> QED
  BY <1>1, <1>2, <1>3, <1>4, <1>5

LEMMA StateStep == StateInv /\ [Next]_vars => StateInv'
<1> SUFFICES ASSUME StateInv, [Next]_vars PROVE StateInv'
  OBVIOUS
<1> USE DEF StateInv
<1>1. CASE \E f \in Paths : \E c \in ContentsOf[f] \cup {Nothing} : Edit(f, c)
  <2>1. disk' \in [Paths -> Contents \cup {Nothing}]
    BY <1>1 DEF Edit, TypeOK, Contents
  <2> QED
    BY <1>1, <2>1, TablesKept, GraphAssumption DEF Edit, TypeOK, RunOK, BackfillInv
<1>2. CASE \E s \in Scopes : StartRun(s)
  BY <1>2, TablesKept DEF StartRun, TypeOK, RunOK, BackfillInv, Passes
<1>3. CASE \E f \in Paths : IndexFile(f) \/ IndexFileBlind(f)
  BY <1>3, IndexedOne
<1>4. CASE (\E f \in Paths : IndexSkip(f)) \/ EndWalk
  BY <1>4, TablesKept DEF IndexSkip, EndWalk, TypeOK, RunOK, BackfillInv, Passes
<1>5. CASE \E f \in Paths : ForgetFile(f)
  <2> PICK f \in Paths : ForgetFile(f)
    BY <1>5
  <2>1. TablesOK' /\ ResolvedInv'
    BY DEF ForgetFile, Without, TypeOK, TablesOK, ResolvedInv
  <2>2. TypeOK'
    BY <2>1 DEF ForgetFile, TypeOK, RunOK
  <2>3. BackfillInv'
    BY DEF ForgetFile, BackfillInv
  <2> QED
    BY <2>1, <2>2, <2>3
<1>6. CASE EndOrphans
  BY <1>6, TablesKept DEF EndOrphans, Outdated, TypeOK, RunOK, BackfillInv, Passes, Indexed
<1>7. CASE \E f \in Paths : Rescan(f) \/ RescanFails(f)
  <2>1. TablesOK' /\ ResolvedInv' /\ Indexed' = Indexed
    BY <1>7, TablesKept DEF Rescan, RescanFails
  <2>2. TypeOK'
    BY <1>7, <2>1 DEF Rescan, RescanFails, TypeOK, RunOK
  <2>3. BackfillInv'
    BY <1>7, <2>1 DEF Rescan, RescanFails, BackfillInv
  <2> QED
    BY <2>1, <2>2, <2>3
<1>8. CASE RecordRescanned
  BY <1>8, RecordedBatch
<1>9. CASE EndBackfill \/ EndRetire \/ EndResolve
  BY <1>9, TablesKept
  DEF EndBackfill, EndRetire, EndResolve, TypeOK, RunOK, BackfillInv, Passes
<1>10. CASE \/ \E i \in imports : Retire(i) \/ ResolvePath(i) \/ ResolveNamespace(i)
            \/ Decline \/ Classify
  <2>1. TablesOK' /\ ResolvedInv' /\ Indexed' = Indexed
    BY <1>10, RelatingStep
  <2>2. TypeOK'
    BY <1>10, <2>1
    DEF Retire, ResolvePath, ResolveNamespace, Decline, Classify, TypeOK, RunOK, Passes
  <2>3. BackfillInv'
    BY <1>10, <2>1
    DEF Retire, ResolvePath, ResolveNamespace, Decline, Classify, BackfillInv
  <2> QED
    BY <2>1, <2>2, <2>3
<1>11. CASE \E c \in calls : ResolveCall(c)
  <2> PICK c \in calls : ResolveCall(c)
    BY <1>11
  <2>1. CallTarget(c) \in Paths
    BY CallTargetDeclares DEF ResolveCall, Callable, TypeOK, TablesOK
  <2>2. TablesOK' /\ ResolvedInv'
    BY <2>1 DEF ResolveCall, TypeOK, TablesOK, ResolvedInv, CallRow
  <2> QED
    BY <2>2 DEF ResolveCall, TypeOK, RunOK, BackfillInv, Indexed
<1>12. CASE FinishRun \/ Abort
  <2>1. TablesOK' /\ ResolvedInv' /\ Indexed' = Indexed
    BY <1>12, TablesKept DEF FinishRun, Abort
  <2>2. RunOK'
    BY <1>12, GraphAssumption DEF FinishRun, Abort, Reset, TypeOK, RunOK, Passes
  <2> QED
    BY <1>12, <2>1, <2>2 DEF FinishRun, Abort, Reset, TypeOK, BackfillInv
<1>13. CASE UNCHANGED vars
  BY <1>13, TablesKept DEF vars, TypeOK, RunOK, BackfillInv
<1> QED
  BY <1>1, <1>2, <1>3, <1>4, <1>5, <1>6, <1>7, <1>8, <1>9, <1>10, <1>11, <1>12, <1>13
  DEF Next, Progress, Walk, Backfill, Relate

\* What an older release left is what its scanners read in the files of that day.
LEMMA InitState == Init => StateInv
<1> SUFFICES ASSUME Init PROVE StateInv
  OBVIOUS
<1>1. PICK o \in OldIndexes :
        LET old == {f \in o : f.root \in configured} IN
        /\ rows = [f \in Paths |-> IF f \in old THEN [content |-> disk[f], version |-> 0]
                                                ELSE Nothing]
        /\ imports = UNION {NewImports(f, disk[f], 0) : f \in old}
        /\ spaces = {}
        /\ routes = UNION {NewRoutes(f, disk[f]) : f \in old}
        /\ calls = UNION {NewCalls(f, disk[f]) : f \in old}
  BY DEF Init
<1> DEFINE old == {f \in o : f.root \in configured}
<1>2. disk \in [Paths -> Contents \cup {Nothing}]
  BY GraphAssumption DEF Init
<1>3. \A f \in old : f \in Paths /\ disk[f] \in Contents
  BY GraphAssumption DEF Init
<1> HIDE DEF old
<1>4. /\ rows = [f \in Paths |-> IF f \in old THEN [content |-> disk[f], version |-> 0]
                                              ELSE Nothing]
      /\ imports = UNION {NewImports(f, disk[f], 0) : f \in old}
      /\ routes = UNION {NewRoutes(f, disk[f]) : f \in old}
      /\ calls = UNION {NewCalls(f, disk[f]) : f \in old}
  BY <1>1 DEF old
<1>5. /\ rows \in [Paths -> [content : Contents, version : {0, 1}] \cup {Nothing}]
      /\ \A f \in old : rows[f] # Nothing
  <2>1. \A f \in old : [content |-> disk[f], version |-> 0]
                         \in [content : Contents, version : {0, 1}]
    BY <1>3
  <2>2. \A f \in old : rows[f] = [content |-> disk[f], version |-> 0]
    BY <1>3, <1>4
  <2>3. ASSUME NEW f \in old PROVE rows[f] # Nothing
    <3>1. rows[f] \in [content : Contents, version : {0, 1}]
      BY <2>1, <2>2
    <3> QED
      BY <3>1, GraphAssumption
  <2>4. rows \in [Paths -> [content : Contents, version : {0, 1}] \cup {Nothing}]
    BY <1>4, <2>1
  <2> QED
    BY <2>3, <2>4
<1>6. ASSUME NEW i \in imports
      PROVE  /\ i \in ImportRow /\ i.to = Nothing /\ i.by = Nothing
             /\ rows[i.file] # Nothing
             /\ i.edge.kind \in DeclinedKinds => LanguageOf(i.file) = "csharp"
  <2>1. PICK f \in old : \E e \in ScanImports(f, disk[f], 0) :
          i = [file |-> f, edge |-> e, to |-> Nothing, by |-> Nothing, origin |-> Nothing]
    BY <1>4 DEF NewImports
  <2>2. PICK e \in ScanImports(f, disk[f], 0) :
          i = [file |-> f, edge |-> e, to |-> Nothing, by |-> Nothing, origin |-> Nothing]
    BY <2>1
  <2>3. e \in Edges /\ (e.kind \in DeclinedKinds => LanguageOf(f) = "csharp")
    BY <1>3, ScansAreTyped
  <2> QED
    BY <1>3, <1>5, <2>2, <2>3 DEF ImportRow
<1>7. \A r \in routes : r.file \in Paths /\ rows[r.file] # Nothing
  BY <1>3, <1>4, <1>5 DEF NewRoutes
<1>8. calls \in SUBSET CallRow /\ \A c \in calls : rows[c.file] # Nothing
  <2>1. \A f \in old : ScanCalls(f, disk[f]) \subseteq Urls
    BY <1>3, ScansAreTyped
  <2> QED
    BY <1>3, <1>4, <1>5, <2>1 DEF NewCalls, CallRow
<1>9. TablesOK
  BY <1>1, <1>5, <1>6, <1>7, <1>8, GraphAssumption DEF TablesOK
<1>10. TypeOK
  BY <1>2, <1>9, GraphAssumption DEF Init, TypeOK, RunOK, Passes
<1>11. ResolvedInv
  BY <1>6, GraphAssumption DEF ResolvedInv
<1> QED
  BY <1>10, <1>11 DEF StateInv, BackfillInv, Init

(* Every table of the graph is typed in every state: an edge has a target  *)
(* exactly if a path match gave it one, and no row of any of the four      *)
(* tables outlives the manifest's row of its file.                         *)
THEOREM GraphTypes == Spec => []TypeOK
<1>1. StateInv => TypeOK
  BY DEF StateInv
<1> QED
  BY InitState, StateStep, <1>1, PTL DEF Spec

LEMMA GraphState == Spec => []StateInv
BY InitState, StateStep, PTL DEF Spec

(* An import never names a file of another repository, at any moment of  *)
(* any run: a path match is looked up among the files of the importing     *)
(* file's repository, and a namespace among its declarations.              *)
THEOREM ImportsStayInUnit == Spec => []StaysInUnit
<1>1. StateInv => StaysInUnit
  <2> SUFFICES ASSUME StateInv, NEW i \in imports, NEW g \in Named(i)
               PROVE  SameUnit(i.file, g)
    BY DEF StaysInUnit
  <2>1. CASE i.by = "namespace"
    BY <2>1 DEF Named, Targets, NamespaceTargets, SameUnit
  <2>2. CASE i.by # "namespace"
    BY <2>2 DEF Named, StateInv, TypeOK, TablesOK, ResolvedInv
  <2> QED
    BY <2>1, <2>2
<1> QED
  BY <1>1, GraphState, PTL

-----------------------------------------------------------------------------
(* The passes.  A query reads flags that earlier passes wrote; each pass   *)
(* relies on what those before it left, and none undoes it.                *)

\* What each pass over the table leaves to the next ones.
PassInv ==
  \A i \in imports :
    /\ pc \in {"decline", "resolve", "classify", "routes"} /\ i.by = "namespace"
         => Targets(i) # {}
    /\ pc \in {"resolve", "classify", "routes"} /\ Undecided(i)
         => i.edge.kind \notin DeclinedKinds
    /\ pc = "routes" /\ i.by # "declined" => i.origin = OriginOf(i)

LEMMA PassesKept ==
  ASSUME PassInv, UNCHANGED <<imports, spaces>>,
         pc' = pc \/ pc' \notin {"decline", "resolve", "classify", "routes"}
  PROVE  PassInv'
BY DEF PassInv, Targets, Undecided, OriginOf

LEMMA PassStep == StateInv /\ PassInv /\ [Next]_vars => PassInv'
<1> SUFFICES ASSUME StateInv, PassInv, [Next]_vars PROVE PassInv'
  OBVIOUS
<1>1. CASE \E f \in Paths : \E c \in ContentsOf[f] \cup {Nothing} : Edit(f, c)
  BY <1>1, PassesKept DEF Edit, tables
<1>2. CASE \E s \in Scopes : StartRun(s)
  BY <1>2, PassesKept DEF StartRun, tables
<1>3. CASE \E f \in Paths : IndexFile(f) \/ IndexFileBlind(f) \/ ForgetFile(f)
  BY <1>3 DEF IndexFile, IndexFileBlind, ForgetFile, PassInv
<1>4. CASE (\E f \in Paths : IndexSkip(f)) \/ EndWalk \/ EndOrphans
  BY <1>4, PassesKept DEF IndexSkip, EndWalk, EndOrphans, tables
<1>5. CASE \E f \in Paths : Rescan(f) \/ RescanFails(f)
  BY <1>5, PassesKept DEF Rescan, RescanFails, tables
<1>6. CASE RecordRescanned
  BY <1>6 DEF RecordRescanned, PassInv
<1>7. CASE EndBackfill
  BY <1>7, PassesKept DEF EndBackfill, tables
<1>8. CASE EndRetire
  BY <1>8 DEF EndRetire, PassInv, tables, Targets
<1>9. CASE EndResolve
  BY <1>9 DEF EndResolve, PassInv, tables, Targets, Undecided
<1>10. CASE \E i \in imports : Retire(i)
  BY <1>10 DEF Retire, PassInv
<1>11. CASE Decline
  <2>1. ASSUME NEW j \in imports'
        PROVE  /\ j.by = "namespace" => Targets(j)' # {}
               /\ Undecided(j) => j.edge.kind \notin DeclinedKinds
    <3>1. PICK i \in imports : j = IF Undecided(i) /\ i.edge.kind \in DeclinedKinds
                                   THEN [i EXCEPT !.by = "declined"] ELSE i
      BY <1>11 DEF Decline
    <3>2. i \in ImportRow /\ pc = "decline" /\ spaces' = spaces
      BY <1>11 DEF Decline, StateInv, TypeOK, TablesOK
    <3>3. CASE Undecided(i) /\ i.edge.kind \in DeclinedKinds
      BY <3>1, <3>2, <3>3, GraphAssumption DEF ImportRow, Undecided
    <3>4. CASE ~(Undecided(i) /\ i.edge.kind \in DeclinedKinds)
      BY <3>1, <3>2, <3>4 DEF PassInv, Targets, Undecided
    <3> QED
      BY <3>3, <3>4
  <2> QED
    BY <1>11, <2>1 DEF Decline, PassInv, Undecided
<1>12. CASE \E i \in imports : ResolvePath(i) \/ ResolveNamespace(i)
  <2> PICK i \in imports : ResolvePath(i) \/ ResolveNamespace(i)
    BY <1>12
  <2>1. pc = "resolve" /\ pc' = "resolve" /\ spaces' = spaces
    BY DEF ResolvePath, ResolveNamespace
  <2>2. ASSUME NEW j \in imports'
        PROVE  /\ j.by = "namespace" => Targets(j)' # {}
               /\ Undecided(j) => j.edge.kind \notin DeclinedKinds
    <3>1. CASE j \in imports
      BY <2>1, <3>1 DEF PassInv, Targets, Undecided
    <3>2. CASE ResolvePath(i) /\ j \notin imports
      <4>1. PICK k \in imports : j = [k EXCEPT !.to = PathTarget(i), !.by = "path"]
        BY <3>2 DEF ResolvePath
      <4>2. j.by = "path"
        BY <4>1 DEF StateInv, TypeOK, TablesOK, ImportRow
      <4> QED
        BY <4>2, GraphAssumption DEF Undecided
    <3>3. CASE ResolveNamespace(i) /\ j \notin imports
      <4>1. PICK k \in imports : SameModule(i, k) /\ j = [k EXCEPT !.by = "namespace"]
        BY <3>3 DEF ResolveNamespace
      <4>2. /\ j.by = "namespace" /\ j.file = i.file
            /\ j.edge.module = i.edge.module
        BY <4>1 DEF StateInv, TypeOK, TablesOK, ImportRow, SameModule
      <4>3. Targets(j)' = Targets(i)
        BY <2>1, <4>2 DEF Targets
      <4> QED
        BY <3>3, <4>2, <4>3, GraphAssumption DEF Undecided, ResolveNamespace
    <3> QED
      BY <3>1, <3>2, <3>3
  <2> QED
    BY <2>1, <2>2 DEF PassInv, Undecided
<1>13. CASE Classify
  <2>1. pc = "classify" /\ pc' = "routes" /\ spaces' = spaces
    BY <1>13 DEF Classify
  <2>2. ASSUME NEW j \in imports'
        PROVE  /\ j.by = "namespace" => Targets(j)' # {}
               /\ Undecided(j) => j.edge.kind \notin DeclinedKinds
               /\ j.by # "declined" => j.origin = OriginOf(j)
    <3>1. PICK i \in imports : \E o :
            j = [i EXCEPT !.origin = o] /\ (i.by # "declined" => o = OriginOf(i))
      BY <1>13 DEF Classify
    <3>2. /\ j.file = i.file /\ j.edge = i.edge /\ j.to = i.to /\ j.by = i.by
          /\ i.by # "declined" => j.origin = OriginOf(i)
      BY <3>1 DEF StateInv, TypeOK, TablesOK, ImportRow
    <3> QED
      BY <2>1, <3>2 DEF PassInv, Targets, Undecided, OriginOf
  <2> QED
    BY <2>1, <2>2 DEF PassInv, Undecided, OriginOf
<1>14. CASE \E c \in calls : ResolveCall(c)
  BY <1>14, PassesKept DEF ResolveCall
<1>15. CASE FinishRun \/ Abort
  BY <1>15, PassesKept DEF FinishRun, Abort, Reset, tables
<1>16. CASE UNCHANGED vars
  BY <1>16, PassesKept DEF vars, tables
<1> QED
  BY <1>1, <1>2, <1>3, <1>4, <1>5, <1>6, <1>7, <1>8, <1>9, <1>10, <1>11, <1>12, <1>13,
     <1>14, <1>15, <1>16
  DEF Next, Progress, Walk, Backfill, Relate

LEMMA GraphPasses == Spec => []PassInv
<1>1. Init => PassInv
  BY DEF Init, PassInv
<1> QED
  BY <1>1, PassStep, GraphState, PTL DEF Spec

\* Nothing after the resolvers makes a file or a declaration that they lacked.
ClosedInv ==
  pc \in {"classify", "routes"} => \A i \in imports : ~Resolvable(i)

LEMMA ClosedStep == StateInv /\ ClosedInv /\ [Next]_vars => ClosedInv'
<1> SUFFICES ASSUME StateInv, ClosedInv, [Next]_vars, pc' \in {"classify", "routes"},
                    NEW j \in imports'
             PROVE  ~Resolvable(j)'
  BY DEF ClosedInv
<1>1. CASE /\ UNCHANGED <<imports, spaces, rows>>
           /\ pc \in {"classify", "routes"} \/ ~\E i \in imports : Resolvable(i)
  <2>1. \A i : Resolvable(i)' <=> Resolvable(i)
    BY <1>1 DEF Resolvable, AnswersTo, Undecided, Targets, PathTarget, Indexed
  <2> QED
    BY <1>1, <2>1 DEF ClosedInv
<1>2. CASE Classify
  <2>1. pc = "classify" /\ UNCHANGED <<spaces, rows>>
    BY <1>2 DEF Classify
  <2>2. PICK i \in imports : \E o : j = [i EXCEPT !.origin = o]
    BY <1>2 DEF Classify
  <2>3. j.file = i.file /\ j.edge = i.edge /\ j.to = i.to /\ j.by = i.by
    BY <2>2 DEF StateInv, TypeOK, TablesOK, ImportRow
  <2>4. Resolvable(j)' <=> Resolvable(i)
    BY <2>1, <2>3
    DEF Resolvable, AnswersTo, Undecided, Targets, PathTarget, Indexed
  <2> QED
    BY <2>1, <2>4 DEF ClosedInv
<1>3. CASE \E f \in Paths : \E c \in ContentsOf[f] \cup {Nothing} : Edit(f, c)
  BY <1>1, <1>3 DEF Edit, tables
<1>4. CASE EndResolve
  BY <1>1, <1>4 DEF EndResolve, tables
<1>5. CASE \E c \in calls : ResolveCall(c)
  BY <1>1, <1>5 DEF ResolveCall
<1>6. CASE UNCHANGED vars
  BY <1>1, <1>6 DEF vars, tables
<1>7. CASE \/ \E s \in Scopes : StartRun(s)
           \/ Walk \/ Backfill \/ FinishRun \/ Abort
           \/ \E f \in Paths : IndexFileBlind(f) \/ RescanFails(f)
           \/ \E i \in imports : Retire(i) \/ ResolvePath(i) \/ ResolveNamespace(i)
           \/ EndRetire \/ Decline
  BY <1>7 DEF StartRun, Walk, IndexSkip, IndexFile, EndWalk, ForgetFile, EndOrphans,
              Backfill, Rescan, RecordRescanned, EndBackfill, FinishRun, Abort, Reset,
              IndexFileBlind, RescanFails, Retire, ResolvePath, ResolveNamespace,
              EndRetire, Decline
<1> QED
  BY <1>2, <1>3, <1>4, <1>5, <1>6, <1>7 DEF Next, Progress, Relate

LEMMA GraphClosed == Spec => []ClosedInv
<1>1. Init => ClosedInv
  BY DEF Init, ClosedInv
<1> QED
  BY <1>1, ClosedStep, GraphState, PTL DEF Spec

(* After every run that completes, the flags from which the coverage       *)
(* figures are made agree with the joins from which the answers are made,  *)
(* whatever was deleted, renamed or moved out of a namespace since an edge *)
(* was resolved, and wherever earlier runs stopped: a using that is        *)
(* counted reaches an indexed file, nothing in the index answers an edge   *)
(* that is left unresolved, and first-party is what is counted or relative.*)
(* That a counted path is still a file's is not so, and not claimed.       *)
THEOREM CoverageAgreesWithAnswers == Spec => []FlagsAgreeWithJoins
<1>1. StateInv /\ PassInv /\ ClosedInv => FlagsAgreeWithJoins
  <2> SUFFICES ASSUME StateInv, PassInv, ClosedInv, RunDone, NEW i \in imports,
                      i.by # "declined"
               PROVE  /\ i.by = "namespace" => Reached(i) # {}
                      /\ ~CountedResolved(i) => AnswersTo(i) = {}
                      /\ i.origin = "first_party"
                           <=> CountedResolved(i) \/ i.edge.dots > 0
    BY DEF FlagsAgreeWithJoins
  <2>1. /\ i.by \in {Nothing, "path", "namespace"}
        /\ (i.to # Nothing) = (i.by = "path")
        /\ pc = "routes"
    BY DEF StateInv, TypeOK, TablesOK, ImportRow, RunDone
  <2>2. i.by = "namespace" => Reached(i) # {}
    <3>1. Targets(i) \subseteq Indexed
      BY DEF Targets, NamespaceTargets, Indexed, StateInv, TypeOK, TablesOK
    <3> QED
      BY <2>1, <3>1 DEF Reached, Named, PassInv
  <2>3. i.origin = OriginOf(i)
    BY <2>1 DEF PassInv
  <2>4. OriginOf(i) = "first_party" <=> i.to # Nothing \/ i.by # Nothing \/ i.edge.dots > 0
    BY DEF OriginOf, Origin
  <2>5. CountedResolved(i) <=> i.to # Nothing \/ i.by # Nothing
    BY <2>1 DEF CountedResolved
  <2>6. ~CountedResolved(i) => AnswersTo(i) = {}
    BY <2>1, <2>5 DEF ClosedInv, Resolvable, Undecided
  <2> QED
    BY <2>2, <2>3, <2>4, <2>5, <2>6
<1> QED
  BY <1>1, GraphState, GraphPasses, GraphClosed, PTL

-----------------------------------------------------------------------------
(* The life of an edge.  An UPDATE of the imports is keyed by file and     *)
(* module (and, for namespaces, by kind), and stands for a change of one   *)
(* edge because a file has no two rows of one edge (but for their lines,   *)
(* which no answer depends on): the kind follows from the language except  *)
(* in C#, where paths are not looked up.                                   *)

KeyInv ==
  /\ \A i \in imports, j \in imports : i.file = j.file /\ i.edge = j.edge => i = j
  /\ \A i \in imports : LanguageOf(i.file) # "csharp" => i.edge.kind = "import"

\* The backfill reads files that no newer release has stamped.
OldInv ==
  /\ \A f \in stale : rows[f].version = 0
  /\ \A w \in batch : rows[w.file].version = 0

LEMMA EdgesByField ==
  ASSUME NEW e \in Edges, NEW x \in Edges,
         e.module = x.module, e.dots = x.dots, e.ext = x.ext, e.kind = x.kind
  PROVE  e = x
<1>1. \A y \in Edges : y = [module |-> y.module, dots |-> y.dots, ext |-> y.ext,
                            kind |-> y.kind]
  <2> SUFFICES ASSUME NEW y \in Edges
               PROVE  y = [module |-> y.module, dots |-> y.dots, ext |-> y.ext,
                           kind |-> y.kind]
    OBVIOUS
  <2>1. PICK f \in Paths, c \in Contents, v \in {0, 1} : y \in ScanImports(f, c, v)
    BY DEF Edges
  <2>2. PICK s \in c.imports : y = Edge(s, LanguageOf(f), v)
    BY <2>1 DEF ScanImports
  <2> QED
    BY <2>2 DEF Edge
<1> QED
  BY <1>1

LEMMA ScannedKind ==
  ASSUME NEW f \in Paths, NEW c, NEW v, NEW e \in ScanImports(f, c, v),
         LanguageOf(f) # "csharp"
  PROVE  e.kind = "import"
BY DEF ScanImports, Edge

\* A pass that rewrites rows in place leaves one row per edge.
LEMMA KeysKept ==
  ASSUME KeyInv, NEW g, imports' = {g[i] : i \in imports},
         \A i \in imports : g[i].file = i.file /\ g[i].edge = i.edge
  PROVE  KeyInv'
BY DEF KeyInv

LEMMA KeysWritten ==
  ASSUME KeyInv, NEW written, written \subseteq [file : Paths, content : Contents],
         WriteEdges(written)
  PROVE  KeyInv'
<1>1. ASSUME NEW i \in imports', NEW j \in imports', i.file = j.file, i.edge = j.edge
      PROVE  i = j
  <2>1. CASE \A w \in written : i.file # w.file
    <3>1. i \in imports /\ j \in imports
      BY <1>1, <2>1, WrittenImports
    <3> QED
      BY <1>1, <3>1 DEF KeyInv
  <2>2. CASE \E w \in written : i.file = w.file
    <3>1. PICK w \in written : \E e \in ScanImports(w.file, w.content, GraphVersion) :
            i = [file |-> w.file, edge |-> e, to |-> Nothing, by |-> Nothing,
                 origin |-> Nothing]
      BY <2>2, WrittenImports
    <3>2. i = [file |-> i.file, edge |-> i.edge, to |-> Nothing, by |-> Nothing,
               origin |-> Nothing] /\ i.file = w.file
      BY <3>1
    <3>3. PICK x \in written : \E e \in ScanImports(x.file, x.content, GraphVersion) :
            j = [file |-> x.file, edge |-> e, to |-> Nothing, by |-> Nothing,
                 origin |-> Nothing]
      <4>1. j.file = w.file
        BY <1>1, <3>2
      <4>2. ~\A x \in written : j.file # x.file
        BY <4>1
      <4> QED
        BY <4>2, WrittenImports
    <3>4. j = [file |-> j.file, edge |-> j.edge, to |-> Nothing, by |-> Nothing,
               origin |-> Nothing]
      BY <3>3
    <3> QED
      BY <1>1, <3>2, <3>4
  <2> QED
    BY <2>1, <2>2
<1>2. ASSUME NEW i \in imports', LanguageOf(i.file) # "csharp"
      PROVE  i.edge.kind = "import"
  <2>1. CASE i \in imports
    BY <1>2, <2>1 DEF KeyInv
  <2>2. CASE \E w \in written : \E e \in ScanImports(w.file, w.content, GraphVersion) :
               i = [file |-> w.file, edge |-> e, to |-> Nothing, by |-> Nothing,
                    origin |-> Nothing]
    <3> PICK w \in written : \E e \in ScanImports(w.file, w.content, GraphVersion) :
          i = [file |-> w.file, edge |-> e, to |-> Nothing, by |-> Nothing,
               origin |-> Nothing]
      BY <2>2
    <3> PICK e \in ScanImports(w.file, w.content, GraphVersion) :
          i = [file |-> w.file, edge |-> e, to |-> Nothing, by |-> Nothing,
               origin |-> Nothing]
      OBVIOUS
    <3>1. i.file = w.file /\ i.edge = e /\ w.file \in Paths
      OBVIOUS
    <3> QED
      BY <1>2, <3>1, ScannedKind
  <2> QED
    BY <2>1, <2>2, WrittenImports
<1> QED
  BY <1>1, <1>2 DEF KeyInv

LEMMA ClassifyStamps ==
  ASSUME Classify
  PROVE  \E o : imports' = {[i EXCEPT !.origin = o[i]] : i \in imports}
<1> DEFINE asked    == {i \in imports : i.by # "declined"}
           like(i)  == {j \in asked : SameModule(i, j)}
           stamp(i) == IF i \in asked THEN OriginOf(i)
                       ELSE IF like(i) = {} THEN i.origin
                       ELSE OriginOf(CHOOSE j \in like(i) : TRUE)
           o        == [i \in imports |-> stamp(i)]
<1>1. imports' = {[i EXCEPT !.origin = stamp(i)] : i \in imports}
  BY DEF Classify
<1> HIDE DEF stamp
<1>2. imports' = {[i EXCEPT !.origin = o[i]] : i \in imports}
  BY <1>1
<1> QED
  BY <1>2

LEMMA RelatingKeepsKeys ==
  ASSUME StateInv, KeyInv,
         \/ \E i \in imports : Retire(i) \/ ResolvePath(i) \/ ResolveNamespace(i)
         \/ Decline \/ Classify
  PROVE  KeyInv'
<1>0. imports \subseteq ImportRow
  BY DEF StateInv, TypeOK, TablesOK
<1>1. CASE \E i \in imports : Retire(i)
  <2> PICK i \in imports : Retire(i)
    BY <1>1
  <2> DEFINE g == [j \in imports |-> IF SameModule(i, j) /\ j.by = "namespace"
                                     THEN [j EXCEPT !.by = Nothing] ELSE j]
  <2>1. imports' = {g[j] : j \in imports}
    BY DEF Retire
  <2>2. \A j \in imports : g[j].file = j.file /\ g[j].edge = j.edge
    BY <1>0 DEF ImportRow
  <2> QED
    BY ONLY KeyInv, <2>1, <2>2, KeysKept
<1>2. CASE \E i \in imports : ResolvePath(i)
  <2> PICK i \in imports : ResolvePath(i)
    BY <1>2
  <2> DEFINE g == [j \in imports |-> IF SameModule(i, j)
                                     THEN [j EXCEPT !.to = PathTarget(i), !.by = "path"]
                                     ELSE j]
  <2>1. imports' = {g[j] : j \in imports}
    BY DEF ResolvePath
  <2>2. \A j \in imports : g[j].file = j.file /\ g[j].edge = j.edge
    BY <1>0 DEF ImportRow
  <2> QED
    BY ONLY KeyInv, <2>1, <2>2, KeysKept
<1>3. CASE \E i \in imports : ResolveNamespace(i)
  <2> PICK i \in imports : ResolveNamespace(i)
    BY <1>3
  <2> DEFINE g == [j \in imports |-> IF SameModule(i, j) /\ j.edge.kind = i.edge.kind
                                     THEN [j EXCEPT !.by = "namespace"] ELSE j]
  <2>1. imports' = {g[j] : j \in imports}
    BY DEF ResolveNamespace
  <2>2. \A j \in imports : g[j].file = j.file /\ g[j].edge = j.edge
    BY <1>0 DEF ImportRow
  <2> QED
    BY ONLY KeyInv, <2>1, <2>2, KeysKept
<1>4. CASE Decline
  <2> DEFINE g == [j \in imports |-> IF Undecided(j) /\ j.edge.kind \in DeclinedKinds
                                     THEN [j EXCEPT !.by = "declined"] ELSE j]
  <2>1. imports' = {g[j] : j \in imports}
    BY <1>4 DEF Decline
  <2>2. \A j \in imports : g[j].file = j.file /\ g[j].edge = j.edge
    BY <1>0 DEF ImportRow
  <2> QED
    BY ONLY KeyInv, <2>1, <2>2, KeysKept
<1>5. CASE Classify
  <2>1. PICK o : imports' = {[i EXCEPT !.origin = o[i]] : i \in imports}
    BY <1>5, ClassifyStamps
  <2> DEFINE g == [j \in imports |-> [j EXCEPT !.origin = o[j]]]
  <2>2. imports' = {g[j] : j \in imports}
    BY <2>1
  <2>3. \A j \in imports : g[j].file = j.file /\ g[j].edge = j.edge
    BY <1>0 DEF ImportRow
  <2> QED
    BY ONLY KeyInv, <2>2, <2>3, KeysKept
<1> QED
  BY <1>1, <1>2, <1>3, <1>4, <1>5

LEMMA KeyStep == StateInv /\ KeyInv /\ [Next]_vars => KeyInv'
<1> SUFFICES ASSUME StateInv, KeyInv, [Next]_vars PROVE KeyInv'
  OBVIOUS
<1>1. CASE \E f \in Paths : IndexFile(f)
  <2> PICK f \in Paths : IndexFile(f)
    BY <1>1
  <2>1. WriteEdges({[file |-> f, content |-> disk[f]]}) /\ disk[f] \in Contents
    BY DEF IndexFile, StateInv, TypeOK
  <2> QED
    BY <2>1, KeysWritten
<1>2. CASE \E f \in Paths : IndexFileBlind(f) \/ ForgetFile(f)
  BY <1>2 DEF IndexFileBlind, ForgetFile, Without, KeyInv
<1>3. CASE RecordRescanned
  BY <1>3, KeysWritten DEF RecordRescanned, StateInv, TypeOK, RunOK
<1>4. CASE \/ \E i \in imports : Retire(i) \/ ResolvePath(i) \/ ResolveNamespace(i)
           \/ Decline \/ Classify
  BY <1>4, RelatingKeepsKeys
<1>5. CASE imports' = imports
  BY <1>5 DEF KeyInv
<1> QED
  BY <1>1, <1>2, <1>3, <1>4, <1>5
  DEF Next, Progress, Walk, Backfill, Relate, Edit, StartRun, IndexSkip, EndWalk,
      EndOrphans, Rescan, RescanFails, EndBackfill, EndRetire, EndResolve, ResolveCall,
      FinishRun, Abort, tables, vars

LEMMA OldStep == StateInv /\ OldInv /\ [Next]_vars => OldInv'
<1> SUFFICES ASSUME StateInv, OldInv, [Next]_vars PROVE OldInv'
  OBVIOUS
<1> USE DEF OldInv
<1>1. CASE pc # "backfill" /\ UNCHANGED <<stale, batch>>
  BY <1>1 DEF StateInv, BackfillInv
<1>2. CASE EndOrphans
  <2>1. \A f \in Indexed : rows[f].version \in {0, 1}
    BY DEF StateInv, TypeOK, TablesOK, Indexed
  <2> QED
    BY <1>2, <2>1
    DEF EndOrphans, Outdated, GraphVersion, tables, StateInv, BackfillInv
<1>3. CASE \E f \in Paths : Rescan(f) \/ RescanFails(f)
  BY <1>3 DEF Rescan, RescanFails, tables
<1>4. CASE RecordRescanned
  <2>1. \A f \in stale : rows'[f] = rows[f]
    BY <1>4 DEF RecordRescanned, StateInv, BackfillInv, Indexed
  <2> QED
    BY <1>4, <2>1 DEF RecordRescanned
<1>5. CASE FinishRun \/ Abort
  BY <1>5 DEF FinishRun, Abort, Reset
<1>6. CASE UNCHANGED <<rows, stale, batch>>
  BY <1>6
<1> QED
  BY <1>1, <1>2, <1>3, <1>4, <1>5, <1>6
  DEF Next, Progress, Walk, Backfill, Relate, Edit, StartRun, IndexSkip, EndWalk,
      IndexFile, IndexFileBlind, ForgetFile, EndBackfill, EndRetire, EndResolve,
      Retire, ResolvePath, ResolveNamespace, Decline, Classify, ResolveCall, tables, vars

LEMMA GraphKeys == Spec => [](KeyInv /\ OldInv)
<1>1. Init => KeyInv /\ OldInv
  <2> SUFFICES ASSUME Init PROVE KeyInv
    BY DEF Init, OldInv
  <2>1. PICK o \in OldIndexes :
          imports = UNION {NewImports(f, disk[f], 0) : f \in {x \in o : x.root \in configured}}
    BY DEF Init
  <2>2. o \subseteq Paths
    BY GraphAssumption
  <2>3. ASSUME NEW i \in imports
        PROVE  /\ i = [file |-> i.file, edge |-> i.edge, to |-> Nothing, by |-> Nothing,
                       origin |-> Nothing]
               /\ LanguageOf(i.file) # "csharp" => i.edge.kind = "import"
    <3>1. PICK f \in o : \E e \in ScanImports(f, disk[f], 0) :
            i = [file |-> f, edge |-> e, to |-> Nothing, by |-> Nothing, origin |-> Nothing]
      BY <2>1 DEF NewImports
    <3>2. PICK e \in ScanImports(f, disk[f], 0) :
            i = [file |-> f, edge |-> e, to |-> Nothing, by |-> Nothing, origin |-> Nothing]
      BY <3>1
    <3>3. LanguageOf(f) # "csharp" => e.kind = "import"
      BY <2>2, ScannedKind
    <3> QED
      BY <3>2, <3>3
  <2> QED
    BY <2>3 DEF KeyInv
<1> QED
  BY <1>1, KeyStep, OldStep, GraphState, PTL DEF Spec

\* The table of imports as EdgeLife sees it: without the origins.
View(i) == [file |-> i.file, edge |-> i.edge, to |-> i.to, by |-> i.by]
Answers == {View(i) : i \in imports}

LEMMA SomeAnswered ==
  ASSUME KeyInv, NEW S, S \subseteq imports, NEW g,
         imports' = (imports \ S) \cup {g[i] : i \in S}
  PROVE  Answers' = (Answers \ {View(i) : i \in S}) \cup {View(g[i]) : i \in S}
<1>1. \A i \in imports, j \in imports : View(i) = View(j) => i = j
  BY DEF View, KeyInv
<1>2. {View(i) : i \in imports \ S} = Answers \ {View(i) : i \in S}
  BY <1>1 DEF Answers
<1> QED
  BY <1>2 DEF Answers

\* How a row looks after an answer.
LEMMA AnsweredView ==
  ASSUME NEW i \in ImportRow
  PROVE  /\ \A t, b : View([i EXCEPT !.to = t, !.by = b]) = [View(i) EXCEPT !.to = t, !.by = b]
         /\ \A b : View([i EXCEPT !.by = b]) = [View(i) EXCEPT !.by = b]
         /\ \A b : View([i EXCEPT !.origin = b]) = View(i)
         /\ View(i).file = i.file /\ View(i).to = i.to /\ View(i).by = i.by
<1>1. i = [file |-> i.file, edge |-> i.edge, to |-> i.to, by |-> i.by, origin |-> i.origin]
  BY DEF ImportRow
<1> DEFINE f == i.file
           e == i.edge
           u == i.to
           c == i.by
           o == i.origin
<1>2. i = [file |-> f, edge |-> e, to |-> u, by |-> c, origin |-> o]
  BY <1>1
<1>3. View(i) = [file |-> f, edge |-> e, to |-> u, by |-> c]
  BY DEF View
<1>4. View(i).file = i.file /\ View(i).to = i.to /\ View(i).by = i.by
  BY DEF View
<1> HIDE DEF f, e, u, c, o
<1>5. ASSUME NEW t, NEW b
      PROVE  View([i EXCEPT !.to = t, !.by = b]) = [View(i) EXCEPT !.to = t, !.by = b]
  <2> DEFINE v == View(i)
             x == [i EXCEPT !.to = t]
             y == [v EXCEPT !.to = t]
  <2>1. x = [file |-> f, edge |-> e, to |-> t, by |-> c, origin |-> o]
    BY <1>2
  <2>2. y = [file |-> f, edge |-> e, to |-> t, by |-> c]
    BY <1>3
  <2>3. [i EXCEPT !.to = t, !.by = b] = [x EXCEPT !.by = b]
    OBVIOUS
  <2> HIDE DEF v
  <2>4. [v EXCEPT !.to = t, !.by = b] = [y EXCEPT !.by = b]
    OBVIOUS
  <2> HIDE DEF x, y
  <2>5. [x EXCEPT !.by = b] = [file |-> f, edge |-> e, to |-> t, by |-> b, origin |-> o]
    BY <2>1
  <2>6. [y EXCEPT !.by = b] = [file |-> f, edge |-> e, to |-> t, by |-> b]
    BY <2>2
  <2>7. View([x EXCEPT !.by = b]) = [y EXCEPT !.by = b]
    BY <2>5, <2>6 DEF View
  <2> QED
    BY <2>3, <2>4, <2>7 DEF v
<1>6. ASSUME NEW b
      PROVE  View([i EXCEPT !.by = b]) = [View(i) EXCEPT !.by = b]
  <2>1. [i EXCEPT !.by = b] = [file |-> f, edge |-> e, to |-> u, by |-> b, origin |-> o]
    BY <1>2
  <2>2. [View(i) EXCEPT !.by = b] = [file |-> f, edge |-> e, to |-> u, by |-> b]
    BY <1>3
  <2> QED
    BY <2>1, <2>2 DEF View
<1>7. ASSUME NEW b
      PROVE  View([i EXCEPT !.origin = b]) = View(i)
  <2>1. [i EXCEPT !.origin = b] = [file |-> f, edge |-> e, to |-> u, by |-> c, origin |-> b]
    BY <1>2
  <2> QED
    BY <2>1, <1>3 DEF View
<1> QED
  BY <1>4, <1>5, <1>6, <1>7

LEMMA AnswersAre ==
  /\ Answers = {[file |-> i.file, edge |-> i.edge, to |-> i.to, by |-> i.by] : i \in imports}
  /\ Answers' = {[file |-> i.file, edge |-> i.edge, to |-> i.to, by |-> i.by] : i \in imports'}
BY DEF Answers, View

\* The rows of one module in one file, of one kind, are one row.
LEMMA OneEdge ==
  ASSUME StateInv, KeyInv, NEW i \in imports, NEW j \in imports, SameModule(i, j),
         i.edge.kind = j.edge.kind \/ LanguageOf(i.file) # "csharp"
  PROVE  i = j
<1>1. i.edge \in Edges /\ j.edge \in Edges
  BY DEF StateInv, TypeOK, TablesOK, ImportRow
<1>2. i.file = j.file /\ i.edge.kind = j.edge.kind
  BY DEF SameModule, KeyInv
<1>3. i.edge = j.edge
  BY <1>1, <1>2, EdgesByField DEF SameModule
<1> QED
  BY <1>2, <1>3 DEF KeyInv

LEMMA OneFollowed ==
  ASSUME StateInv, KeyInv, UNCHANGED rows,
         \E i \in imports : ResolvePath(i) \/ ResolveNamespace(i)
  PROVE  Life!Settle
<1>0. PICK i \in imports : ResolvePath(i) \/ ResolveNamespace(i)
  OBVIOUS
<1>1. i \in ImportRow /\ i.file \in Paths /\ View(i) \in Answers
  BY DEF StateInv, TypeOK, TablesOK, ImportRow, Answers
<1>2. View(i).to = Nothing /\ View(i).by = Nothing
  BY <1>0, <1>1, AnsweredView DEF ResolvePath, ResolveNamespace, Undecided
<1>3. CASE ResolvePath(i)
  <2> DEFINE t == PathTarget(i)
             x == [i EXCEPT !.to = t, !.by = "path"]
             g == [j \in {i} |-> x]
  <2>1. \A j \in imports : SameModule(i, j) <=> j = i
    BY <1>3, OneEdge DEF SameModule, ResolvePath
  <2>2. imports' = (imports \ {i}) \cup {g[j] : j \in {i}}
    BY <1>3, <2>1 DEF ResolvePath
  <2>3. Answers' = (Answers \ {View(i)}) \cup {View(x)}
    <3> DEFINE S == {i}
    <3>1. S \subseteq imports /\ imports' = (imports \ S) \cup {g[j] : j \in S}
      BY <2>2
    <3>2. {View(j) : j \in S} = {View(i)} /\ {View(g[j]) : j \in S} = {View(x)}
      OBVIOUS
    <3> HIDE DEF S, g, x
    <3>3. Answers' = (Answers \ {View(j) : j \in S}) \cup {View(g[j]) : j \in S}
      BY ONLY KeyInv, <3>1, SomeAnswered
    <3> QED
      BY <3>2, <3>3
  <2>4. View(x) = [View(i) EXCEPT !.to = t, !.by = "path"]
    <3> HIDE DEF t
    <3>1. \A u, b : View([i EXCEPT !.to = u, !.by = b]) = [View(i) EXCEPT !.to = u, !.by = b]
      BY <1>1, AnsweredView
    <3> QED
      BY <3>1
  <2>5. t \in Paths /\ SameUnit(i.file, t) /\ rows[t] # Nothing
    BY <1>1, <1>3, PathTargetIsNear DEF ResolvePath, Indexed, SameUnit
  <2>6. <<View(i).file, t>> \in {p \in Paths \X Paths : SameUnit(p[1], p[2])}
    BY <1>1, <2>5, AnsweredView
  <2> HIDE DEF t, x, g
  <2>7. Life!FollowPath(View(i), t)
    BY <1>2, <2>3, <2>4, <2>5, <2>6, AnswersAre
    DEF Life!FollowPath, Life!Undecided, Life!Become
  <2> QED
    BY <1>1, <2>5, <2>7, AnswersAre DEF Life!Settle
<1>4. CASE ResolveNamespace(i)
  <2> DEFINE x == [i EXCEPT !.by = "namespace"]
             g == [j \in {i} |-> x]
  <2>1. \A j \in imports : SameModule(i, j) /\ j.edge.kind = i.edge.kind <=> j = i
    BY OneEdge DEF SameModule
  <2>2. imports' = (imports \ {i}) \cup {g[j] : j \in {i}}
    BY <1>4, <2>1 DEF ResolveNamespace
  <2>3. Answers' = (Answers \ {View(i)}) \cup {View(x)}
    <3> DEFINE S == {i}
    <3>1. S \subseteq imports /\ imports' = (imports \ S) \cup {g[j] : j \in S}
      BY <2>2
    <3>2. {View(j) : j \in S} = {View(i)} /\ {View(g[j]) : j \in S} = {View(x)}
      OBVIOUS
    <3> HIDE DEF S, g, x
    <3>3. Answers' = (Answers \ {View(j) : j \in S}) \cup {View(g[j]) : j \in S}
      BY ONLY KeyInv, <3>1, SomeAnswered
    <3> QED
      BY <3>2, <3>3
  <2>4. View(x) = [View(i) EXCEPT !.by = "namespace"]
    BY <1>1, AnsweredView
  <2> HIDE DEF x, g
  <2>5. Life!FollowNamespace(View(i))
    BY <1>2, <2>3, <2>4, AnswersAre
    DEF Life!FollowNamespace, Life!Undecided, Life!Become
  <2> QED
    BY <1>1, <2>5, AnswersAre DEF Life!Settle
<1> QED
  BY <1>0, <1>3, <1>4

LEMMA SomeRetiredOrDeclined ==
  ASSUME StateInv, KeyInv, UNCHANGED rows, Decline \/ \E i \in imports : Retire(i)
  PROVE  Life!Settle
<1>0. imports \subseteq ImportRow
  BY DEF StateInv, TypeOK, TablesOK
<1>1. CASE Decline
  <2> DEFINE S == {i \in imports : Undecided(i) /\ i.edge.kind \in DeclinedKinds}
             g == [j \in imports |-> [j EXCEPT !.by = "declined"]]
             V == {View(i) : i \in S}
  <2>1. imports' = (imports \ S) \cup {g[i] : i \in S}
    BY <1>1 DEF Decline
  <2>2. Answers' = (Answers \ V) \cup {View(g[i]) : i \in S}
    BY ONLY KeyInv, <2>1, SomeAnswered
  <2>3. \A i \in S : View(g[i]) = [View(i) EXCEPT !.by = "declined"]
    BY <1>0, AnsweredView
  <2>4. {View(g[i]) : i \in S} = {[e EXCEPT !.by = "declined"] : e \in V}
    <3>1. {[e EXCEPT !.by = "declined"] : e \in V}
            = {[View(i) EXCEPT !.by = "declined"] : i \in S}
      BY DEF V
    <3> HIDE DEF S, g, V
    <3>2. {[View(i) EXCEPT !.by = "declined"] : i \in S} = {View(g[i]) : i \in S}
      BY <2>3
    <3> QED
      BY <3>1, <3>2
  <2>5. \A e \in V : Life!Undecided(e)
    <3>1. \A i \in S : View(i).to = Nothing /\ View(i).by = Nothing
      BY <1>0, AnsweredView DEF Undecided
    <3> QED
      BY <3>1 DEF Life!Undecided
  <2>6. V \in SUBSET {[file |-> j.file, edge |-> j.edge, to |-> j.to, by |-> j.by] :
                        j \in imports}
    BY AnswersAre DEF Answers
  <2> HIDE DEF S, g, V
  <2> DEFINE E == {[file |-> j.file, edge |-> j.edge, to |-> j.to, by |-> j.by] :
                     j \in imports}
  <2>7. V \in SUBSET E
    BY <2>6
  <2> HIDE DEF E
  <2>8. \E U \in SUBSET E :
          /\ \A e \in U : Life!Undecided(e)
          /\ Answers' = (Answers \ U) \cup {[e EXCEPT !.by = "declined"] : e \in U}
    <3> WITNESS V \in SUBSET E
    <3> QED
      BY <2>2, <2>4, <2>5
  <2> QED
    BY <2>8, AnswersAre DEF E, Life!Settle, Life!Decline
<1>2. CASE \E i \in imports : Retire(i)
  <2> PICK i \in imports : Retire(i)
    BY <1>2
  <2> DEFINE S == {j \in imports : SameModule(i, j) /\ j.by = "namespace"}
             g == [j \in imports |-> [j EXCEPT !.by = Nothing]]
             V == {View(j) : j \in S}
  <2>1. imports' = (imports \ S) \cup {g[j] : j \in S}
    BY DEF Retire
  <2>2. Answers' = (Answers \ V) \cup {View(g[j]) : j \in S}
    BY ONLY KeyInv, <2>1, SomeAnswered
  <2>3. \A j \in S : View(g[j]) = [View(j) EXCEPT !.by = Nothing]
    BY <1>0, AnsweredView
  <2>4. {View(g[j]) : j \in S} = {[e EXCEPT !.by = Nothing] : e \in V}
    <3>1. {[e EXCEPT !.by = Nothing] : e \in V} = {[View(j) EXCEPT !.by = Nothing] : j \in S}
      BY DEF V
    <3> HIDE DEF S, g, V
    <3>2. {[View(j) EXCEPT !.by = Nothing] : j \in S} = {View(g[j]) : j \in S}
      BY <2>3
    <3> QED
      BY <3>1, <3>2
  <2>5. (\A e \in V : e.by = "namespace") /\ (\A e, x \in V : e.file = x.file)
    <3>1. \A j \in S : View(j).by = "namespace" /\ View(j).file = i.file
      BY <1>0, AnsweredView DEF SameModule
    <3> QED
      BY <3>1
  <2>6. V \in SUBSET {[file |-> j.file, edge |-> j.edge, to |-> j.to, by |-> j.by] :
                        j \in imports}
    BY AnswersAre DEF Answers
  <2> HIDE DEF S, g, V
  <2> DEFINE E == {[file |-> j.file, edge |-> j.edge, to |-> j.to, by |-> j.by] :
                     j \in imports}
  <2>7. V \in SUBSET E
    BY <2>6
  <2> HIDE DEF E
  <2>8. \E U \in SUBSET E :
          /\ \A e \in U : e.by = "namespace"
          /\ \A e, x \in U : e.file = x.file
          /\ Answers' = (Answers \ U) \cup {[e EXCEPT !.by = Nothing] : e \in U}
    <3> WITNESS V \in SUBSET E
    <3> QED
      BY <2>2, <2>4, <2>5
  <2> QED
    BY <2>8, AnswersAre DEF E, Life!Settle, Life!Reopen
<1> QED
  BY <1>1, <1>2

\* Rows are replaced with their edges, or neither is touched.
LEMMA RowsGoWithEdges ==
  ASSUME StateInv, OldInv,
         \/ \E f \in Paths : IndexFile(f) \/ IndexFileBlind(f) \/ ForgetFile(f)
         \/ RecordRescanned
  PROVE  Life!Record
<1> SUFFICES ASSUME NEW h \in Paths
             PROVE  IF rows'[h] = rows[h]
                    THEN {i \in imports' : i.file = h} = {i \in imports : i.file = h}
                    ELSE \A i \in imports' :
                           i.file = h =>
                             i.to = Nothing /\ i.by = Nothing /\ rows'[h] # Nothing
  <2>1. \A x : /\ x \in Answers => \E i \in imports : x = View(i)
               /\ x \in Answers' => \E i \in imports' : x = View(i)
    BY DEF Answers
  <2> QED
    BY <2>1, AnswersAre DEF Life!Record, Life!Of, Life!Undecided, View
<1>1. CASE \E f \in Paths : IndexFile(f) \/ IndexFileBlind(f)
  <2> PICK f \in Paths : IndexFile(f) \/ IndexFileBlind(f)
    BY <1>1
  <2>1. /\ disk[f] \in Contents
        /\ rows \in [Paths -> [content : Contents, version : {0, 1}] \cup {Nothing}]
        /\ rows' = Stamped({[file |-> f, content |-> disk[f]]})
    BY DEF IndexFile, IndexFileBlind, StateInv, TypeOK, TablesOK
  <2>2. /\ rows'[f] = [content |-> disk[f], version |-> GraphVersion] /\ rows'[f] # Nothing
        /\ \A x \in Paths \ {f} : rows'[x] = rows[x]
    BY <2>1, StampedOne
  <2>3. rows'[f] # rows[f]
    BY <2>2 DEF IndexFile, IndexFileBlind, Unchanged
  <2>4. \A i \in imports' : \/ i \in imports /\ i.file # f
                            \/ i.file = f /\ i.to = Nothing /\ i.by = Nothing
    BY DEF IndexFile, IndexFileBlind, WriteEdges, Without, NewImports
  <2>5. \A i \in imports : i.file # f => i \in imports'
    BY DEF IndexFile, IndexFileBlind, WriteEdges, Without
  <2> QED
    BY <2>2, <2>3, <2>4, <2>5
<1>2. CASE \E f \in Paths : ForgetFile(f)
  <2> PICK f \in Paths : ForgetFile(f)
    BY <1>2
  <2>1. rows'[f] # rows[f] /\ \A x \in Paths \ {f} : rows'[x] = rows[x]
    BY DEF ForgetFile, Gone, Indexed, StateInv, TypeOK, TablesOK
  <2> QED
    BY <2>1 DEF ForgetFile, Without
<1>3. CASE RecordRescanned
  <2> DEFINE files == {w.file : w \in batch}
  <2>1. CASE h \in files
    <3>1. rows[h] \in [content : Contents, version : {0, 1}] /\ rows[h].version = 0
      BY <2>1 DEF StateInv, TypeOK, TablesOK, BackfillInv, Indexed, OldInv
    <3>2. rows'[h] = [rows[h] EXCEPT !.version = 1]
      BY <1>3, <2>1 DEF RecordRescanned, GraphVersion
    <3>3. rows'[h] \in [content : Contents, version : {0, 1}] /\ rows'[h].version = 1
      BY <3>1, <3>2
    <3>4. rows'[h] # rows[h] /\ rows'[h] # Nothing
      BY <3>1, <3>3, GraphAssumption
    <3>5. \A i \in imports' : i.file = h => i.to = Nothing /\ i.by = Nothing
      BY <1>3, <2>1 DEF RecordRescanned, WriteEdges, Without, NewImports
    <3> QED
      BY <3>4, <3>5
  <2>2. CASE h \notin files
    <3>1. rows'[h] = rows[h]
      BY <1>3, <2>2 DEF RecordRescanned
    <3>2. \A i \in imports' : i.file = h => i \in imports
      BY <1>3, <2>2 DEF RecordRescanned, WriteEdges, Without, NewImports
    <3>3. \A i \in imports : i.file = h => i \in imports'
      BY <1>3, <2>2 DEF RecordRescanned, WriteEdges, Without
    <3> QED
      BY <3>1, <3>2, <3>3
  <2> QED
    BY <2>1, <2>2
<1> QED
  BY <1>1, <1>2, <1>3

(* The table of imports, for any files, contents and grammars, is the life *)
(* of edges that EdgeLife describes: every step of a run is a step of it   *)
(* or leaves rows and answers as they are.                                 *)
THEOREM ImportsLiveOnce == Spec => EdgesLiveOnce
<1>1. Init => Life!LifeInit
  <2> SUFFICES ASSUME Init, NEW i \in imports PROVE i.to = Nothing /\ i.by = Nothing
    BY DEF Life!LifeInit, Life!Undecided
  <2> QED
    BY DEF Init, NewImports
<1>2. StateInv /\ KeyInv /\ OldInv /\ [Next]_vars => [Life!LifeNext]_(Life!lifeVars)
  <2> SUFFICES ASSUME StateInv, KeyInv, OldInv, [Next]_vars
               PROVE  Life!LifeNext \/ (rows' = rows /\ Answers' = Answers)
    BY AnswersAre DEF Life!lifeVars
  <2>1. CASE \/ \E f \in Paths : IndexFile(f) \/ IndexFileBlind(f) \/ ForgetFile(f)
             \/ RecordRescanned
    BY <2>1, RowsGoWithEdges DEF Life!LifeNext
  <2>2. CASE \E i \in imports : ResolvePath(i) \/ ResolveNamespace(i)
    <3>1. rows' = rows
      BY <2>2 DEF ResolvePath, ResolveNamespace
    <3> QED
      BY <2>2, <3>1, OneFollowed DEF Life!LifeNext
  <2>3. CASE Decline \/ \E i \in imports : Retire(i)
    <3>1. rows' = rows
      BY <2>3 DEF Decline, Retire
    <3> QED
      BY <2>3, <3>1, SomeRetiredOrDeclined DEF Life!LifeNext
  <2>4. CASE Classify
    <3>1. PICK o : imports' = {[i EXCEPT !.origin = o[i]] : i \in imports}
      BY <2>4, ClassifyStamps
    <3>2. \A i \in imports : View([i EXCEPT !.origin = o[i]]) = View(i)
      BY AnsweredView DEF StateInv, TypeOK, TablesOK
    <3>3. Answers' = Answers
      BY <3>1, <3>2 DEF Answers
    <3> QED
      BY <2>4, <3>3 DEF Classify
  <2>5. CASE UNCHANGED <<rows, imports>>
    BY <2>5 DEF Answers
  <2> QED
    BY <2>1, <2>2, <2>3, <2>4, <2>5
    DEF Next, Progress, Walk, Backfill, Relate, Edit, StartRun, IndexSkip, EndWalk,
        EndOrphans, Rescan, RescanFails, EndBackfill, EndRetire, EndResolve, ResolveCall,
        FinishRun, Abort, tables, vars
<1> QED
  BY <1>1, <1>2, GraphState, GraphKeys, PTL DEF Spec, EdgesLiveOnce, Life!LifeSpec

-----------------------------------------------------------------------------
(* The edges on record.  The manifest's row says which content and which   *)
(* version of the scanners a file's edges come from, except for files that *)
(* are torn; and a run leaves no file behind whose row it should have      *)
(* replaced.                                                               *)

EdgesIn(table, f)     == {i.edge : i \in {x \in table : x.file = f}}
SymbolsIn(table, f)   == {n.symbol : n \in {x \in table : x.file = f}}
TemplatesIn(table, f) == {r.template : r \in {x \in table : x.file = f}}
UrlsIn(table, f)      == {[template |-> k.template, exact |-> k.exact] :
                            k \in {x \in table : x.file = f}}

\* The edges of a file are what version v of the scanners reads in content c.
EdgesOf(f, c, v) ==
  /\ EdgesIn(imports, f) = ScanImports(f, c, v)
  /\ SymbolsIn(spaces, f) = ScanNamespaces(f, c, v)
  /\ TemplatesIn(routes, f) = ScanRoutes(f, c)
  /\ UrlsIn(calls, f) = ScanCalls(f, c)

\* Two states of the tables that hold the same edges of f.
SameEdges(f) ==
  /\ EdgesIn(imports', f) = EdgesIn(imports, f)
  /\ SymbolsIn(spaces', f) = SymbolsIn(spaces, f)
  /\ TemplatesIn(routes', f) = TemplatesIn(routes, f)
  /\ UrlsIn(calls', f) = UrlsIn(calls, f)

RecordedInv == \A f \in Indexed \ torn : EdgesOf(f, rows[f].content, rows[f].version)

LEMMA EdgesOfUrl ==
  ASSUME NEW f, NEW c, NEW k \in ScanCalls(f, c)
  PROVE  k = [template |-> k.template, exact |-> k.exact]
BY DEF ScanCalls, CallUrl

LEMMA OthersKeepEdges ==
  ASSUME NEW written, written \subseteq [file : Paths, content : Contents],
         WriteEdges(written), NEW f, \A w \in written : w.file # f
  PROVE  SameEdges(f)
<1>1. EdgesIn(imports', f) = EdgesIn(imports, f)
  BY DEF WriteEdges, Without, NewImports, EdgesIn
<1>2. SymbolsIn(spaces', f) = SymbolsIn(spaces, f)
  BY DEF WriteEdges, Without, NewSpaces, SymbolsIn
<1>3. TemplatesIn(routes', f) = TemplatesIn(routes, f)
  BY DEF WriteEdges, Without, NewRoutes, TemplatesIn
<1>4. UrlsIn(calls', f) = UrlsIn(calls, f)
  BY DEF WriteEdges, Without, NewCalls, UrlsIn
<1> QED
  BY <1>1, <1>2, <1>3, <1>4 DEF SameEdges

LEMMA NewRowsAreScanned ==
  ASSUME NEW f, NEW c, NEW v
  PROVE  /\ {x.edge : x \in NewImports(f, c, v)} = ScanImports(f, c, v)
         /\ {x.symbol : x \in NewSpaces(f, c, v)} = ScanNamespaces(f, c, v)
         /\ {x.template : x \in NewRoutes(f, c)} = ScanRoutes(f, c)
         /\ {[template |-> k.template, exact |-> k.exact] : k \in NewCalls(f, c)}
              = ScanCalls(f, c)
<1>1. {x.edge : x \in NewImports(f, c, v)} = ScanImports(f, c, v)
  <2> DEFINE own  == NewImports(f, c, v)
             read == ScanImports(f, c, v)
  <2>1. \A x \in own : x.edge \in read
    BY DEF NewImports
  <2>2. ASSUME NEW e \in read PROVE \E x \in own : x.edge = e
    <3>1. [file |-> f, edge |-> e, to |-> Nothing, by |-> Nothing, origin |-> Nothing] \in own
      BY DEF NewImports
    <3> QED
      BY <3>1
  <2> HIDE DEF own, read
  <2>3. {x.edge : x \in own} = read
    BY <2>1, <2>2
  <2> QED
    BY <2>3 DEF own, read
<1>2. {x.symbol : x \in NewSpaces(f, c, v)} = ScanNamespaces(f, c, v)
  <2> DEFINE own  == NewSpaces(f, c, v)
             read == ScanNamespaces(f, c, v)
  <2>1. \A x \in own : x.symbol \in read
    BY DEF NewSpaces
  <2>2. ASSUME NEW e \in read PROVE \E x \in own : x.symbol = e
    <3>1. [file |-> f, symbol |-> e] \in own
      BY DEF NewSpaces
    <3> QED
      BY <3>1
  <2> HIDE DEF own, read
  <2>3. {x.symbol : x \in own} = read
    BY <2>1, <2>2
  <2> QED
    BY <2>3 DEF own, read
<1>3. {x.template : x \in NewRoutes(f, c)} = ScanRoutes(f, c)
  <2> DEFINE own  == NewRoutes(f, c)
             read == ScanRoutes(f, c)
  <2>1. \A x \in own : x.template \in read
    BY DEF NewRoutes
  <2>2. ASSUME NEW e \in read PROVE \E x \in own : x.template = e
    <3>1. [file |-> f, template |-> e] \in own
      BY DEF NewRoutes
    <3> QED
      BY <3>1
  <2> HIDE DEF own, read
  <2>3. {x.template : x \in own} = read
    BY <2>1, <2>2
  <2> QED
    BY <2>3 DEF own, read
<1>4. {[template |-> k.template, exact |-> k.exact] : k \in NewCalls(f, c)} = ScanCalls(f, c)
  <2> DEFINE own    == NewCalls(f, c)
             read   == ScanCalls(f, c)
             url(k) == [template |-> k.template, exact |-> k.exact]
             row(k) == [file |-> f, template |-> k.template, exact |-> k.exact,
                        to |-> Nothing]
  <2>1. \A k \in read : url(k) = k
    BY EdgesOfUrl
  <2>2. \A k : url(row(k)) = url(k)
    OBVIOUS
  <2>3. own = {row(k) : k \in read}
    BY DEF NewCalls
  <2> HIDE DEF own, read, url, row
  <2>4. {url(x) : x \in own} = read
    BY <2>1, <2>2, <2>3
  <2> QED
    BY <2>4 DEF own, read, url
<1> QED
  BY <1>1, <1>2, <1>3, <1>4

LEMMA WrittenHaveEdges ==
  ASSUME NEW written, written \subseteq [file : Paths, content : Contents],
         WriteEdges(written), NEW w \in written,
         \A x \in written : x.file = w.file => x = w
  PROVE  EdgesOf(w.file, w.content, GraphVersion)'
<1>1. {x \in imports' : x.file = w.file} = NewImports(w.file, w.content, GraphVersion)
  BY DEF WriteEdges, Without, NewImports
<1>2. {x \in spaces' : x.file = w.file} = NewSpaces(w.file, w.content, GraphVersion)
  BY DEF WriteEdges, Without, NewSpaces
<1>3. {x \in routes' : x.file = w.file} = NewRoutes(w.file, w.content)
  BY DEF WriteEdges, Without, NewRoutes
<1>4. {x \in calls' : x.file = w.file} = NewCalls(w.file, w.content)
  BY DEF WriteEdges, Without, NewCalls
<1> QED
  BY <1>1, <1>2, <1>3, <1>4, NewRowsAreScanned
  DEF EdgesOf, EdgesIn, SymbolsIn, TemplatesIn, UrlsIn

LEMMA KeptEdges ==
  ASSUME NEW f, NEW c, NEW v, SameEdges(f), EdgesOf(f, c, v)
  PROVE  EdgesOf(f, c, v)'
BY DEF SameEdges, EdgesOf

\* A pass over the imports, whatever it finds out about them.
LEMMA PassKeepsEdges ==
  ASSUME UNCHANGED <<spaces, routes, calls>>,
         \A j \in imports' : \E i \in imports : j.file = i.file /\ j.edge = i.edge,
         \A i \in imports : \E j \in imports' : j.file = i.file /\ j.edge = i.edge
  PROVE  \A f : SameEdges(f)
<1>1. ASSUME NEW f PROVE EdgesIn(imports', f) = EdgesIn(imports, f)
  BY DEF EdgesIn
<1> QED
  BY <1>1 DEF SameEdges

LEMMA RelatingKeepsEdges ==
  ASSUME StateInv,
         \/ \E i \in imports : Retire(i) \/ ResolvePath(i) \/ ResolveNamespace(i)
         \/ Decline \/ Classify
         \/ \E c \in calls : ResolveCall(c)
  PROVE  rows' = rows /\ torn' = torn /\ \A f : SameEdges(f)
<1>1. imports \subseteq ImportRow /\ calls \subseteq CallRow
  BY DEF StateInv, TypeOK, TablesOK
<1>2. CASE \E i \in imports : Retire(i)
  <2> PICK i \in imports : Retire(i)
    BY <1>2
  <2> DEFINE new(j) == IF SameModule(i, j) /\ j.by = "namespace"
                       THEN [j EXCEPT !.by = Nothing] ELSE j
  <2>1. \A j \in imports : new(j).file = j.file /\ new(j).edge = j.edge /\ new(j) \in imports'
    BY <1>1 DEF Retire, ImportRow
  <2> QED
    BY <2>1, PassKeepsEdges DEF Retire
<1>3. CASE \E i \in imports : ResolvePath(i)
  <2> PICK i \in imports : ResolvePath(i)
    BY <1>3
  <2> DEFINE new(j) == IF SameModule(i, j)
                       THEN [j EXCEPT !.to = PathTarget(i), !.by = "path"] ELSE j
  <2>1. \A j \in imports : new(j).file = j.file /\ new(j).edge = j.edge /\ new(j) \in imports'
    BY <1>1 DEF ResolvePath, ImportRow
  <2> QED
    BY <2>1, PassKeepsEdges DEF ResolvePath
<1>4. CASE \E i \in imports : ResolveNamespace(i)
  <2> PICK i \in imports : ResolveNamespace(i)
    BY <1>4
  <2> DEFINE new(j) == IF SameModule(i, j) /\ j.edge.kind = i.edge.kind
                       THEN [j EXCEPT !.by = "namespace"] ELSE j
  <2>1. \A j \in imports : new(j).file = j.file /\ new(j).edge = j.edge /\ new(j) \in imports'
    BY <1>1 DEF ResolveNamespace, ImportRow
  <2> QED
    BY <2>1, PassKeepsEdges DEF ResolveNamespace
<1>5. CASE Decline
  <2> DEFINE new(j) == IF Undecided(j) /\ j.edge.kind \in DeclinedKinds
                       THEN [j EXCEPT !.by = "declined"] ELSE j
  <2>1. \A j \in imports : new(j).file = j.file /\ new(j).edge = j.edge /\ new(j) \in imports'
    BY <1>1, <1>5 DEF Decline, ImportRow
  <2> QED
    BY <1>5, <2>1, PassKeepsEdges DEF Decline
<1>6. CASE Classify
  <2>1. \A j \in imports' : \E i \in imports : \E o : j = [i EXCEPT !.origin = o]
    BY <1>6 DEF Classify
  <2>2. \A i \in imports : \E o : [i EXCEPT !.origin = o] \in imports'
    BY <1>6 DEF Classify
  <2>3. \A i \in imports : \A o : /\ [i EXCEPT !.origin = o].file = i.file
                                  /\ [i EXCEPT !.origin = o].edge = i.edge
    BY <1>1 DEF ImportRow
  <2>4. ASSUME NEW j \in imports'
        PROVE  \E i \in imports : j.file = i.file /\ j.edge = i.edge
    <3> PICK i \in imports : \E o : j = [i EXCEPT !.origin = o]
      BY <2>1
    <3> PICK o : j = [i EXCEPT !.origin = o]
      OBVIOUS
    <3> QED
      BY <2>3
  <2>5. \A i \in imports : \E j \in imports' : j.file = i.file /\ j.edge = i.edge
    BY <2>2, <2>3
  <2>6. UNCHANGED <<rows, spaces, routes, calls, torn>>
    BY <1>6 DEF Classify
  <2> QED
    BY <2>4, <2>5, <2>6, PassKeepsEdges
<1>7. CASE \E c \in calls : ResolveCall(c)
  <2> PICK c \in calls : ResolveCall(c)
    BY <1>7
  <2> DEFINE new == [c EXCEPT !.to = CallTarget(c)]
  <2>1. /\ new.file = c.file /\ new.template = c.template /\ new.exact = c.exact
        /\ calls' = (calls \ {c}) \cup {new}
    BY <1>1 DEF ResolveCall, CallRow
  <2> HIDE DEF new
  <2>2. ASSUME NEW f PROVE UrlsIn(calls', f) = UrlsIn(calls, f)
    BY <2>1 DEF UrlsIn
  <2> QED
    BY <2>2 DEF ResolveCall, SameEdges
<1> QED
  BY <1>2, <1>3, <1>4, <1>5, <1>6, <1>7

LEMMA RecordedStep == StateInv /\ RecordedInv /\ [Next]_vars => RecordedInv'
<1> SUFFICES ASSUME StateInv, RecordedInv, [Next]_vars PROVE RecordedInv'
  OBVIOUS
<1>1. CASE rows' = rows /\ torn' = torn /\ \A f : SameEdges(f)
  BY <1>1, KeptEdges DEF RecordedInv, Indexed
<1>2. CASE \E f \in Paths : IndexFile(f)
  <2> PICK f \in Paths : IndexFile(f)
    BY <1>2
  <2> PICK c \in Contents : c = disk[f]
    BY DEF IndexFile, StateInv, TypeOK
  <2> PICK new \in [file : Paths, content : Contents] :
        new = [file |-> f, content |-> c]
    OBVIOUS
  <2>1. /\ new \in [file : Paths, content : Contents] /\ WriteEdges({new})
        /\ rows \in [Paths -> [content : Contents, version : {0, 1}] \cup {Nothing}]
        /\ rows' = Stamped({new})
    BY DEF IndexFile, StateInv, TypeOK, TablesOK
  <2>2. EdgesOf(f, c, GraphVersion)'
    <3>1. new.file = f /\ new.content = c /\ \A x \in {new} : x.file = new.file => x = new
      OBVIOUS
    <3>2. EdgesOf(new.file, new.content, GraphVersion)'
      BY <2>1, <3>1, WrittenHaveEdges
    <3> QED
      BY <3>1, <3>2
  <2>3. rows'[f] = [content |-> c, version |-> GraphVersion]
        /\ \A g \in Paths \ {f} : rows'[g] = rows[g]
    BY <2>1, StampedOne
  <2>4. ASSUME NEW g \in Paths \ {f}, g \in (Indexed \ torn)'
        PROVE  EdgesOf(g, rows[g].content, rows[g].version)'
    <3>1. EdgesOf(g, rows[g].content, rows[g].version)
      BY <2>3, <2>4 DEF IndexFile, RecordedInv, Indexed
    <3>2. SameEdges(g)
      BY <2>1, OthersKeepEdges
    <3> QED
      BY <2>3, <3>1, <3>2, KeptEdges DEF EdgesOf
  <2>5. EdgesOf(f, rows[f].content, rows[f].version)'
    BY <2>2, <2>3 DEF EdgesOf, IndexFile
  <2> QED
    BY <2>4, <2>5 DEF RecordedInv, Indexed
<1>3. CASE \E f \in Paths : IndexFileBlind(f)
  <2> PICK f \in Paths : IndexFileBlind(f)
    BY <1>3
  <2>1. \A g \in Paths \ {f} : SameEdges(g) /\ rows'[g] = rows[g]
    <3>1. \A g \in Paths \ {f} : SameEdges(g)
      BY DEF IndexFileBlind, Without, SameEdges, EdgesIn, SymbolsIn, TemplatesIn, UrlsIn
    <3>2. \A g \in Paths \ {f} : rows'[g] = rows[g]
      BY StampedOne DEF IndexFileBlind, StateInv, TypeOK, TablesOK
    <3> QED
      BY <3>1, <3>2
  <2> QED
    BY <2>1, KeptEdges DEF IndexFileBlind, RecordedInv, Indexed, EdgesOf, SameEdges
<1>4. CASE \E f \in Paths : ForgetFile(f)
  <2> PICK f \in Paths : ForgetFile(f)
    BY <1>4
  <2>1. \A g \in Paths \ {f} : SameEdges(g) /\ rows'[g] = rows[g]
    <3>1. \A g \in Paths \ {f} : SameEdges(g)
      BY DEF ForgetFile, Without, SameEdges, EdgesIn, SymbolsIn, TemplatesIn, UrlsIn
    <3> QED
      BY <3>1 DEF ForgetFile, StateInv, TypeOK, TablesOK
  <2>2. f \notin Indexed'
    BY DEF ForgetFile, StateInv, TypeOK, TablesOK, Indexed
  <2> QED
    BY <2>1, <2>2, KeptEdges DEF ForgetFile, RecordedInv, Indexed, EdgesOf, SameEdges
<1>5. CASE RecordRescanned
  <2>1. /\ batch \subseteq [file : Paths, content : Contents] /\ WriteEdges(batch)
        /\ rows \in [Paths -> [content : Contents, version : {0, 1}] \cup {Nothing}]
    BY <1>5 DEF RecordRescanned, StateInv, TypeOK, TablesOK, RunOK
  <2>2. ASSUME NEW f \in (Indexed \ torn)', \A w \in batch : w.file # f
        PROVE  EdgesOf(f, rows[f].content, rows[f].version)'
    <3>1. rows'[f] = rows[f] /\ f \in Indexed \ torn
      BY <1>5, <2>2 DEF RecordRescanned, Indexed
    <3>2. SameEdges(f)
      BY <2>1, <2>2, OthersKeepEdges
    <3> QED
      BY <3>1, <3>2, KeptEdges DEF RecordedInv, EdgesOf
  <2>3. ASSUME NEW f \in (Indexed \ torn)', NEW w \in batch, w.file = f
        PROVE  EdgesOf(f, rows[f].content, rows[f].version)'
    <3>1. \A x \in batch : x.file = w.file => x = w
      BY DEF StateInv, BackfillInv
    <3>2. EdgesOf(w.file, w.content, GraphVersion)'
      BY <2>1, <3>1, WrittenHaveEdges
    <3>3. rows[f].content = w.content
      BY <1>5, <2>3 DEF RecordRescanned
    <3>4. rows[f] \in [content : Contents, version : {0, 1}] /\ f \in Paths
      BY <2>1, <2>3 DEF StateInv, BackfillInv, Indexed
    <3>5. rows'[f].content = w.content /\ rows'[f].version = GraphVersion
      BY <1>5, <2>3, <3>3, <3>4 DEF RecordRescanned
    <3> QED
      BY <2>3, <3>2, <3>5 DEF EdgesOf
  <2> QED
    BY <2>2, <2>3 DEF RecordedInv
<1>6. CASE \/ \E i \in imports : Retire(i) \/ ResolvePath(i) \/ ResolveNamespace(i)
           \/ Decline \/ Classify
           \/ \E c \in calls : ResolveCall(c)
  BY <1>1, <1>6, RelatingKeepsEdges
<1>7. CASE UNCHANGED <<tables, torn>>
  BY <1>1, <1>7 DEF tables, SameEdges
<1> QED
  BY <1>2, <1>3, <1>4, <1>5, <1>6, <1>7
  DEF Next, Progress, Walk, Backfill, Relate, Edit, StartRun, IndexSkip, EndWalk,
      EndOrphans, Rescan, RescanFails, EndBackfill, EndRetire, EndResolve, FinishRun,
      Abort, vars

\* How far the run has come with a file.
ProgressOf(f) ==
  /\ pc # "idle" => (f \in seen <=> disk[f] # Nothing)
  /\ pc \notin {"idle", "walk"} => todo = {}
  /\ pc # "idle" /\ f \notin todo /\ disk[f] # Nothing
       => f \in Indexed /\ rows[f].content = disk[f]
  /\ pc \notin {"idle", "walk", "orphans"} =>
       /\ disk[f] = Nothing => f \notin Indexed
       /\ f \in Indexed /\ LanguageOf(f) \in NamespaceLanguages
            => rows[f].version = GraphVersion \/ f \in stale \/ \E w \in batch : w.file = f

ProgressInv == \A f \in steady : InScope(f) => ProgressOf(f)

LEMMA ProgressKept ==
  ASSUME ProgressInv, UNCHANGED <<disk, rows, scope, seen, todo, stale, batch, steady>>,
         pc \notin {"idle", "walk", "orphans"}, pc' \notin {"idle", "walk", "orphans"}
  PROVE  ProgressInv'
BY DEF ProgressInv, ProgressOf, InScope, Indexed

LEMMA ProgressStep == StateInv /\ ProgressInv /\ [Next]_vars => ProgressInv'
<1> SUFFICES ASSUME StateInv, ProgressInv, [Next]_vars PROVE ProgressInv'
  OBVIOUS
<1> USE DEF ProgressInv, InScope
<1>1. /\ steady \subseteq Paths /\ stale \subseteq Indexed /\ todo \subseteq seen
      /\ disk \in [Paths -> Contents \cup {Nothing}]
      /\ rows \in [Paths -> [content : Contents, version : {0, 1}] \cup {Nothing}]
      /\ \A f \in Indexed : rows[f] \in [content : Contents, version : {0, 1}]
      /\ \A w \in batch : w.file \in Indexed
  BY DEF StateInv, TypeOK, TablesOK, RunOK, BackfillInv, Indexed
<1>2. CASE \E g \in Paths : \E c \in ContentsOf[g] \cup {Nothing} : Edit(g, c)
  BY <1>1, <1>2 DEF Edit, tables, ProgressOf, Indexed
<1>3. CASE \E s \in Scopes : StartRun(s)
  BY <1>1, <1>3 DEF StartRun, tables, ProgressOf, Indexed
<1>4. CASE \E g \in Paths : IndexSkip(g)
  BY <1>1, <1>4 DEF IndexSkip, tables, Unchanged, ProgressOf, Indexed
<1>5. CASE \E g \in Paths : IndexFile(g) \/ IndexFileBlind(g)
  <2> PICK g \in Paths : IndexFile(g) \/ IndexFileBlind(g)
    BY <1>5
  <2>1. disk[g] \in Contents /\ rows' = Stamped({[file |-> g, content |-> disk[g]]})
    BY <1>1 DEF IndexFile, IndexFileBlind
  <2>2. /\ rows'[g] = [content |-> disk[g], version |-> GraphVersion] /\ rows'[g] # Nothing
        /\ \A f \in Paths \ {g} : rows'[f] = rows[f]
    BY <1>1, <2>1, StampedOne
  <2>3. /\ pc = "walk" /\ todo' = todo \ {g}
        /\ UNCHANGED <<disk, pc, scope, seen, stale, batch, steady>>
    BY DEF IndexFile, IndexFileBlind
  <2>4. ASSUME NEW f \in steady, InScope(f) PROVE ProgressOf(f)'
    <3>1. CASE f = g
      BY <1>1, <2>2, <2>3, <2>4, <3>1 DEF ProgressOf, Indexed
    <3>2. CASE f # g
      BY <1>1, <2>2, <2>3, <2>4, <3>2 DEF ProgressOf, Indexed
    <3> QED
      BY <3>1, <3>2
  <2> QED
    BY <2>3, <2>4
<1>6. CASE EndWalk
  BY <1>1, <1>6 DEF EndWalk, tables, ProgressOf, Indexed
<1>7. CASE \E g \in Paths : ForgetFile(g)
  BY <1>1, <1>7 DEF ForgetFile, Gone, ProgressOf, Indexed
<1>8. CASE EndOrphans
  <2>1. ASSUME NEW f \in steady, InScope(f) PROVE ProgressOf(f)'
    <3>1. f \in Indexed => f \in seen
      BY <1>8, <2>1 DEF EndOrphans, Gone
    <3>2. /\ f \in Indexed /\ LanguageOf(f) \in NamespaceLanguages /\ f \notin Outdated
          => rows[f].version = GraphVersion
      BY <1>1, <2>1 DEF Outdated, GraphVersion
    <3> QED
      BY <1>8, <2>1, <3>1, <3>2 DEF EndOrphans, tables, ProgressOf, Indexed
  <2> QED
    BY <1>8, <2>1 DEF EndOrphans
<1>9. CASE \E g \in Paths : Rescan(g)
  <2> PICK g \in Paths : Rescan(g)
    BY <1>9
  <2>1. ASSUME NEW f \in steady, InScope(f) PROVE ProgressOf(f)'
    <3>1. f = g => disk[g] # Nothing
      BY <1>1, <2>1 DEF Rescan, ProgressOf
    <3>2. f = g => \E w \in batch' : w.file = f
      <4>1. f = g => batch' = batch \cup {[file |-> f, content |-> disk[f]]}
        BY <3>1 DEF Rescan
      <4>2. [file |-> f, content |-> disk[f]].file = f
        OBVIOUS
      <4> QED
        BY <4>1, <4>2
    <3>3. batch \subseteq batch' /\ stale' = stale \ {g}
      BY DEF Rescan
    <3> QED
      BY <1>1, <2>1, <3>2, <3>3 DEF Rescan, tables, ProgressOf, Indexed
  <2> QED
    BY <2>1 DEF Rescan
<1>10. CASE \E g \in Paths : RescanFails(g)
  BY <1>1, <1>10 DEF RescanFails, tables, ProgressOf, Indexed
<1>11. CASE RecordRescanned
  <2>1. ASSUME NEW f \in steady, InScope(f) PROVE ProgressOf(f)'
    <3>1. CASE \E w \in batch : w.file = f
      <4>1. rows[f] \in [content : Contents, version : {0, 1}] /\ f \in Indexed
        BY <1>1, <3>1
      <4>2. rows'[f] = [rows[f] EXCEPT !.version = GraphVersion]
        BY <1>1, <1>11, <3>1 DEF RecordRescanned
      <4>3. /\ rows'[f].content = rows[f].content /\ rows'[f].version = GraphVersion
            /\ rows'[f] \in [content : Contents, version : {0, 1}]
        BY <4>1, <4>2 DEF GraphVersion
      <4>4. rows'[f] # Nothing
        BY <4>3, GraphAssumption
      <4> QED
        BY <1>1, <1>11, <2>1, <4>1, <4>3, <4>4 DEF RecordRescanned, ProgressOf, Indexed
    <3>2. CASE ~\E w \in batch : w.file = f
      <4>1. rows'[f] = rows[f]
        BY <1>1, <1>11, <3>2 DEF RecordRescanned
      <4> QED
        BY <1>1, <1>11, <2>1, <3>2, <4>1 DEF RecordRescanned, ProgressOf, Indexed
    <3> QED
      BY <3>1, <3>2
  <2> QED
    BY <1>11, <2>1 DEF RecordRescanned
<1>12. CASE EndBackfill \/ EndRetire \/ EndResolve
  BY <1>12, ProgressKept DEF EndBackfill, EndRetire, EndResolve, tables
<1>13. CASE \/ \E i \in imports : Retire(i) \/ ResolvePath(i) \/ ResolveNamespace(i)
            \/ Decline \/ Classify
            \/ \E c \in calls : ResolveCall(c)
  BY <1>13, ProgressKept
  DEF Retire, ResolvePath, ResolveNamespace, Decline, Classify, ResolveCall
<1>14. CASE FinishRun \/ Abort
  BY <1>14 DEF FinishRun, Abort, Reset
<1>15. CASE UNCHANGED vars
  BY <1>15 DEF vars, tables, ProgressOf, Indexed
<1> QED
  BY <1>2, <1>3, <1>4, <1>5, <1>6, <1>7, <1>8, <1>9, <1>10, <1>11, <1>12, <1>13, <1>14,
     <1>15
  DEF Next, Progress, Walk, Backfill, Relate

LEMMA GraphRecorded == Spec => [](RecordedInv /\ ProgressInv)
<1>1. Init => RecordedInv
  <2> SUFFICES ASSUME Init, NEW f \in Indexed
               PROVE  EdgesOf(f, rows[f].content, rows[f].version)
    BY DEF RecordedInv
  <2> PICK o \in OldIndexes :
        LET old == {g \in o : g.root \in configured} IN
        /\ rows = [g \in Paths |-> IF g \in old THEN [content |-> disk[g], version |-> 0]
                                                ELSE Nothing]
        /\ imports = UNION {NewImports(g, disk[g], 0) : g \in old}
        /\ spaces = {}
        /\ routes = UNION {NewRoutes(g, disk[g]) : g \in old}
        /\ calls = UNION {NewCalls(g, disk[g]) : g \in old}
    BY DEF Init
  <2> DEFINE old == {g \in o : g.root \in configured}
  <2>1. f \in Paths /\ f \in old /\ rows[f] = [content |-> disk[f], version |-> 0]
    BY DEF Indexed
  <2> HIDE DEF old
  <2>2. {x \in imports : x.file = f} = NewImports(f, disk[f], 0)
    BY <2>1 DEF NewImports, old
  <2>3. {x \in spaces : x.file = f} = NewSpaces(f, disk[f], 0)
    BY DEF NewSpaces, ScanNamespaces
  <2>4. {x \in routes : x.file = f} = NewRoutes(f, disk[f])
    BY <2>1 DEF NewRoutes, old
  <2>5. {x \in calls : x.file = f} = NewCalls(f, disk[f])
    BY <2>1 DEF NewCalls, old
  <2> QED
    BY <2>1, <2>2, <2>3, <2>4, <2>5, NewRowsAreScanned
    DEF EdgesOf, EdgesIn, SymbolsIn, TemplatesIn, UrlsIn
<1>2. Init => ProgressInv
  BY DEF Init, ProgressInv
<1> QED
  BY <1>1, <1>2, RecordedStep, ProgressStep, GraphState, PTL DEF Spec

(* A completed run leaves every file that nobody touched with the edges of *)
(* what is on disk, whichever release indexed it first, whatever happened  *)
(* to other files meanwhile, and wherever earlier runs stopped.            *)
THEOREM CompletedRunIsCurrent == Spec => []EdgesCurrent
<1>1. StateInv /\ RecordedInv /\ ProgressInv => EdgesCurrent
  <2> SUFFICES ASSUME StateInv, RecordedInv, ProgressInv, RunDone,
                      NEW f \in steady \ torn, InScope(f)
               PROVE  EdgesAsOnDisk(f)
    BY DEF EdgesCurrent
  <2>1. /\ pc = "routes" /\ todo = {} /\ stale = {} /\ batch = {} /\ ProgressOf(f)
        /\ f \in Paths
    BY DEF RunDone, ProgressInv, ProgressOf, StateInv, BackfillInv, TypeOK, RunOK
  <2>2. CASE disk[f] = Nothing
    BY <2>1, <2>2 DEF EdgesAsOnDisk, ProgressOf, Indexed
  <2>3. CASE disk[f] # Nothing
    <3>1. f \in Indexed /\ rows[f].content = disk[f]
      BY <2>1, <2>3 DEF ProgressOf
    <3>2. EdgesOf(f, disk[f], rows[f].version)
      BY <3>1 DEF RecordedInv
    <3>3. rows[f].version \in {0, 1}
      BY <3>1 DEF StateInv, TypeOK, TablesOK, Indexed
    <3>4. CASE LanguageOf(f) \in NamespaceLanguages
      BY <2>1, <2>3, <3>1, <3>2, <3>4
      DEF ProgressOf, EdgesAsOnDisk, EdgesAre, EdgesOf, Indexed, EdgesIn, SymbolsIn,
          TemplatesIn, UrlsIn
    <3>5. CASE LanguageOf(f) \notin NamespaceLanguages
      <4>1. ScanImports(f, disk[f], rows[f].version) = ScanImports(f, disk[f], GraphVersion)
        BY <3>5 DEF ScanImports, Edge, NamespaceLanguages
      <4>2. ScanNamespaces(f, disk[f], rows[f].version)
              = ScanNamespaces(f, disk[f], GraphVersion)
        BY <3>5 DEF ScanNamespaces
      <4> QED
        BY <2>3, <3>1, <3>2, <4>1, <4>2
        DEF EdgesAsOnDisk, EdgesAre, EdgesOf, Indexed, EdgesIn, SymbolsIn, TemplatesIn,
            UrlsIn
    <3> QED
      BY <3>4, <3>5
  <2> QED
    BY <2>2, <2>3
<1> QED
  BY <1>1, GraphState, GraphRecorded, PTL

-----------------------------------------------------------------------------
(* The two directions.                                                     *)

LEMMA DependsByEdge ==
  ASSUME StateInv, NEW f, NEW g \in Paths
  PROVE  (\E d \in DependenciesOf(f) : d.to = g)
           <=> \E i \in imports : i.file = f /\ g \in Named(i)
<1>1. Nothing # g
  BY ResolversAssumption
<1>2. ASSUME NEW d \in DependenciesOf(f), d.to = g
      PROVE  \E i \in imports : i.file = f /\ g \in Named(i)
  BY <1>1, <1>2 DEF DependenciesOf
<1>3. ASSUME NEW i \in imports, i.file = f, g \in Named(i)
      PROVE  \E d \in DependenciesOf(f) : d.to = g
  <2> DEFINE d == [edge |-> i.edge, to |-> g, origin |-> i.origin, by |-> i.by]
  <2>1. d \in DependenciesOf(f)
    BY <1>3 DEF DependenciesOf
  <2> QED
    BY <2>1
<1> QED
  BY <1>2, <1>3

LEMMA UsedByEdge ==
  ASSUME StateInv, NEW f, NEW g \in Paths
  PROVE  (\E d \in DependentsOf(g) : d.file = f)
           <=> \E i \in imports : i.file = f /\ g \in Named(i)
<1> USE DEF StateInv, TypeOK, TablesOK
<1>1. Nothing # g /\ \A i \in imports : i.by = "namespace" => i.to = Nothing
  BY ResolversAssumption
<1>2. ASSUME NEW i \in imports, i.by = "namespace"
      PROVE  g \in Named(i) <=> /\ SameUnit(i.file, g)
                                  /\ [file |-> g, symbol |-> i.edge.module] \in spaces
  BY <1>2 DEF Named, Targets, NamespaceTargets, SameUnit
<1>3. ASSUME NEW i \in imports, i.by # "namespace"
      PROVE  g \in Named(i) <=> i.to = g
  BY <1>1, <1>3 DEF Named
<1> DEFINE Uses(i) == \/ i.to = g
                      \/ /\ i.by = "namespace" /\ SameUnit(i.file, g)
                         /\ [file |-> g, symbol |-> i.edge.module] \in spaces
<1>4. \A i \in imports : Uses(i) <=> g \in Named(i)
  BY <1>1, <1>2, <1>3
<1>5. DependentsOf(g) = {[file |-> i.file, edge |-> i.edge] : i \in {x \in imports : Uses(x)}}
  BY DEF DependentsOf
<1> HIDE DEF Uses
<1>6. ASSUME NEW d \in DependentsOf(g), d.file = f
      PROVE  \E i \in imports : i.file = f /\ Uses(i)
  BY <1>5, <1>6
<1>7. ASSUME NEW i \in imports, i.file = f, Uses(i)
      PROVE  \E d \in DependentsOf(g) : d.file = f
  <2>1. [file |-> i.file, edge |-> i.edge] \in DependentsOf(g)
    BY <1>5, <1>7
  <2> QED
    BY <1>7, <2>1
<1> QED
  BY <1>4, <1>6, <1>7

(* What uses a file and what a file depends on are one relation, in every  *)
(* state, in the middle of a run as well as between two: the two queries   *)
(* are joins of the same tables on the same columns.                       *)
THEOREM DirectionsAgree == Spec => []BothEndsAgree
<1>1. ASSUME StateInv
      PROVE  BothEndsAgree
  <2> SUFFICES ASSUME NEW f \in Indexed, NEW g \in Paths
               PROVE  (\E d \in DependentsOf(g) : d.file = f)
                        <=> (\E d \in DependenciesOf(f) : d.to = g)
    BY DEF BothEndsAgree
  <2> QED
    BY <1>1, DependsByEdge, UsedByEdge
<1> QED
  BY <1>1, GraphState, PTL

-----------------------------------------------------------------------------
(* Whom an answer is about.                                                *)

LEMMA TheOnlyIsAlone ==
  ASSUME NEW S, IsFiniteSet(S), TheOnly(S) # Nothing
  PROVE  S = {TheOnly(S)}
<1>1. Cardinality(S) = 1
  BY DEF TheOnly
<1>2. \E x : S = {x}
  BY <1>1, FS_Singleton
<1> QED
  BY <1>1, <1>2 DEF TheOnly

(* A path that is short for several files is answered with none of them,   *)
(* unless it is the whole path of exactly one: for any set of files, any   *)
(* path that is asked about, and whatever names the database takes for the *)
(* same but for their case.                                                *)
THEOREM AnswersTheFileAskedAbout == Spec => []NeverTheWrongFile
<1>1. NeverTheWrongFile
  <2> SUFFICES ASSUME NEW n \in Needles, Pick(n, FindPaths(n)) # Nothing,
                      NEW g \in FindPaths(n) \ {Pick(n, FindPaths(n))}
               PROVE  Whole(n, Pick(n, FindPaths(n))) /\ ~Whole(n, g)
    BY DEF NeverTheWrongFile
  <2> DEFINE matches == FindPaths(n)
             exact   == Exact(n, matches)
             subject == Pick(n, matches)
  <2>2. IsFiniteSet(matches) /\ IsFiniteSet(exact)
    <3>1. matches \subseteq Paths /\ exact \subseteq Paths
      BY DEF FindPaths, Exact, Indexed
    <3> QED
      BY <3>1, FS_Subset, ImpactAssumption
  <2>3. CASE TheOnly(exact) # Nothing
    <3>1. exact = {TheOnly(exact)} /\ subject = TheOnly(exact)
      BY <2>2, <2>3, TheOnlyIsAlone DEF Pick
    <3> QED
      BY <3>1 DEF Exact
  <2>4. CASE TheOnly(exact) = Nothing
    <3>1. matches = {TheOnly(matches)} /\ subject = TheOnly(matches)
      BY <2>2, <2>4, TheOnlyIsAlone DEF Pick
    <3> QED
      BY <3>1
  <2> QED
    BY <2>3, <2>4
<1> QED
  BY <1>1, PTL

-----------------------------------------------------------------------------
(* The figures.                                                            *)

LEMMA PairsAreFinite ==
  ASSUME NEW a, NEW b
  PROVE  IsFiniteSet({a, b})
<1>1. IsFiniteSet({a} \cup {b})
  BY FS_Singleton, FS_AddElement
<1>2. {a, b} = {a} \cup {b}
  OBVIOUS
<1> QED
  BY <1>1, <1>2

LEMMA ImportRowsAreFinite ==
  ASSUME GraphAssumption
  PROVE  IsFiniteSet(ImportRow)
<1> DEFINE Bys  == {Nothing, "path", "namespace", "declined"}
           Tos  == Paths \cup {Nothing}
           Orgs == Origins \cup {Nothing}
           P    == Paths \X (Edges \X (Tos \X (Bys \X Orgs)))
           flat == [i \in ImportRow |-> <<i.file, <<i.edge, <<i.to, <<i.by, i.origin>>>>>>>>]
<1>1. IsFiniteSet(Tos)
  BY FS_AddElement, ImpactAssumption
<1>2. IsFiniteSet(Bys)
  <2>1. IsFiniteSet({Nothing, "path"})
    BY PairsAreFinite
  <2>2. IsFiniteSet({"namespace", "declined"})
    BY PairsAreFinite
  <2>3. Bys = {Nothing, "path"} \cup {"namespace", "declined"}
    OBVIOUS
  <2>4. IsFiniteSet({Nothing, "path"} \cup {"namespace", "declined"})
    BY <2>1, <2>2, FS_Union
  <2> QED
    BY <2>3, <2>4
<1>0. IsFiniteSet(Orgs)
  <2>1. IsFiniteSet({"first_party", "declared_dependency"})
    BY PairsAreFinite
  <2>2. IsFiniteSet({"framework", "unclassified"})
    BY PairsAreFinite
  <2>3. Origins = {"first_party", "declared_dependency"} \cup {"framework", "unclassified"}
    BY DEF Origins
  <2>4. IsFiniteSet({"first_party", "declared_dependency"}
                      \cup {"framework", "unclassified"})
    BY <2>1, <2>2, FS_Union
  <2>5. IsFiniteSet(Origins)
    BY <2>3, <2>4
  <2> QED
    BY <2>5, FS_AddElement
<1>3. IsFiniteSet(P)
  <2> HIDE DEF Bys, Tos, Orgs
  <2>1. IsFiniteSet(Bys \X Orgs)
    BY <1>0, <1>2, FS_Product
  <2>2. IsFiniteSet(Tos \X (Bys \X Orgs))
    BY <1>1, <2>1, FS_Product
  <2>3. IsFiniteSet(Edges \X (Tos \X (Bys \X Orgs)))
    BY <2>2, FS_Product, ImpactAssumption
  <2> QED
    BY <2>3, FS_Product, ImpactAssumption
<1>4. flat \in Injection(ImportRow, P)
  <2>1. flat \in [ImportRow -> P]
    BY DEF ImportRow
  <2>2. ASSUME NEW i \in ImportRow, NEW j \in ImportRow, flat[i] = flat[j]
        PROVE  i = j
    BY <2>2 DEF ImportRow
  <2> QED
    BY <2>1, <2>2 DEF Injection, IsInjective
<1> QED
  BY <1>3, <1>4, FS_Injection


\* Two disjoint finite sets are counted together.
LEMMA DisjointCount ==
  ASSUME NEW S, IsFiniteSet(S), NEW T, IsFiniteSet(T), S \cap T = {}
  PROVE  /\ IsFiniteSet(S \cup T)
         /\ Cardinality(S \cup T) = Cardinality(S) + Cardinality(T)
<1>1. Cardinality(S \cap T) = 0 /\ Cardinality(S) \in Nat /\ Cardinality(T) \in Nat
  BY FS_EmptySet, FS_CardinalityType
<1>2. /\ IsFiniteSet(S \cup T)
      /\ Cardinality(S \cup T)
           = Cardinality(S) + Cardinality(T) - Cardinality(S \cap T)
  BY FS_Union
<1> QED
  BY <1>1, <1>2

\* 100 is said only of a whole, however close a part of it comes.
LEMMA HundredIsAll ==
  ASSUME NEW c, c.first_party \in Nat, c.first_party_resolved \in Nat,
         c.first_party_resolved <= c.first_party
  PROVE  Percent(c) = 100
           <=> c.first_party # 0 /\ c.first_party_resolved = c.first_party
<1>1. CASE c.first_party = 0
  BY <1>1, ImpactAssumption DEF Percent
<1>2. CASE c.first_party # 0 /\ c.first_party_resolved = c.first_party
  BY <1>2 DEF Percent
<1>3. CASE c.first_party # 0 /\ c.first_party_resolved # c.first_party
  <2> DEFINE floor == (c.first_party_resolved * 100) \div c.first_party
  <2>1. ~(c.first_party_resolved >= c.first_party)
    BY <1>3
  <2>2. Percent(c) = IF floor < 99 THEN floor ELSE 99
    BY <1>3, <2>1 DEF Percent
  <2>3. (IF floor < 99 THEN floor ELSE 99) # 100
    <3> HIDE DEF floor
    <3>1. floor \in Int
      BY <1>3 DEF floor
    <3> QED
      BY <3>1
  <2> QED
    BY <1>3, <2>2, <2>3
<1> QED
  BY <1>1, <1>2, <1>3

(* After a completed run no counted edge is without an origin, the columns *)
(* add up to the total, and 100% is said exactly when there are first-     *)
(* party edges and every one of them reaches an indexed file or has the    *)
(* path of a file that has been forgotten.  Classification gave every      *)
(* counted edge its origin (PassInv), a using that is counted reaches a    *)
(* file (FlagsAgreeWithJoins); the rest is counting, in a finite set.      *)
THEOREM RateIsWhatItSays == Spec => []RateIsHonest
<1>1. StateInv /\ PassInv /\ FlagsAgreeWithJoins => RateIsHonest
  <2> SUFFICES ASSUME StateInv, PassInv, FlagsAgreeWithJoins, RunDone, NEW l \in Languages
               PROVE
        LET c == CoverageOf(l)
            own == {i \in imports : /\ LanguageOf(i.file) = l
                                    /\ i.by # "declined" /\ i.origin = "first_party"}
        IN /\ c.unrecorded = 0
           /\ c.total = c.first_party + c.external + c.unclassified
           /\ Percent(c) = 100
                <=> own # {} /\ \A i \in own : Reached(i) # {} \/ Dangling(i)
    BY DEF RateIsHonest
  <2> DEFINE asked == {i \in imports : LanguageOf(i.file) = l /\ i.by # "declined"}
             of(o) == {i \in asked : i.origin = o}
             own == {i \in imports : /\ LanguageOf(i.file) = l
                                     /\ i.by # "declined" /\ i.origin = "first_party"}
             reaching == {i \in asked : i.origin = "first_party" /\ CountedResolved(i)}
             c == CoverageOf(l)
  <2>1. /\ c.total = Cardinality(asked)
        /\ c.first_party = Cardinality(of("first_party"))
        /\ c.first_party_resolved = Cardinality(reaching)
        /\ c.external = Cardinality(of("framework")) + Cardinality(of("declared_dependency"))
        /\ c.unclassified = Cardinality(of("unclassified"))
        /\ c.unrecorded = Cardinality(of(Nothing))
    BY DEF CoverageOf
  <2>2. own = of("first_party")
    OBVIOUS
  <2>3. \A i \in asked : i.origin \in Origins
    <3>1. \A i \in asked : i.origin = OriginOf(i)
      BY DEF PassInv, RunDone
    <3>2. \A i : OriginOf(i) \in Origins
      BY DEF OriginOf, Origin, Origins
    <3> QED
      BY <3>1, <3>2
  <2>4. \A i \in own : CountedResolved(i) <=> Reached(i) # {} \/ Dangling(i)
    <3> SUFFICES ASSUME NEW i \in own
                 PROVE  CountedResolved(i) <=> Reached(i) # {} \/ Dangling(i)
      OBVIOUS
    <3>1. /\ i.by \in {Nothing, "path", "namespace"}
          /\ (i.to # Nothing) = (i.by = "path")
      BY DEF StateInv, TypeOK, TablesOK, ImportRow
    <3>2. i.by = "namespace" => Reached(i) # {}
      BY DEF FlagsAgreeWithJoins
    <3> QED
      BY <3>1, <3>2, GraphAssumption DEF CountedResolved, Reached, Named, Dangling
  <2>5. IsFiniteSet(imports)
    BY ImportRowsAreFinite, GraphAssumption, FS_Subset DEF StateInv, TypeOK, TablesOK
  <2>6. IsFiniteSet(asked) /\ (\A o : of(o) \subseteq asked) /\ reaching \subseteq own
    BY <2>5, FS_Subset
  <2>7. \A o : IsFiniteSet(of(o)) /\ Cardinality(of(o)) \in Nat
    BY <2>6, FS_Subset, FS_CardinalityType
  <2>8. c.unrecorded = 0
    <3>1. of(Nothing) = {}
      BY <2>3, GraphAssumption
    <3> QED
      BY <2>1, <3>1, FS_EmptySet
  <2>9. c.total = c.first_party + c.external + c.unclassified
    <3> DEFINE near == of("first_party") \cup of("unclassified")
               far  == of("framework") \cup of("declared_dependency")
    <3>1. asked = near \cup far /\ near \cap far = {}
      BY <2>3 DEF Origins
    <3>2. /\ of("first_party") \cap of("unclassified") = {}
          /\ of("framework") \cap of("declared_dependency") = {}
      OBVIOUS
    <3> HIDE DEF of, asked
    <3>3. /\ IsFiniteSet(near)
          /\ Cardinality(near) = Cardinality(of("first_party"))
                                   + Cardinality(of("unclassified"))
      BY <2>7, <3>2, DisjointCount
    <3>4. /\ IsFiniteSet(far)
          /\ Cardinality(far) = Cardinality(of("framework"))
                                  + Cardinality(of("declared_dependency"))
      BY <2>7, <3>2, DisjointCount
    <3> HIDE DEF near, far
    <3>5. Cardinality(asked) = Cardinality(near) + Cardinality(far)
      BY <3>1, <3>3, <3>4, DisjointCount
    <3> HIDE DEF c
    <3> QED
      BY <2>1, <2>7, <3>3, <3>4, <3>5
  <2>10. Percent(c) = 100
                <=> own # {} /\ \A i \in own : Reached(i) # {} \/ Dangling(i)
    <3> HIDE DEF asked, of, c
    <3>1. IsFiniteSet(own) /\ IsFiniteSet(reaching)
      BY <2>2, <2>6, <2>7, FS_Subset
    <3>2. /\ Cardinality(reaching) \in Nat /\ Cardinality(own) \in Nat
          /\ Cardinality(reaching) <= Cardinality(own)
          /\ Cardinality(own) = Cardinality(reaching) => own = reaching
          /\ Cardinality(own) = 0 <=> own = {}
      BY <2>6, <3>1, FS_Subset, FS_CardinalityType, FS_EmptySet
    <3>0. /\ c.first_party = Cardinality(own)
          /\ c.first_party_resolved = Cardinality(reaching)
      BY <2>1, <2>2
    <3> HIDE DEF own, reaching
    <3>3. Percent(c) = 100
            <=> c.first_party # 0 /\ c.first_party_resolved = c.first_party
      BY <3>0, <3>2, HundredIsAll
    <3>5. Percent(c) = 100 <=> own # {} /\ own = reaching
      BY <3>0, <3>2, <3>3
    <3> USE DEF own, reaching
    <3>4. own = reaching <=> \A i \in own : Reached(i) # {} \/ Dangling(i)
      BY <2>4 DEF asked
    <3> QED
      BY <3>4, <3>5
  <2> QED
    BY <2>8, <2>9, <2>10
<1> QED
  BY <1>1, GraphState, GraphPasses, CoverageAgreesWithAnswers, PTL

=============================================================================
