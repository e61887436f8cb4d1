----------------------------- MODULE Resolvers -----------------------------
(***************************************************************************)
(* The pure half of the relationship graph (src/workspace_indexer/graph/): *)
(* what an import, a using or a client call names, given the files and     *)
(* declarations of the index.  None of these operators has state, and all  *)
(* of them answer None rather than guess.                                  *)
(*                                                                         *)
(* A file is its path: the root it lies in, the directories below the      *)
(* root, the name without its extension, and the extension.                *)
(***************************************************************************)
EXTENDS Naturals, Sequences, FiniteSets, SequencesExt

CONSTANTS
  Paths,        \* the files a workspace can hold: [root, dir, stem, ext]
  Nothing,      \* Python's None
  Builtins,     \* [Languages -> sets of module heads the language ships with]
  Declared,     \* [root, unit] records to the packages that unit declares
  BasePaths,    \* config.graph.client_base_paths, as sequences of segments
  Lower(_)      \* a name in lower case

Languages == {"python", "csharp", "typescript", "javascript"}

LanguageOf(f) ==
  CASE f.ext \in {".py", ".pyi"} -> "python"
    [] f.ext = ".cs" -> "csharp"
    [] f.ext \in {".ts", ".tsx", ".mts", ".cts"} -> "typescript"
    [] f.ext \in {".js", ".jsx", ".mjs", ".cjs"} -> "javascript"
    [] OTHER -> Nothing

JsLanguages == {"typescript", "javascript"}

ASSUME ResolversAssumption ==
  /\ \A f \in Paths : f.dir \in Seq(STRING)
  /\ Nothing \notin Paths /\ Nothing \notin Languages
  /\ \A l \in DOMAIN Builtins : l \in Languages
  /\ \A i \in DOMAIN BasePaths : BasePaths[i] # <<>>

\* The repository a file sits in: its first directory, "" at the root.
UnitOf(f) == IF f.dir = <<>> THEN "" ELSE f.dir[1]

SameUnit(f, g) == f.root = g.root /\ UnitOf(f) = UnitOf(g)

\* ImportResolver._files: the search space of an import written in `from`.
Known(files, from) == {f \in files : SameUnit(f, from)}

\* The first of a sequence of candidates that is a known file.
FirstKnown(candidates, known) ==
  LET i == SelectInSeq(candidates, LAMBDA c : c \in known)
  IN IF i = 0 THEN Nothing ELSE candidates[i]

At(root, parts, ext) ==
  [root |-> root, dir |-> Front(parts), stem |-> Last(parts), ext |-> ext]

-----------------------------------------------------------------------------
(* Python.  An edge has a dotted module and the dots that lead it.         *)

\* `base`, as a module or as a package.  "" names nothing.
PythonCandidates(root, base, known) ==
  IF base = <<>> THEN Nothing
  ELSE FirstKnown(<<At(root, base, ".py"),
                    At(root, Append(base, "__init__"), ".py"),
                    At(root, base, ".pyi")>>, known)

\* One dot is the containing package; only the others walk upward.
PythonRelative(edge, from, known) ==
  LET up    == edge.dots - 1
      depth == Len(from.dir)
      start == IF up <= depth THEN SubSeq(from.dir, 1, depth - up) ELSE <<>>
  IN PythonCandidates(from.root, start \o edge.module, known)

\* Files whose path ends with the module's, below at least one directory.
SuffixMatches(module, known) ==
  {f \in known :
     /\ f.ext = ".py"
     /\ \/ IsStrictSuffix(module, Append(f.dir, f.stem))
        \/ f.stem = "__init__" /\ IsStrictSuffix(module, f.dir)}

TheOnly(matches) ==
  IF Cardinality(matches) = 1 THEN CHOOSE f \in matches : TRUE ELSE Nothing

\* Mutant: of two candidates, the first one found.
AnyOf(matches) ==
  IF matches # {} THEN CHOOSE f \in matches : TRUE ELSE Nothing

PythonTarget(edge, from, known) ==
  IF edge.dots > 0 THEN PythonRelative(edge, from, known)
  ELSE TheOnly(SuffixMatches(edge.module, known))

-----------------------------------------------------------------------------
(* The JavaScript family.  Only relative specifiers name files.            *)

JsExtensions == <<".ts", ".tsx", ".js", ".jsx", ".mjs", ".cjs">>

\* The source an emitted file was compiled from.
EsmRewrites(ext) ==
  CASE ext = ".js"  -> <<".ts", ".tsx">>
    [] ext = ".mjs" -> <<".mts">>
    [] ext = ".cjs" -> <<".cts">>
    [] OTHER        -> <<>>

\* "." stays, ".." leaves a directory (and the top one cannot be left).
Step(parts, segment) ==
  CASE segment = "."  -> parts
    [] segment = ".." -> IF parts = <<>> THEN <<>> ELSE Front(parts)
    [] OTHER          -> Append(parts, segment)

OrElse(target, other) == IF target # Nothing THEN target ELSE other

\* The specifier as written or what it compiles from, then the extensions it
\* leaves out (after one it has, too: ./card.test), then a directory's index.
JsCandidates(root, base, ext, known) ==
  LET whole == Append(Front(base), Last(base) \o ext)
      first(parts, suffixes) ==
        FirstKnown([i \in DOMAIN suffixes |-> At(root, parts, suffixes[i])], known)
  IN OrElse(first(base, <<ext>> \o EsmRewrites(ext)),
       OrElse(first(whole, JsExtensions), first(Append(whole, "index"), JsExtensions)))

JsTarget(edge, from, known) ==
  LET base == FoldLeft(Step, from.dir, edge.module)
  IN IF edge.dots = 0 \/ base = <<>> THEN Nothing
     ELSE JsCandidates(from.root, base, edge.ext, known)

\* ImportResolver.resolve.
ImportTarget(edge, from, files) ==
  LET known    == Known(files, from)
      language == LanguageOf(from)
  IN CASE language = "python"      -> PythonTarget(edge, from, known)
       [] language \in JsLanguages -> JsTarget(edge, from, known)
       [] OTHER                    -> Nothing

-----------------------------------------------------------------------------
(* C#.  A using names a namespace, and so every file declaring it.         *)

\* Mutant: a namespace is looked up in the whole root.
NamespaceTargetsInRoot(declarations, symbol, from) ==
  {d.file : d \in {x \in declarations :
                     x.symbol = symbol /\ x.file.root = from.root}}

\* NamespaceResolver.targets; `declarations` is a set of [file, symbol].
NamespaceTargets(declarations, symbol, from) ==
  {d.file : d \in {x \in declarations :
                     x.symbol = symbol /\ SameUnit(x.file, from)}}

-----------------------------------------------------------------------------
(* Where an import that reached no file points.                            *)

Origins == {"first_party", "declared_dependency", "framework", "unclassified"}

\* A package, or something inside it.  Inside means past a separator, and a
\* dot separates nothing on npm: the MC modules' names are cut accordingly.
IsDeclared(edge, from) ==
  \E p \in UNION {d.packages : d \in {x \in Declared :
                    x.root = from.root /\ x.unit = UnitOf(from)}} :
    IsPrefix(p, edge.module)

IsFramework(edge, language) ==
  /\ edge.module # <<>>
  /\ language \in DOMAIN Builtins
  /\ edge.module[1] \in Builtins[language]

\* OriginClassifier.classify: the order is the precedence.
Origin(edge, from, to, by) ==
  IF to # Nothing \/ by # Nothing \/ edge.dots > 0 THEN "first_party"
  ELSE IF IsDeclared(edge, from) THEN "declared_dependency"
  ELSE IF IsFramework(edge, LanguageOf(from)) THEN "framework"
  ELSE "unclassified"

-----------------------------------------------------------------------------
(* Routes.  Templates and URLs are sequences of lower-case segments.       *)

Parameter == "{}"
CatchAll  == "{*}"

\* Where a template's first catch-all is; past its end if it has none.
CatchAllAt(template) ==
  LET i == SelectInSeq(template, LAMBDA s : s = CatchAll)
  IN IF i = 0 THEN Len(template) + 1 ELSE i

Fits(wanted, template, n) ==
  \A i \in 1..n : template[i] \in {Parameter, wanted[i]}

\* A complete URL: segment by segment, a catch-all taking what remains.
Matches(wanted, template) ==
  LET n == CatchAllAt(template) - 1
  IN /\ n <= Len(wanted)
     /\ Fits(wanted, template, n)
     /\ n = Len(template) => Len(wanted) = n

\* A known prefix: something was interpolated after it, so the template goes on.
Extends(wanted, template) ==
  /\ Len(template) > Len(wanted)
  /\ LET n == CatchAllAt(template) - 1
     IN Fits(wanted, template, IF n < Len(wanted) THEN n ELSE Len(wanted))

\* The one file declaring an endpoint that matches; `declarations` is a set
\* of [file, template].
RouteMatch(declarations, wanted, exact) ==
  TheOnly({d.file : d \in {x \in declarations :
             IF exact THEN Matches(wanted, x.template)
                      ELSE Extends(wanted, x.template)}})

\* RouteResolver.resolve: as called, and only then without a base path that a
\* proxy puts in front.
RouteTarget(declarations, wanted, exact) ==
  LET direct  == RouteMatch(declarations, wanted, exact)
      under   == SelectSeq(BasePaths, LAMBDA b :
                   IsStrictPrefix(b, wanted)
                   /\ RouteMatch(declarations,
                        SubSeq(wanted, Len(b) + 1, Len(wanted)), exact) # Nothing)
  IN IF wanted = <<>> \/ direct # Nothing \/ under = <<>> THEN
       (IF wanted = <<>> THEN Nothing ELSE direct)
     ELSE RouteMatch(declarations,
            SubSeq(wanted, Len(under[1]) + 1, Len(wanted)), exact)

=============================================================================
