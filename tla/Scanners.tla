------------------------------ MODULE Scanners ------------------------------
(***************************************************************************)
(* What the graph scanners (import_scanner, namespace_scanner and          *)
(* route_scanner of src/workspace_indexer/graph/) read out of one file's   *)
(* syntax tree.  A content is the part of the tree they look at:           *)
(*   imports     import and using statements;                              *)
(*   blocks      the namespace blocks, each as the names around and on it; *)
(*   controllers classes with their route attribute and their methods;     *)
(*   statements  minimal-API statements, in source order;                  *)
(*   page        a Razor page's directive: None, <<>> when bare, or a path; *)
(*   fetches     calls of functions that may be HTTP clients.              *)
(***************************************************************************)
EXTENDS Resolvers

CONSTANTS
  HttpClients,   \* config.graph.http_clients
  PagesDir       \* config.graph.razor_pages_dir

\* The languages each scanner reads.
ImportLanguages    == {"python", "typescript", "javascript", "csharp"}
NamespaceLanguages == {"csharp"}
CallLanguages      == {"typescript", "javascript"}
GraphLanguages     == ImportLanguages \cup NamespaceLanguages

EmptyContent ==
  [imports |-> {}, blocks |-> {}, controllers |-> {}, statements |-> <<>>,
   page |-> Nothing, fetches |-> {}]

-----------------------------------------------------------------------------
(* Imports.  `is_static` and `is_global` are the keywords of a C# using;   *)
(* an alias names nothing, its target does.                                *)

Kinds ==
  {"import", "using", "using_static", "global_using", "global_using_static"}

DeclinedKinds == {"using_static", "global_using_static"}

CsharpKind(statement) ==
  IF statement.is_static
  THEN IF statement.is_global THEN "global_using_static" ELSE "using_static"
  ELSE IF statement.is_global THEN "global_using" ELSE "using"

\* Before graph version 1 every using was a "using".
Edge(statement, language, version) ==
  [module |-> statement.module, dots |-> statement.dots, ext |-> statement.ext,
   kind |-> IF language # "csharp" THEN "import"
            ELSE IF version = 0 THEN "using" ELSE CsharpKind(statement)]

\* ImportScanner.scan, over the rows (root, path, module, line) can hold.
ScanImports(f, content, version) ==
  IF LanguageOf(f) \in ImportLanguages
  THEN {Edge(s, LanguageOf(f), version) :
          s \in {x \in content.imports : x.module # <<>> \/ x.dots > 0}}
  ELSE {}

-----------------------------------------------------------------------------
(* Namespaces.  A nested block declares its full name.                     *)

\* NamespaceScanner.scan: version 0 knew none.
ScanNamespaces(f, content, version) ==
  IF LanguageOf(f) \in NamespaceLanguages /\ version > 0
  THEN UNION {{FlattenSeq(SubSeq(b, 1, n)) : n \in DOMAIN b} : b \in content.blocks}
  ELSE {}

-----------------------------------------------------------------------------
(* Endpoints.                                                              *)

\* [controller] is the class's name; `name` is without its suffix.
ExpandController(template, name) ==
  [i \in DOMAIN template |->
     IF template[i] = "[controller]" THEN name ELSE template[i]]

OrEmpty(template) == IF template = Nothing THEN <<>> ELSE template

\* A class's route joined to those of the methods that have a verb or a route.
ControllerRoutes(content) ==
  UNION {{ExpandController(OrEmpty(k.route), k.name) \o OrEmpty(m.route) :
            m \in {x \in k.methods : x.verb \/ x.route # Nothing}} :
         k \in content.controllers} \ {<<>>}

AppReceivers == {"app", "builder", "endpoints", "routes"}

\* What is inherited from a receiver: the prefix of the group, "" from the
\* application root, and None from what cannot be followed.
PrefixOf(receiver, groups) ==
  IF receiver \in DOMAIN groups THEN groups[receiver]
  ELSE IF receiver \in AppReceivers THEN <<>>
  ELSE Nothing

\* `var name = receiver.MapGroup(template)`, with whatever builder calls after.
AddGroup(groups, statement) ==
  LET prefix == PrefixOf(statement.receiver, groups)
  IN IF statement.op # "group" \/ prefix = Nothing THEN groups
     ELSE [v \in DOMAIN groups \cup {statement.var} |->
             IF v = statement.var THEN prefix \o statement.template
             ELSE groups[v]]

\* One dictionary for the whole file, filled before any route is read.
GroupPrefixes(content) ==
  FoldLeft(AddGroup, [v \in {} |-> <<>>], content.statements)

MinimalRoutes(content) ==
  LET groups == GroupPrefixes(content)
      leaves == {s \in ToSet(content.statements) :
                   /\ s.op = "map"
                   /\ PrefixOf(s.receiver, groups) # Nothing}
  IN {PrefixOf(s.receiver, groups) \o s.template : s \in leaves} \ {<<>>}

\* Pages/Foo/Index answers /Foo; outside the pages directory nothing does.
RouteFromPath(f) ==
  LET at == SelectInSeq(f.dir, LAMBDA d : d = PagesDir)
      tail == SubSeq(f.dir, at + 1, Len(f.dir))
  IN IF at = 0 THEN Nothing
     ELSE IF Lower(f.stem) = "index" THEN tail
     ELSE Append(tail, f.stem)

\* The directive's template when it has one, else the file's location.
RazorRoutes(f, content) ==
  IF content.page = Nothing THEN {}
  ELSE IF content.page # <<>> THEN {content.page}
  ELSE {RouteFromPath(f)} \ {Nothing}

\* RouteScanner.declarations.
ScanRoutes(f, content) ==
  IF f.ext \in {".cshtml", ".razor"} THEN RazorRoutes(f, content)
  ELSE IF LanguageOf(f) = "csharp"
  THEN ControllerRoutes(content) \cup MinimalRoutes(content)
  ELSE {}

\* The whole URL, or what comes before its first interpolation.
CallUrl(call) == [template |-> call.url, exact |-> call.literal]

\* A configured client called with a URL whose start is written down.
ScanCalls(f, content) ==
  IF LanguageOf(f) \in CallLanguages
  THEN {CallUrl(c) :
          c \in {x \in content.fetches :
                   x.client \in HttpClients /\ x.url # Nothing}}
  ELSE {}

=============================================================================
