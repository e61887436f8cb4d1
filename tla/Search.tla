-------------------------------- MODULE Search --------------------------------
(***************************************************************************)
(* One call of an MCP search tool, from the gate to the packed response:   *)
(* QueryService, SearchService, the two stores' search paths, the          *)
(* reranker's template, the staleness check, the worktree lens and the     *)
(* response budget.                                                        *)
(*                                                                         *)
(* A call awaits the embedder, the store (twice, where Mongo fuses on the  *)
(* client), the reranker and git.  Between any two of these, files are     *)
(* edited and committed in either checkout, an indexer replaces chunks,    *)
(* and worktrees come and go.  A chunk is a file and a text; the ranking   *)
(* of each branch for the query is given.  The sequential parts, filters   *)
(* and packing, are operators.                                             *)
(***************************************************************************)
EXTENDS Integers, FiniteSets, SequencesExt

CONSTANTS
  Paths,
  TextsOf,          \* [contents of a file -> the texts it is cut into]
  DocType, RepoOf,  \* [Paths -> the payload fields that filters read]
  FirstPaths,       \* the sets of files that there may be at first
  Unjudgeable,      \* files that cannot be re-read as they were indexed
  Quoted,           \* files whose names git prints in quotes
  PathsEnding,      \* [Paths -> paths that end with it at a segment boundary]
  DenseOrder,       \* every chunk <<path, text>>, by similarity
  TextOrder,        \* the chunks that hold a word of the query, by BM25
  CostOf,           \* [texts -> tokens]
  Absent,
  Candidates,       \* rerank.candidates (50)
  PrefetchLimit,    \* search.prefetch_limit (50)
  MaxTokens,        \* max_response_tokens (6000)
  MinChunkTokens,   \* the floor under a clipped body (64)
  AnchorTokens,     \* what a hit costs without its body
  Limits,           \* the limits callers ask for
  MaxWorld,         \* bound: steps of the world
  MaxQueries        \* bound: calls

Versions  == DOMAIN TextsOf
Checkouts == {"main", "tree"}
Branches  == {"dense", "sparse"}
Chunks    == ToSet(DenseOrder)
ChunksIn(p, version) == IF version = Absent THEN {} ELSE {p} \X TextsOf[version]

ASSUME SearchAssumption ==
  /\ Versions # {}
  /\ FirstPaths \subseteq SUBSET Paths /\ Quoted \subseteq Paths
  /\ \A p \in Paths, v \in Versions : ChunksIn(p, v) \subseteq Chunks
  /\ DenseOrder \in Seq(Chunks) /\ IsInjective(DenseOrder)
  /\ TextOrder \in Seq(Chunks) /\ IsInjective(TextOrder)
  /\ \A c \in Chunks : c[1] \in Paths /\ CostOf[c[2]] \in Nat
  /\ Absent \notin Versions \cup Paths
  /\ Limits \subseteq Nat \ {0}
  /\ {Candidates, PrefetchLimit, MaxTokens, MinChunkTokens, AnchorTokens} \subseteq Nat \ {0}
  /\ MaxWorld \in Nat /\ MaxQueries \in Nat

VARIABLES
  setup,      \* the configuration: backend, fusion, reranker
  disk,       \* [Checkouts -> [Paths -> version or Absent]]
  head,       \* [Checkouts -> what its HEAD holds]
  hasTree,    \* is the worktree there
  indexed,    \* the chunks of the collection
  built,      \* the branches whose search index is queryable
  rankFusion, \* the process's opinion of $rankFusion
  world,
  query,      \* the call under way, or Absent
  answer,     \* the last response, or Absent
  queries

worldVars  == <<disk, head, hasTree, indexed, built, world>>
searchVars == <<setup, worldVars, rankFusion, query, answer, queries>>

-----------------------------------------------------------------------------
(* Filters, in the stores' dialects.                                       *)

Types == {DocType[p] : p \in Paths}

NoFilter == [repo |-> Absent, docType |-> Absent, docTypes |-> {}, exclude |-> {}]

Field(p, key) == IF key = "doc_type" THEN DocType[p] ELSE RepoOf[p]

\* The constraints of one value per field.
ExactTerms(filters) ==
  [key \in {k \in {"repo", "doc_type"} :
              (IF k = "repo" THEN filters.repo ELSE filters.docType) # Absent}
     |-> IF key = "repo" THEN filters.repo ELSE filters.docType]

\* Qdrant: conditions that must and that must not match.
BuildFilter(filters) ==
  LET exact == ExactTerms(filters) IN
  [must |-> {<<key, {exact[key]}>> : key \in DOMAIN exact}
            \cup (IF filters.docTypes = {} THEN {} ELSE {<<"doc_type", filters.docTypes>>}),
   mustNot |-> {<<"doc_type", {type}>> : type \in filters.exclude}]

QdrantPasses(p, filters) ==
  LET condition == BuildFilter(filters) IN
  /\ \A c \in condition.must : Field(p, c[1]) \in c[2]
  /\ \A c \in condition.mustNot : Field(p, c[1]) \notin c[2]

\* An operator of MQL.
Holds(p, key, op, value) ==
  CASE op = "$eq"  -> Field(p, key) = value
    [] op = "$in"  -> Field(p, key) \in value
    [] op = "$nin" -> Field(p, key) \notin value

\* $vectorSearch: a conjunction of clauses.
VectorFilter(filters) ==
  LET exact == ExactTerms(filters) IN
  {<<key, "$eq", exact[key]>> : key \in DOMAIN exact}
    \cup (IF filters.docTypes = {} THEN {} ELSE {<<"doc_type", "$in", filters.docTypes>>})
    \cup (IF filters.exclude = {} THEN {} ELSE {<<"doc_type", "$nin", filters.exclude>>})

VectorPasses(p, filters) == \A c \in VectorFilter(filters) : Holds(p, c[1], c[2], c[3])

\* $search: clauses to satisfy, and clauses none of which may hold.
SearchClauses(filters) ==
  LET exact == ExactTerms(filters) IN
  [filter |-> {<<key, {exact[key]}>> : key \in DOMAIN exact}
              \cup (IF filters.docTypes = {} THEN {} ELSE {<<"doc_type", filters.docTypes>>}),
   mustNot |-> {<<"doc_type", type>> : type \in filters.exclude}]

TextPasses(p, filters) ==
  LET clauses == SearchClauses(filters) IN
  /\ \A c \in clauses.filter : Field(p, c[1]) \in c[2]
  /\ ~ \E c \in clauses.mustNot : Field(p, c[1]) = c[2]

\* dict.setdefault(key, {})[op] = value
AddOperator(match, key, op, value) ==
  LET ops == IF key \in DOMAIN match THEN DOMAIN match[key] ELSE {} IN
  [k \in DOMAIN match \cup {key} |->
     IF k # key THEN match[k]
     ELSE [o \in ops \cup {op} |-> IF o = op THEN value ELSE match[key][o]]]

\* Mutant: a key holds the operator that was set last.
MatchStageOneOperator(filters) ==
  LET exact == ExactTerms(filters)
      eq    == [key \in DOMAIN exact |-> "$eq" :> exact[key]]
      in    == IF filters.docTypes = {} THEN eq
               ELSE ("doc_type" :> ("$in" :> filters.docTypes)) @@ eq
  IN IF filters.exclude = {} THEN in ELSE ("doc_type" :> ("$nin" :> filters.exclude)) @@ in

\* A plain $match, for counts: one document, several operators per key.
MatchStage(filters) ==
  LET exact == ExactTerms(filters)
      eq    == [key \in DOMAIN exact |-> [op \in {"$eq"} |-> exact[key]]]
      in    == IF filters.docTypes = {} THEN eq
               ELSE AddOperator(eq, "doc_type", "$in", filters.docTypes)
  IN IF filters.exclude = {} THEN in ELSE AddOperator(in, "doc_type", "$nin", filters.exclude)

MatchPasses(p, filters) ==
  LET match == MatchStage(filters) IN
  \A key \in DOMAIN match : \A op \in DOMAIN match[key] : Holds(p, key, op, match[key][op])

-----------------------------------------------------------------------------
(* Ranking.                                                                *)

Take(s, n) == SubSeq(s, 1, IF n < Len(s) THEN n ELSE Len(s))

\* The values of f at the numbers of P, in ascending order.
Picked(f, P) ==
  [k \in 1..Cardinality(P) |-> f[CHOOSE i \in P : Cardinality({j \in P : j <= i}) = k]]

\* Mutant: the filter after the cut.
TopThenFilter(order, kept, n) ==
  LET top == Take(Picked(order, {i \in DOMAIN order : order[i] \in indexed}), n)
  IN Picked(top, {i \in DOMAIN top : top[i][1] \in kept})

\* What one branch returns: the filter runs inside the search.
Top(order, kept, n) ==
  Take(Picked(order, {i \in DOMAIN order : order[i] \in indexed /\ order[i][1] \in kept}), n)

RrfK == 60

\* 1 / (RRF_K + rank), times a number that all the ranks divide.
Scale == FoldLeft(LAMBDA product, divisor : product * divisor, 1,
                  [rank \in 1..PrefetchLimit |-> RrfK + rank])
Share(branch, c) ==
  IF c \notin ToSet(branch) THEN 0
  ELSE Scale \div (RrfK + CHOOSE rank \in DOMAIN branch : branch[rank] = c)

Id(c) == CHOOSE i \in DOMAIN DenseOrder : DenseOrder[i] = c

\* The higher the reciprocal ranks add up the smaller; ties by id.
Place(dense, text, c) ==
  Id(c) - (Share(dense, c) + Share(text, c)) * (Len(DenseOrder) + 1)

Fuse(dense, text, n) ==
  LET found  == ToSet(dense) \cup ToSet(text)
      places == {Place(dense, text, c) : c \in found}
  IN Take(Picked([x \in places |-> CHOOSE c \in found : Place(dense, text, c) = x], places), n)

\* Sorted by score, equal scores in the order they had.
Attach(candidates, scores) ==
  LET scored(s) == {i \in DOMAIN candidates : scores[i] = s}
  IN Picked(candidates, scored(1)) \o Picked(candidates, scored(0))

-----------------------------------------------------------------------------
(* The response budget.                                                    *)

Cost(hit, bodies) == IF bodies THEN CostOf[hit.chunk[2]] ELSE AnchorTokens

EmptyPack == [results |-> <<>>, spent |-> 0, open |-> TRUE]

\* Mutant: a location that does not fit goes in.
PackOneOver(packed, hit, bodies) ==
  LET remaining == MaxTokens - packed.spent
      clipped   == bodies /\ Cost(hit, bodies) > remaining
  IN IF ~packed.open \/ (remaining < (IF bodies THEN MinChunkTokens ELSE 1)
                         /\ packed.results # <<>>)
     THEN [packed EXCEPT !.open = FALSE]
     ELSE [packed EXCEPT
             !.results = Append(@, [hit EXCEPT !.truncated = clipped]),
             !.spent = @ + (IF clipped THEN remaining ELSE Cost(hit, bodies))]

\* Whole hits in order, the first always; a body that overflows is clipped
\* and says so, a location is never cut.
PackOne(packed, hit, bodies) ==
  LET remaining == MaxTokens - packed.spent
      over      == Cost(hit, bodies) > remaining
      floor     == IF bodies THEN MinChunkTokens ELSE 1
  IN IF \/ ~packed.open
        \/ packed.results # <<>> /\ (remaining < floor \/ (over /\ ~bodies))
     THEN [packed EXCEPT !.open = FALSE]
     ELSE [packed EXCEPT
             !.results = Append(@, [hit EXCEPT !.truncated = bodies /\ over]),
             !.spent = @ + (IF bodies /\ over THEN remaining ELSE Cost(hit, bodies))]

Pack(hits, bodies) ==
  FoldLeft(LAMBDA packed, hit : PackOne(packed, hit, bodies), EmptyPack, hits).results

-----------------------------------------------------------------------------
(* The world.                                                              *)

FirstVersion == CHOOSE v \in Versions : TRUE

SearchInit ==
  /\ setup \in [backend : {"qdrant", "mongo"},
                fusion : {"hybrid", "dense_only", "sparse_only"},
                reranker : {"none", "degrade", "fail"}]
  /\ \E first \in FirstPaths :
       disk = [c \in Checkouts |->
                 [p \in Paths |-> IF p \in first THEN FirstVersion ELSE Absent]]
  /\ head = disk
  /\ hasTree \in BOOLEAN
  /\ indexed = UNION {ChunksIn(p, disk["main"][p]) : p \in Paths}
  /\ built \in {Branches} \cup (IF setup.backend = "mongo" THEN {{}} ELSE {})
  /\ rankFusion = "unknown"
  /\ world = 0
  /\ query = Absent /\ answer = Absent
  /\ queries = 0

HeldIn(c, p, version) == {c} \X ChunksIn(p, version)

\* git diff takes a file that is gone and a new one that shares some of its
\* text for a rename, each file for one at most.
MayBeRenamed(p, q, from, to) ==
  /\ from[p] # Absent /\ to[p] = Absent
  /\ from[q] = Absent /\ to[q] # Absent
  /\ TextsOf[from[p]] \cap TextsOf[to[q]] # {}

Renamed(from, to) == {p \in Paths : \E q \in Paths : MayBeRenamed(p, q, from, to)}

Renames(from, to) ==
  {gone \in SUBSET Renamed(from, to) :
     \E new \in Injection(gone, Paths) : \A p \in gone : MayBeRenamed(p, new[p], from, to)}

\* The call under way remembers what it could have seen: the texts that each
\* checkout held, the files of the main checkout that were not committed,
\* those that the worktree may have renamed, and the chunks that were in the
\* collection throughout.
Witness ==
  query' = IF query = Absent THEN Absent
           ELSE [query EXCEPT
                   !.held = @ \cup UNION {HeldIn(c, p, disk'[c][p]) :
                                          c \in Checkouts, p \in Paths},
                   !.dirty = @ \cup {p \in Paths : disk'["main"][p] # head'["main"][p]},
                   !.moved = @ \cup Renamed(head'["main"], disk'["tree"]),
                   !.stable = @ \cap indexed']

World ==
  /\ world < MaxWorld /\ world' = world + 1
  /\ Witness
  /\ UNCHANGED <<setup, rankFusion, answer, queries>>

Write(c, p, version) ==
  /\ c = "tree" => hasTree
  /\ disk[c][p] # version
  /\ disk' = [disk EXCEPT ![c][p] = version]
  /\ UNCHANGED <<head, hasTree, indexed, built>>
  /\ World

Commit(c) ==
  /\ c = "tree" => hasTree
  /\ head[c] # disk[c]
  /\ head' = [head EXCEPT ![c] = disk[c]]
  /\ UNCHANGED <<disk, hasTree, indexed, built>>
  /\ World

\* git worktree add, at the main checkout's HEAD.
AddTree ==
  /\ ~hasTree /\ hasTree' = TRUE
  /\ disk' = [disk EXCEPT !["tree"] = head["main"]]
  /\ head' = [head EXCEPT !["tree"] = head["main"]]
  /\ UNCHANGED <<indexed, built>>
  /\ World

\* An index run, of the main checkout only; module Indexer has its steps.
Reindex(p) ==
  /\ LET now == {c \in indexed : c[1] # p} \cup ChunksIn(p, disk["main"][p])
     IN indexed # now /\ indexed' = now
  /\ UNCHANGED <<disk, head, hasTree, built>>
  /\ World

\* Atlas finishes building a search index.
Build ==
  /\ \E branch \in Branches \ built : built' = built \cup {branch}
  /\ UNCHANGED <<disk, head, hasTree, indexed>>
  /\ World

-----------------------------------------------------------------------------
(* A call.                                                                 *)

Filters(tool, includeTests) ==
  CASE tool = "search_code"   ->
         [NoFilter EXCEPT !.exclude = IF includeTests THEN {} ELSE {"test", "generated"}]
    [] tool = "find_guidance" ->
         [NoFilter EXCEPT !.docTypes = {"normative", "design", "guide"}]
    [] OTHER -> NoFilter

\* WorktreeLister: what git lists, and nothing where it fails or is too slow.
Listings == {{}, IF hasTree THEN {"tree"} ELSE {}}

\* WorktreeGate.scope: may the call be answered, given what was named.
Scoped(given, available) ==
  \/ given = "none"
  \/ IF given = Absent THEN available = {} ELSE given \in available

Ask(tool, path, limit, given, bodies) ==
  /\ query = Absent /\ queries < MaxQueries /\ queries' = queries + 1
  /\ answer' = Absent
  /\ \E available \in Listings, includeTests \in BOOLEAN :
       IF ~Scoped(given, available) THEN query' = Absent ELSE
       query' = [tool |-> tool, path |-> path, limit |-> limit, bodies |-> bodies,
                 tree |-> given = "tree", filters |-> Filters(tool, includeTests),
                 stage |-> "search", dense |-> <<>>, hits |-> <<>>,
                 held |-> UNION {HeldIn(c, p, disk[c][p]) : c \in Checkouts, p \in Paths},
                 dirty |-> {p \in Paths : disk["main"][p] # head["main"][p]},
                 moved |-> Renamed(head["main"], disk["tree"]),
                 stable |-> indexed, ready |-> "dense" \in built]
  /\ UNCHANGED <<setup, worldVars, rankFusion>>

\* Retrieve deep, return shallow.
Depth ==
  IF setup.reranker = "none" \/ Candidates < query.limit THEN query.limit ELSE Candidates

Hit(chunk) == [chunk |-> chunk, at |-> "main", stale |-> FALSE, truncated |-> FALSE]
Hits(ranked) == [i \in DOMAIN ranked |-> Hit(ranked[i])]

Step(stage, hits) ==
  /\ query' = [query EXCEPT !.stage = stage, !.hits = hits]
  /\ UNCHANGED <<setup, worldVars, answer, queries>>

Searching == query # Absent /\ query.stage = "search" /\ query.tool # "get_file_context"

QdrantSearch ==
  /\ Searching /\ setup.backend = "qdrant"
  /\ LET kept == {p \in Paths : QdrantPasses(p, query.filters)}
         branch(order, n) == Top(order, kept, n)
         ranked ==
           CASE setup.fusion = "dense_only"  -> branch(DenseOrder, Depth)
             [] setup.fusion = "sparse_only" -> branch(TextOrder, Depth)
             [] setup.fusion = "hybrid"      ->
                  Fuse(branch(DenseOrder, PrefetchLimit), branch(TextOrder, PrefetchLimit),
                       Depth)
     IN Step("rerank", Hits(ranked))
  /\ UNCHANGED rankFusion

\* A branch whose index is being built finds nothing, where it does not raise.
DenseStages(n) ==
  IF "dense" \notin built THEN <<>>
  ELSE Top(DenseOrder, {p \in Paths : VectorPasses(p, query.filters)}, n)
TextStages(n) ==
  IF "sparse" \notin built THEN <<>>
  ELSE Top(TextOrder, {p \in Paths : TextPasses(p, query.filters)}, n)

\* One branch of Mongo's.
MongoSearch ==
  /\ Searching /\ setup.backend = "mongo" /\ setup.fusion # "hybrid"
  /\ Step("rerank", Hits(IF setup.fusion = "dense_only"
                         THEN DenseStages(Depth) ELSE TextStages(Depth)))
  /\ UNCHANGED rankFusion

Hybrid == Searching /\ setup.backend = "mongo" /\ setup.fusion = "hybrid"

\* $rankFusion, where the server has it.
RankFusion ==
  /\ Hybrid /\ rankFusion # "no"
  /\ rankFusion' = "yes"
  /\ Step("rerank", Hits(Fuse(DenseStages(PrefetchLimit), TextStages(PrefetchLimit), Depth)))

\* OperationFailure, be it of an index that is being built: not tried again
\* in this process.
NoRankFusion ==
  /\ Hybrid /\ rankFusion # "no"
  /\ rankFusion' = "no"
  /\ Step("search", <<>>)

\* _client_side_fusion: two aggregations, one after the other.
DenseBranch ==
  /\ Hybrid /\ rankFusion = "no"
  /\ query' = [query EXCEPT !.stage = "text", !.dense = DenseStages(PrefetchLimit)]
  /\ UNCHANGED <<setup, worldVars, rankFusion, answer, queries>>

TextBranch ==
  /\ query # Absent /\ query.stage = "text"
  /\ Step("rerank", Hits(Fuse(query.dense, TextStages(PrefetchLimit), Depth)))
  /\ UNCHANGED rankFusion

\* chunks_for_path: the path itself, and failing that what ends with it; up
\* to the limit, in no order; QueryService sorts what it is given.
ChunksForPath ==
  /\ query # Absent /\ query.stage = "search" /\ query.tool = "get_file_context"
  /\ LET of(paths) == {c \in indexed : c[1] \in paths}
         found == IF of({query.path}) # {} THEN of({query.path})
                  ELSE of(PathsEnding[query.path])
         size  == IF Cardinality(found) < query.limit THEN Cardinality(found) ELSE query.limit
     IN \E some \in kSubset(size, found) :
          LET listed == {i \in DOMAIN DenseOrder : DenseOrder[i] \in some}
          IN Step("stale", Hits(Picked(DenseOrder, listed)))
  /\ UNCHANGED rankFusion

Rerank ==
  /\ query # Absent /\ query.stage = "rerank" /\ setup.reranker # "none"
  /\ LET candidates == Take(query.hits, Candidates) IN
     \E scores \in [DOMAIN candidates -> {0, 1}] :
       Step("stale", Take(Attach(candidates, scores), query.limit))
  /\ UNCHANGED rankFusion

\* NoopReranker, and _degrade: the order of the fusion.
KeepOrder ==
  /\ query # Absent /\ query.stage = "rerank" /\ setup.reranker # "fail"
  /\ Step("stale", Take(query.hits, query.limit))
  /\ UNCHANGED rankFusion

\* mark_stale: is the text still in the main checkout's file.
MarkStale ==
  /\ query # Absent /\ query.stage = "stale"
  /\ LET judged(hit) ==
           LET now == disk["main"][hit.chunk[1]] IN
           [hit EXCEPT !.stale =
              /\ hit.chunk[1] \notin Unjudgeable \/ now = Absent
              /\ hit.chunk \notin ChunksIn(hit.chunk[1], now)]
     IN Step("lens", [i \in DOMAIN query.hits |-> judged(query.hits[i])])
  /\ UNCHANGED rankFusion

\* Mutant: against the worktree's own HEAD.
DivergedFromOwnHead == {{p \in Paths \ Quoted : disk["tree"][p] # head["tree"][p]}}

\* DivergenceScanner: what `git diff --name-only` may print, against the main
\* checkout's HEAD, and `git ls-files --others`.  Of a rename, git prints the
\* new name only, and a name in quotes is nobody's path.
Diverged ==
  LET from == head["main"]
      to   == disk["tree"]
  IN {{p \in Paths \ Quoted : from[p] # to[p]} \ gone : gone \in Renames(from, to)}

Respond(hits) ==
  /\ answer' = [hits |-> hits, results |-> Pack(hits, query.bodies), call |-> query]
  /\ query' = Absent
  /\ UNCHANGED <<setup, worldVars, rankFusion, queries>>

\* WorktreeLens.apply: the worktree's copies, marked where they differ.
Lens ==
  /\ query # Absent /\ query.stage = "lens" /\ query.tree
  /\ \E diverged \in Diverged :
       LET seen(hit) == [hit EXCEPT !.at = "tree",
                                    !.stale = @ \/ hit.chunk[1] \in diverged]
       IN Respond([i \in DOMAIN query.hits |-> seen(query.hits[i])])

\* No worktree was named, or git could not compare it.
NoLens ==
  /\ query # Absent /\ query.stage = "lens"
  /\ Respond(query.hits)

\* The embedder, the store or a reranker that may not degrade raises.
CallRaises ==
  /\ query # Absent
  /\ \/ query.stage \in {"search", "text"}
     \/ query.stage = "rerank" /\ setup.reranker = "fail"
  /\ query' = Absent
  /\ UNCHANGED <<setup, worldVars, rankFusion, answer, queries>>

AskAny ==
  \E limit \in Limits, given \in {Absent, "none", "tree"}, bodies \in BOOLEAN :
    \/ \E tool \in {"search_code", "find_guidance"} : Ask(tool, Absent, limit, given, bodies)
    \/ \E path \in Paths : bodies /\ Ask("get_file_context", path, limit, given, bodies)

SearchNext ==
  \/ \E c \in Checkouts, p \in Paths, v \in Versions \cup {Absent} : Write(c, p, v)
  \/ \E c \in Checkouts : Commit(c)
  \/ AddTree
  \/ \E p \in Paths : Reindex(p)
  \/ Build
  \/ AskAny
  \/ QdrantSearch \/ MongoSearch \/ RankFusion \/ NoRankFusion \/ DenseBranch \/ TextBranch
  \/ ChunksForPath
  \/ Rerank \/ KeepOrder \/ MarkStale \/ Lens \/ NoLens \/ CallRaises

SearchSpec == SearchInit /\ [][SearchNext]_searchVars

-----------------------------------------------------------------------------
(* Properties.                                                             *)

SearchTypeOK ==
  /\ disk \in [Checkouts -> [Paths -> Versions \cup {Absent}]]
  /\ head \in [Checkouts -> [Paths -> Versions \cup {Absent}]]
  /\ hasTree \in BOOLEAN /\ built \subseteq Branches
  /\ indexed \subseteq Chunks
  /\ rankFusion \in {"unknown", "yes", "no"}
  /\ rankFusion # "unknown" => setup.backend = "mongo" /\ setup.fusion = "hybrid"
  /\ world \in 0..MaxWorld /\ queries \in 0..MaxQueries
  /\ query # Absent =>
       /\ query.stage \in {"search", "text", "rerank", "stale", "lens"}
       /\ query.stage = "text" => rankFusion = "no"
       /\ query.hits # <<>> => query.stage \in {"rerank", "stale", "lens"}
  /\ answer # Absent => query = Absent \/ answer.call.stage = "lens"

(* A result that is not flagged can be opened at the path it carries and   *)
(* holds the text it was matched by, or did so at some moment of the call: *)
(* two indexes of staleness, the main checkout's text and the worktree's   *)
(* divergence from HEAD, taken at different moments, add up to this.  The  *)
(* exceptions are files that cannot be re-read, and worktree copies of     *)
(* three kinds of file: those the main checkout had changed and not        *)
(* committed (the index has the working tree, the lens compares with       *)
(* HEAD), those that git took to be renamed in the worktree, and those     *)
(* whose names it quotes.                                                  *)
(* (mark_stale, WorktreeLens.apply, DivergenceScanner.diverged)            *)
UnflaggedIsCurrent ==
  answer # Absent =>
    \A i \in DOMAIN answer.results :
      LET result == answer.results[i] IN
      \/ result.stale
      \/ <<result.at, result.chunk>> \in answer.call.held
      \/ result.chunk[1] \in Unjudgeable
      \/ /\ result.at = "tree"
         /\ result.chunk[1] \in answer.call.dirty \cup answer.call.moved \cup Quoted

(* Fewer hits than were asked for means that there are no more, unless     *)
(* Mongo's vector index was still being built when the call was made:      *)
(* filters run inside each branch and the candidates are cut after them,   *)
(* on either backend and whichever way ranks were fused, be the text       *)
(* branch empty or not.  What bounds an answer is the limit, the depth of  *)
(* a branch, and the reranker's cap, which a larger limit does not raise.  *)
(* (search, _hybrid, _client_side_fusion, rerank, build_filter)            *)
AnswerIsFull ==
  /\ answer # Absent /\ answer.call.ready
  /\ answer.call.tool # "get_file_context" /\ setup.fusion # "sparse_only"
  =>
    LET matching == {c \in answer.call.stable : QdrantPasses(c[1], answer.call.filters)}
        bounds   == {Cardinality(matching), answer.call.limit, PrefetchLimit}
                      \cup (IF setup.reranker = "none" THEN {} ELSE {Candidates})
    IN \E bound \in bounds : Len(answer.hits) >= bound

(* The four dialects mean the same: whatever a tool filters by, narrowed    *)
(* by any repository and type the caller names, the branches that are      *)
(* fused, a count and a facet of either backend keep the same files.       *)
(* (build_filter, vector_filter, search_clauses, match_stage)              *)
DialectsAgree ==
  query # Absent /\ query.stage = "search" =>
    \A repo \in {RepoOf[p] : p \in Paths} \cup {Absent}, docType \in Types \cup {Absent} :
      LET filters == [query.filters EXCEPT !.repo = repo, !.docType = docType]
      IN \A p \in Paths :
           /\ VectorPasses(p, filters) <=> QdrantPasses(p, filters)
           /\ TextPasses(p, filters) <=> QdrantPasses(p, filters)
           /\ MatchPasses(p, filters) <=> QdrantPasses(p, filters)

Spent(results, bodies) ==
  FoldLeft(LAMBDA sum, result : sum + (IF result.truncated THEN 0 ELSE Cost(result, bodies)),
           0, results)

(* A response keeps to its budget and says what it cut: the hits it holds  *)
(* are the first ones, something is returned when something matched, only  *)
(* the last body is clipped and it is flagged, and what is not flagged     *)
(* fits, but for a first location.  (ResultBudget.pack)                    *)
ResponseFits ==
  answer # Absent =>
    LET results == answer.results
        whole   == {i \in DOMAIN results : ~results[i].truncated}
        spent   == Spent(results, answer.call.bodies)
    IN /\ \A i \in DOMAIN results : results[i].chunk = answer.hits[i].chunk
       /\ answer.hits # <<>> => results # <<>>
       /\ \A i \in DOMAIN results \ whole : i = Len(results) /\ answer.call.bodies
       /\ spent <= MaxTokens \/ (Len(results) = 1 /\ ~answer.call.bodies)

=============================================================================
