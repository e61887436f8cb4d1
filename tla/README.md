# workspace-indexer in TLA+

A specification of the workspace indexer: what it keeps, in which order it
writes it, and what holds when files change under it, volumes disappear, and
runs stop half way; how a watcher keeps it fresh; the graph of relationships it
draws; the services it is built on (chunking, embedding, two stores); and what a
query is answered from.  The modules translate the code of
`src/workspace_indexer`; TLC checks them on small workspaces and TLAPS proves
what matters most for workspaces of any size.

## 1. The system

The program keeps a search index over several source trees ("roots").  A run
walks the roots, decides per file whether anything has to be done, splits the
files that changed into chunks, embeds them, stores the vectors in Qdrant (or
MongoDB) and records what it did in a SQLite manifest.  It is one process, one
coroutine: nothing inside a run is concurrent.  (`watch` runs one watcher per
workspace in one event loop, and their runs one at a time.)  What is concurrent
is everything around it, and neither database takes part in a transaction of the
other.

### Components

| component | state it keeps | operations | talks to |
|---|---|---|---|
| **manifest** (`state/manifest.py`, `schema.sql`) | `files`, `file_spaces`, `chunks`, graph tables, `runs` | the decision ladder, `diff_chunks`, `record_*`, `touch`, `forget_file`, `orphans`, `copy_space` | called by the run, the graph passes and the queries |
| **index run** (`pipeline/indexer.py`) | candidates, buffered files, files to purge | `run`, `_prepare`, `_flush`, `_record`, `_purge`, `_remove_orphans`, graph passes | everything below |
| **discovery** (`discovery/`) | roots that could not be seen | `walk` | the filesystem |
| **file reader, secret scanner** (`chunking/file_reader.py`, `secrets/`) | none | `read_source` | the filesystem |
| **chunkers** (`chunking/`) | none; each has a version | `resolve`, `chunk` | called by `_prepare` |
| **vector stores** (`storage/`) | one collection of points per embedding space | `upsert` (in batches), `delete_by_ids`, `delete_by_path`, search | Qdrant or MongoDB |
| **embedding service** (`embedding/`) | permits, token and cost counters | `embed_documents` with batching and retries | a provider |
| **relationship graph** (`graph/`, graph tables) | import, namespace and route edges | scan, resolve, retire, backfill | manifest |
| **watching** (`watching/`) | debounced paths, scope, config | `handle_changes`, rescope, reload | starts runs |
| **store copies** (`storage/store_mirror.py`, `search/reprojector.py`) | a second collection | mirror, reproject, `copy_space` | both stores, manifest |
| **search, rerank** (`search/`, `rerank/`) | the process's opinion of `$rankFusion` | `search`, `chunks_for_path`, `rerank`, `mark_stale` | store, disk |
| **worktrees** (`worktrees/`) | listings, kept per process | gate, lens, divergence | git |
| **MCP server** (`mcp/`) | none | query and impact tools, the response budget | search, manifest |
| **registry and commands** (`workspace_registry.py`, `app_context.py`, `cli.py`) | contexts, the shared client | load, serve, watch, index, close | all of it |
| **configuration** (`config/`) | roots, excludes, overrides | load, once per process | everything |
| **grounding, classification, evaluation, observability** | none of the index | queries, rules, reports, logs | read-only |

### Interactions

`run` calls the walker to the end before it prepares the first file, so every
decision is made on a `stat()` that may be old.  `_prepare` reads the manifest
(ladder, diff) and the file; nothing is written until `_flush`, a buffer later,
which upserts, deletes and then commits the manifest in one SQLite transaction.
`_purge` and `_remove_orphans` delete vectors first and the row after.  A later
run knows only the manifest and the disk: it never asks the store what is in it.

After the files, a run goes over the graph tables as a whole, in passes that are
mostly single autocommitted statements; impact and coverage queries read the
same tables at any moment, in other processes.

A query awaits the embedder, the store, the reranker and git in turn; nothing
holds the disk, the collection or the worktrees still between them.  `mirror` and
`reproject` copy a collection page by page beside whatever indexes it.

`watch` lists the directories the index would look in and hands them to the
watching library, one by one and without recursion.  While a batch of events is
handled (the rescope flag, the debouncer, a reload of `workspace.yaml`, one
reindex after the other under the lock of all workspaces) the library gathers
the next one.

### What is hard

* the filesystem is edited between the walk's `stat()`, the read and the flush;
* a run can stop between any two calls, and between two batches of one upsert;
* absence is read as deletion, and an unmounted volume is an absence;
* the manifest holds one hash per file and one completion marker per space;
* forced, dry and scoped runs share the ladder but not its consequences;
* versions of chunkers change between runs;
* events come during the reindex they ask for, and a save of the configuration
  in the same batch as the changes it is about;
* the program's own writes are changes on disk too;
* relationships are resolved by later passes and later runs than recorded them;
* a failed embedding call leaves requests under way behind it;
* a copy is resumed, overtaken and killed; rows and vectors are copied apart;
* a chunk is cut by estimates that do not add up, and cited by line number;
* several workspaces share one client, and any of them may fail to build.

### What makes each component correct

| component | property |
|---|---|
| ladder and manifest | an unchanged file is skipped, a changed one never; the row describes the bytes that were embedded |
| index run | a completed run leaves row, chunks and vectors of what is on disk; vectors before rows; nothing stranded; an interrupted run leaves work to redo |
| discovery and removal | what is gone is removed, and what is merely not visible is not |
| reader | no vector of a withheld file survives the run that finds the secret |
| vector store | points of the files on record, and no others |
| watching | every change in a watched tree is followed by a run that sees it |
| chunkers | no text is lost; a chunk's text is what its lines hold; fences stay whole |
| embedding | every text gets its vector, in order, or the call raises; where the provider counts, nothing is counted that it did not charge |
| graph | edges are those of the text on record; what is counted as resolved leads to a file of the index or has the path of one since forgotten, and never to one of another repository |
| store copies | what the manifest claims of a space is in it; a mirror has what its source had |
| search | an answer is as full as its limit once the indexes are built, and no text in it is out of date unmarked (but for the files named in section 5) |
| registry | all that was opened is closed, and nothing before its last user ended |

The hazards are listed, line by line, in `PROJECT.json`.

## 2. The modules

| module | models | state |
|---|---|---|
| `Manifest` | the manifest as a value: one operator per method (`DecideFromStat`, `DecideFromHash`, `Touch`, `DiffChunks`, `RecordAll`, `ForgetFile`, `Orphans`) | none |
| `Indexer` | runs over a changing workspace: walk, ladder, flush, purge, removal, crash; the outside world | below |
| `Watcher` | the watchers of all workspaces, their events, reloads and reindexes under one lock; the outside world | below |
| `Resolvers` | the import, namespace and route resolvers and the origin of an edge, as operators over a set of paths | none |
| `Scanners` | what the import, namespace and route scanners get out of a syntax tree | none |
| `Graph` | the graph tables through runs: record, backfill, retire, decline, resolve, classify; edits, parse failures, crashes | below |
| `EdgeLife` | what may become of an import edge between two records of its file | the manifest's rows and the edges |
| `Impact` | what the impact and coverage tools answer from those tables | `Graph`'s |
| `Chunking` | the text and the markdown chunker, over the lines of a file | the file and its chunks |
| `EmbeddingContract` | what a caller of `embed_documents` is promised | the call and its reply |
| `Embedding` | the embedding service, and the runs of the processes that use it | below |
| `Stores` | one manifest and several collections: index, mirror, reproject, removal, crash | below |
| `Search` | one MCP search call, from the gate to the packed response, beside edits and reindexing | below |
| `Registry` | what serve, watch and index open, share and close | below |
| `MCIndexer`, `MCWatcher`, `MCGraph`, `MCEmbedding`, `MCServices` | instances for TLC; `MCServices` sets four components side by side | `focus` |
| `IndexerProofs` | theorems on `Indexer`: the order of its writes, what removal may touch, what a completed run leaves | |
| `GraphProofs` | theorems on `Graph` and `Impact` | |
| `StoresProofs`, `EmbeddingProofs`, `SearchProofs` | theorems on `Stores`; on `Embedding`; on `Search` | |
| `ChunkingProofs` | theorems on `Chunking` | |
| `WatcherProofs` | theorems on `Watcher` | |
| `ServicesProofs` | theorems on `Registry`, and on the four services side by side | |

### Variables of `Indexer` and the code

| variable | code |
|---|---|
| `disk`, `clock`, `mounted` | the filesystem; `disk[f] = None` also for a file that the ignore rules, the size limits or the lockfile list exclude |
| `configured`, `version` | `workspace.roots` and each chunker's `version`, both fixed while a program runs |
| `manifest`, `store` | the committed manifest; the point ids of each space's collection, per file |
| `pc`, `opts` | where `_index` is; the arguments of `run` and the active space |
| `roots`, `unwalked`, `unobservable`, `stat` | the walk: roots to come, entries of the current root to come, `unobservable_roots`, the `mtime` of each candidate. `Seen` is `seen` |
| `todo`, `pending` | candidates to prepare, and `pending: list[PendingFile]` |
| `condemned`, `victim` | `purged`, then the surviving `candidates` of `_remove_orphans`; the file between `delete_by_path` and `forget_file` |
| `aborts` | how many runs were stopped: a bound |
| `steady`, `observed`, `before` | history for the properties, read by no guard |

### Actions of `Indexer` and the code

`StartRun` is the call of `run`.  `WalkRoot`, `WalkFile` and `WalkMisses` are
the two loops of the walker and its `except OSError` branches.  The `Prepare*`
actions are the ways through `_prepare`: skipped by `stat`, vanished, failed,
withheld, touched, queued; the queue action flushes as soon as the buffer is
full.  A flush is three actions, one for each call that leaves the process:
`Upsert`, `DeleteStale`, `Commit`; `AbortUpsert` stops between two batches of
the first.  `Commit` is one step because `begin` and `commit` are one SQLite
transaction.  `EndPrepare` starts the purge, `PickOrphans` computes the orphans
and applies both brakes, and `DropVectors` and `ForgetVictim` are the two calls
of each removal.  A dry run goes from the last file straight to `FinishRun`.
`Abort` stops a run anywhere.  Choices that the code makes in a fixed order but
that nothing depends on (the order of roots and of directory entries, the order
of removals) are left open.  `KeptByBrake` are the rows the second brake keeps:
of files the walk has not `Seen`, and of no others.

Files, contents and chunk ids are abstract.  A chunk id is a hash that includes
the file's root and path, so ids of two files never meet: chunks are kept per
file, and `Split(content, chunker, version)` is any function.  What a run makes of
a file is nevertheless a set (`Produced`): a code file whose grammar cannot be
had, or in which it finds nothing, is cut as text (`Degraded`).  Its row names the
code chunker and its version all the same, so no release of the text chunker
redoes it, and what is `Standing` of such a file may be an older release's.  A content stands
for its sha256, and the mtime for the pair of mtime and size; an edit always
gets a fresh one (a tool that restores an old mtime over different bytes of the
same size is invisible to rung 1 by design).

### Variables of `Watcher` and the code

| variable | code |
|---|---|
| `disk`, `yaml`, `changes` | the filesystem, a directory at a time (the value is the change that made its content); `workspace.yaml` as the excludes it configures, `None` while half written |
| `pc` | where the task of a workspace is: in `run` before `_watch`, in `awatch`, waiting for the lock in `reindex`, in `indexer.run` |
| `config` | `_config`, `_debouncer` and `_scope`, which are only ever replaced together |
| `watched`, `events` | the watches the library holds, and the events it has gathered since its last batch |
| `rescope` | `_rescope` |
| `queue`, `current`, `unread` | the labels `handle_changes` has left, the one it is reindexing, and the directories that run has not come to |
| `lock` | the `asyncio.Lock` of `watch` |
| `indexed` | what the index of each workspace holds of a directory, per root |
| `failures` | a bound |
| `excused` | history, read by no guard: directories whose last change nobody heard, that a rule in force excluded, or that a failed run had not come to |

### Actions of `Watcher` and the code

`StartWatch` is the loop body of `run` up to `_watch`.  Nothing leads back to it:
`awatch` ends when its stop event is set, and `watch` gives none.  (A crash of
the library ends the process.)  `HandleChanges` is one call of `handle_changes`
up to its loop over the labels: the rescope flag and the debouncer by the old
configuration, then the reload, which swaps all of it or, if the file cannot be
used, nothing.  `Acquire`, `Read`, `FinishReindex` and `FailReindex` are that
loop: `reindex` of cli.py takes the lock, runs the indexer and logs a failure.
`Read` is Indexer's `RunConverges`, the property that a completed run leaves of
each file what is on disk, weakened to directories and to some moment of the run;
a directory that is gone leaves the index, or the brake keeps it.  `OwnWrites`
are the writes of a run to its own manifest, if that lies in a root.

`Edit`, `MakeDir`, `RemoveDir` and `WriteConfig` are the world.  An event reaches
a watcher if its directory is watched and the filter lets it pass; the filter,
like the indexer, was built with the configuration the program started with
(`Initial`), while the debouncer has the latest.  The order of labels, which the
code sorts, is left open.

### Graph: variables, actions and the code

| variable | code |
|---|---|
| `disk`, `edits`, `configured` | the files as syntax trees; the roots of the workspace |
| `rows` | `files`: the content a row was written for, and its `graph_version` |
| `imports`, `spaces`, `routes`, `calls` | the tables `imports`, `namespace_declarations` and the two kinds of `route_edges`, with `resolved_path` (`to`), `resolved_by` (`by`) and `origin` |
| `pc`, `scope`, `seen`, `todo` | where the run is, `--root`, what the walk listed, what it has not taken yet |
| `stale`, `batch` | the files of an older `graph_version` still to read; those read and not yet written |
| `steady`, `torn` | history: files nobody touched in this run; files stamped after a read that failed to parse, or that was not of the recorded bytes |

`IndexFile` is `_record` of one changed file (`Indexer` has the rest of that
file's run); `IndexFileBlind` the same when the grammar cannot be had: the
scanners return nothing and the file is stamped all the same.  `Rescan`,
`RescanFails`, `RecordRescanned` are `_backfill_graph`, which reads outside the
transaction it writes in.  `Retire`, `Decline`, `ResolvePath`,
`ResolveNamespace`, `Classify`, `ResolveCall` are the passes of
`_resolve_imports`; where a pass is a loop of autocommitted updates it is one
action per row, and where it is one statement it is one action.  `Abort` stops a
run between any two.

What an edge leads to is told apart from what it says: `Named` is what an answer
lists, the recorded path as it stands or the files of the namespace; `Reached` the
files of the index among them; `Dangling` an edge whose path is of none; `AnswersTo`
what the resolvers would say of it now.  `Impact`'s `Report` takes the lists it is
put together from as arguments, because `_build` reads them in separate SELECTs
with no transaction around them, between which another process may commit; what is
said of answers is said of each list in the state it was read in.

A path is a record of root, directories, stem and extension, and its first
directory is its repository; a module name is a sequence of segments.  The
resolvers are written as sets of candidates with the one the code would find
first, over segments instead of strings.  Where SQLite's LIKE or a call of `lower()` takes
no notice of case, the model compares by `Lower`.

### Chunking and the code

A file is a sequence of lines; a line is a value with a length, a heading depth
and whether it opens or closes a fence.  `SplitIntoBlocks`, `PackBlocks`, `Merge`,
`Divide`, `ByLines` and `Sections` are the functions of `block_splitter.py` and
`markdown_chunker.py`, written as folds where the code has a loop with a buffer; the
body of each loop is an operator (`ReadLine` over lines, `AddBlock` over blocks,
`AddLine` over the lines of what is cut, `ReadSection` over those of a file).  `EstimateTokens` rounds as Python does (halves to even).  The one
action adds a line and chunks the file again, so a run sees every file of up to
`MaxLines` lines.

### Embedding: variables, actions and the code

`asked` and `tasks` are a call of `embed_documents` and the coroutines it gathered,
with those of earlier calls that nobody cancelled; `slots` is the semaphore,
`meter` `EmbeddingStats.tokens`, `estimated` its `estimated_token_requests`, `ledger`
the tokens column of `runs`, `billed` what the provider charged.  `Serve`, `ServeNarrow`, `Retry`, `Fail` are what a
request may come to (served, served with vectors of the wrong width, lost and
retried, refused or out of attempts), and a lost one may have been charged.
A served request is counted as the provider reports it (`Charged`) or, where it
reports nothing, as the code estimates it (`Tokens`), which may be more.  `Answers`
are the vectors of the batch, or one too few, or one too many: the code compares
totals over all batches.  `Return` and `Raise` are the end of `gather` and that
comparison.  `NewProcess` ends the process
anywhere.  Every batch is one request, and the count the provider reported is
read without an await in between, so the code's `last_tokens` cannot mix two.

### Stores: variables, actions and the code

`row`, `marks`, `chunkRows` are the three tables, `points` the ids in each
collection of each backend, `held` the file between the calls of its flush,
`victim` the one between its two removals, `copying` a `mirror` or `reproject` with
its place in the scroll and its unwritten page.  The ladder is reduced to
"needs work" (module `Indexer` has it), and the three calls of a flush and two of
a removal are kept apart.  `kept`, `ever`, `raced`, `lost`, `spoiled` are history.

### Search: variables, actions and the code

`disk` and `head` are the working trees and HEADs of a main checkout and a linked
worktree, `indexed` the collection, `built` the branches whose search index Mongo
has built, `rankFusion` the store's `_rank_fusion`.  A branch that is being built
finds nothing, which is what `mongo_store.py` logs and its tests say of it, or the
call raises, which is what it provides for around `$rankFusion`: the model has both.  A call goes through `stage`s, one
per await: the store (for Mongo `RankFusion` or, after `NoRankFusion`, `DenseBranch` and `TextBranch`), `Rerank` or `KeepOrder`, `MarkStale`, `Lens`.  Between them `Write`,
`Commit`, `AddTree`, `Reindex` and `Build` change the world.  `CallRaises` ends a call
in an error.  The filter dialects, the rankings and `Pack` are operators; the order in
which a branch ranks the chunks is given, and what the code sorts is picked in order by
counting (`Picked`).  `Diverged` are the answers git may give the lens: a file that was renamed
in the worktree is listed by its new name only, each file being taken for the old
or new name of at most one other, and a `Quoted` name is listed as something that is
no path.  `held`, `dirty`, `moved`, `stable` and `ready` are history, kept with the
call: what was true of the world at some moment of it, which files were renamed,
and whether the vector index was built when it was made.

### Registry: variables, actions and the code

`opened` and `closeCalled` are handles: a manifest and a store per workspace, and
the client that Qdrant stores of a registry share.  `phase`, `at` and `stage` say
where the command, the loop over workspaces and the construction or the closing
of one of them are.  `BuildFails` is an exception in any constructor, with the
cleanup of `from_config` and `_abandon`; `CloseStoreRaises` one in a close.
`WatcherStops`, `WatcherCrashes`, `WatcherCancelled` are the tasks of `watch`'s
TaskGroup.  `skipped` are the handles a cleanup says in the log it leaves.

### Order and composition

`Manifest` is written as operators rather than as a machine of its own because
it never acts: the modules that use it hold it in a variable.  `Indexer` extends
it.  `Graph` extends the scanners and resolvers, and `Impact` extends `Graph`: it
asks its questions of every state the runs reach.  `Graph` repeats of a run what
writes its tables and takes the ladder for granted; `Indexer` has the vectors of
the same run.  `Embedding` implements `EmbeddingContract` (below), which is all
that `Indexer` uses of it: its `Upsert` may follow, or the run aborts.  `Graph`
implements `EdgeLife` in its table of imports.  `Stores`
needs two spaces and two backends at once and so keeps the flush in short form.
The four modules of `MCServices` (`Chunking`, `Stores`, `Search`, `Registry`) share no
state; the instance lets one of them move per behaviour, so its states are the sum
and not the product of theirs.  `Embedding`, which needs fairness, has an instance
of its own.
`Watcher` stands on `Indexer` through one property: its `Read` steps are what
`RunConverges` says of a completed run, so it does not repeat the ladder.

## 3. What TLC checks

### Passing runs

**ladder** (`IndexerLadder.cfg`).  Two code files in one root, four contents
(two that share a chunk, one with a secret, one that does not decode), plain,
forced and dry runs, one upgrade each of the code and the text chunker, grammars
that cannot be had, a root that is dropped from the configuration and added again,
single files that fail to be listed or prepared, three edits.  `TypeOK`; `RunConverges`: a run that
completes has made row, chunks and vectors of every file that nobody touched
meanwhile equal to what is on disk; `StoreMatchesManifest`: between flushes the
two databases agree on every file.

**removal** (`IndexerRemoval.cfg`).  Three interchangeable files in a root whose
volume comes and goes and one file in another root; plain runs, and runs with
`--root` and `--allow-deletes`; the floor of the second brake at 1, so that its share decides and
every boundary (none, a third, a half, all) occurs.  `RunConverges` again,
because removal is part of it, and because the live files of a root must be brought
up to date by the very run that the brake keeps from removing the others; `LiveFileKept`: a file present and indexable from
the start of a run is not removed by it; `AbsentRootKept`: a configured root
never seen loses nothing; `MassDeletionQuestioned`: without `--allow-deletes` no
run forgets half of a root unseen.

**recovery** (`IndexerRecovery.cfg`).  Two files in two roots, plain and forced
runs, two of which may stop between any two calls.  `RecordedAfterStored` and
`VectorsNeverStranded`: the two directions of the write order;
`ForcedRunRepairs`: a completed forced run has every vector of every file nobody
touched, whatever was lost before; and, under fairness, `ManifestConverges`: when
edits and crashes are over, the manifest comes to describe the disk.

**watcher** (`Watcher.cfg`).  Two workspaces, one with the trees `src` and `docs`,
the other with `src`; a subdirectory that comes and goes and that the user may
come to exclude, and one that holds our own files and is excluded by the program;
three changes of the world and one reindex that fails.  `NoChangeLost`: of
whatever a watcher heard, either the index has it or an event or a queued root
is on its way that will; `CatchesUp`: when the changes stop, the index has all of
it and the configuration in force is the one on disk; `FallsQuiet`: then
reindexing stops.

**graph** (`Graph.cfg`).  Three small workspaces: C# files in two repositories of
one root, of which one declares what the other only copies; Python modules of
which two can answer an import; and a page in one root that imports by emitted
name and calls an endpoint served in another.  Two edits or deletions, one run
that stops between any two steps, a manifest from before there was a graph, runs
of one root.  `EdgesCurrent`: a completed run leaves the edges of what is on disk;
`FlagsAgreeWithJoins`: a using that counts as resolved reaches a file of the index,
whatever has come or gone since, an edge that does not is one no resolver could
answer now, and what is on record as first-party is what is counted or relative; `StaysInUnit`;
`EdgesLiveOnce`, the refinement `Life!LifeSpec` (`records` is `rows`, `edges` is
`imports` without the origins): an answer is given to one edge and stays, unless it
was by namespace, until the manifest's row of its file changes, with which all
edges of the file go; `BothEndsAgree`: who uses a file and what it depends on are
one relation; `NeverTheWrongFile`: an ambiguous path is answered with no file;
`RateIsHonest`: the columns add up, and 100% means that every first-party edge reaches
a file of the index, or has the path of one that was forgotten (which
**dangling_target** is about); and, under fairness,
`EdgesCatchUp`.

**services** (`Services.cfg`).  Four components side by side.

* *Chunking*: every file of up to five lines of seven kinds (empty, short, longer
  than the budget, heading, fence with and without info string, indented), as
  markdown, text and structured text.  `EveryLineIsInAChunk`, `TextIsAtItsLines`,
  `CutsAreWhereTheyMayBe`: over the budget is only what cannot be cut, and a fence
  is cut only where it shares a group with other text (section 5).
* *Stores*: two files, two spaces, two backends, two copies, one of which may be
  killed, as may the indexer.  `ClaimedIsStored`: rows claim only points that are
  there, through `reproject`'s scroll and two statements; `MirrorHoldsSource`.
* *Search*: two files in two checkouts, one of which may not be there at first and
  one of which git quotes; two steps of the world during a call, so that a file may
  be renamed in it.  `UnflaggedIsCurrent`: a result without the stale flag holds,
  where it says it is, the text it was matched by, or did at some moment of the call,
  but for the worktree copies of three kinds of file (section 5); `AnswerIsFull`, of
  calls that were made when the vector index was built; `DialectsAgree`; `ResponseFits`.
* *Registry*: three workspaces.  `NothingLeaks`, `NoUseAfterClose`,
  `OneEmbeddedClient`.

**embedding** (`Embedding.cfg`).  Two calls, batches of two texts, two permits, two
attempts, two processes; a provider that reports its count or does not, and an
estimate above it; answers that are short, too long, narrow or lost.  `BatchesFillUp`;
`MeterIsAFloor`, for as long as nothing was estimated; and the refinement:
`AlignedOrRaised` is `Contract!ContractSpec`, with `asked` and `reply` mapped to
themselves: whatever tasks do, the call is asked and delivers its texts' vectors
in order or gives up, and does one of the two.  `overrun` is mapped to "a batch of
the call was answered with a vector too many": of such a call the contract
promises the number of vectors only, since the run has one that makes up for a
short one.  The type of `Embedding` (with its permits) is not among the
properties, as it is proved (`EmbeddingTypes`).

### Bounds

`MaxClock` (edits), `MaxAborts` (stopped runs), `MaxVersion` (chunker versions)
bound the counters; the number of runs is not bounded.  Two files are enough for
the flush because files meet only in the buffer (`FlushChunks` is 3, so that one
file stays behind and two overflow it) and in the counts of the brake, for which
the removal run has three and one.  Three edits let a file be made, changed and
made back; two stopped runs let the second one act on what the first one left.
`MaxVersion` 3 is one release each of the code and the text chunker.
`Alike` permutes the files of the large root, which `RootOf`, `KindOf` and the
options do not tell apart; it is used only where no liveness is checked.

In `Watcher`, `MaxChanges` (changes of the world: a save, a torn save and a whole
one, or a directory made, edited and removed, take three) and `MaxFailures` bound
the counters; reindexes are not bounded.  Two workspaces are what a lock needs to
be contended; one of them has two roots, so that a batch can queue two.  `Heavy`
(`UNWATCHED_DIRS`) is empty in the runs: a heavy directory is one more that is
not watched, like the excluded one.  `CHECK_DEADLOCK` is off because every
watcher waits when the changes are over.

In `Graph`, `MaxEdits` 2 lets a target go and come back or importer and target
both change, `MaxAborts` 1 lets one run start from tables another left; runs are
not bounded.  `BackfillBatch` 2 makes one full batch and a partial one.  In
`Chunking`, `ChunkBudget` is three tokens of four bytes: two short lines fill it by
estimate and exceed it with the blank line between them, which is what the
splitter's arithmetic is about; five lines hold a fence between two paragraphs.
In `Embedding`, `MaxCalls` 2 is a failed call and the next one, which is when tasks
of two calls are under way; the second process is there for the counters to
start over.  In `Stores`, `PageSize` 2 of four ids gives full and partial pages,
`MaxCommands` 2 a copy and its repetition, `MaxEdits` and `MaxCrashes` are 1 each.
In `Search`, `Candidates` 2 and `PrefetchLimit` 3 lie between the limits 1 and 3, and
`MaxTokens` 5 between one body and two; `MaxWorld` 2 puts two changes between the
steps of a call, which is what a rename takes.  The file that git quotes is the one
that cannot be judged anyway, so that nothing is excepted of the other.  `Registry` has no bound but the number of workspaces.

### Fairness

`WF_vars(Progress)`: a run that has been started is a program that is executing,
and each of its steps is a call that returns or raises.  `Abort` and the single
failures are not part of it.  `SF_vars` of starting a plain run of everything:
the operator (or a scheduled job) runs `index` again and again; strong, because
each run makes starting impossible while it lasts.  Nothing is assumed of edits
and crashes; they end because their bounds end.

In `Watcher`, weak fairness of a watcher's own steps: they are tasks of one event
loop, which runs every task that can run; the library delivers what it gathered.
Strong fairness of `Acquire`, because an `asyncio.Lock` wakes its waiters in the
order they came, so none is passed over for ever.  `FailReindex` has none.

In `Graph`, as in `Indexer`: a started run goes on, whole runs are started again and
again (strong, as a run under way disables it), and (strong) a read of a stale
file that may fail in one run succeeds in one of them.  `EdgesCatchUp` excuses
`torn` files, for which the code has no such second chance.  In `Embedding`, weak
fairness of the tasks and of the call that awaits them: the event loop runs what
is ready, and the HTTP client has a timeout, so a request comes to something.

### What the code's own words say and the code does not do

**crash_loses_vectors** refutes `MarkedDoneIsStored`, the comment in `_flush`: "a
crash leaves work to redo rather than a file marked done with nothing stored".
True of a crash between upsert and commit; but deletions also run before the
manifest, so a crash after `delete_by_path` and before `forget_file`, followed by
the file's return with its old bytes, leaves it marked done with nothing stored
until `--force`.  **swap_back_is_stale** refutes `ActiveSpaceCurrent`: the hash on
record belongs to no space, so a file edited while another space was active is
skipped when the first one returns.

**own_writes_spin** refutes `FallsQuiet` where the manifest lies in a watched root:
the hard-coded excludes, which are to keep the program from waking itself, name
`*.sqlite3` and `*.sqlite3-journal`, but the manifest is in WAL mode and what a run
writes is `*.sqlite3-wal`.  In the instance `StateDir` is a directory none of the
excludes covers.  **new_directory_unwatched** refutes `NewDirectoryWatched`, the
reference's "one appearing rebuilds it": the flag is read only when `awatch` ends,
and it does not.

**dangling_target** refutes `NoDanglingTarget`, the comment of
`_retire_stale_namespace_edges`: "A path edge needs no equivalent: deleting its
target cascades the row away".  The foreign key of `imports` is that of the
importing file; the target is text, and the note on coverage counts it among the
edges that "resolve to an indexed file".  The instance has no crash and no failed
parse: resolve an import, delete its target, run again.

## 4. What is proved

Every theorem is about all values of the constants that satisfy the assumptions
named in the component's module; TLC evaluates those assumptions on every run.
They say what kind of value a constant is, that a "nothing" value is none of the
values it stands for the absence of, and that sets the code counts are finite.
What else a theorem assumes stands in its statement and is explained below.

### The index run

`IndexerProofs` proves, for any number of files, roots and spaces, any chunking
function that gives the opaque chunker no chunks, any set of invocations, any
number of edits and crashes:

* `TypeCorrect`: `Spec => []TypeOK`.
* `RecordedAfterStoredHolds`, `VectorsNeverStrandedHolds`: the write order.
  Neither action property is provable from the type alone: whether a commit
  records only stored chunks depends on the delta that was computed when the file
  was prepared, possibly long before.  The inductive invariant `WriteInv` says
  that a pending file is pending once and is no longer a candidate, that its delta
  is still the difference with the manifest, and, per phase of the flush or the
  removal, what has reached the store.  `WriteInvariant` proves it; each action
  property follows by looking at the three steps that write chunk rows.
* `LiveFileKeptHolds`, `AbsentRootKeptHolds`: what removal may touch.  Their
  inductive invariant, `RunInv`, follows a live file through the walk (its root
  is still to come, or it is still to be listed, or it has been) and a root that
  was never there (it is still to come or is noted as unobservable), and says that
  neither is ever condemned.

It goes on from there to the end of a run:

* `MassDeletionQuestionedHolds`.  The brake counts once, before the first removal,
  and the property counts after the last.  `MassInv` says what stays true between:
  what a root has lost together with what is being removed from it is below the
  floor, or less than what stays.  Cardinalities are the library's; the files are
  a finite set and the floor (`_MIN_DELETIONS_TO_QUESTION`) is not zero.
* `ForcedRunRepairsHolds`, without further hypotheses: other spaces, crashes and
  lost vectors are what `--force` is for.  `ForceInv` says that a forced run has
  the vectors of every file it came to, or holds all of them in its buffer.
* `StoreMatchesManifestHolds`, for runs that all use one space and none of which
  is stopped.  The findings of section 3 show that neither can be dropped:
  **crash_loses_vectors** stops a run and **swap_back_is_stale** uses two spaces.
  `MatchInv` says, for each call of a flush or a removal, which of the pending
  files it has done.
* `RunRecords` and `RunConvergesHolds`: what a completed run leaves of a file nobody
  touched.  `RunRecords` is the manifest's half and allows any number of stopped
  runs; `RunConvergesHolds` adds the vectors and so also assumes that none was.
  Excepted are the rows of files the walk did not see and the second brake keeps
  (`KeptByBrake`); of the files it saw, a braked root's are brought up to date like
  any other's, whether their grammar can be had or not.
  The invariant, `RecordInv`, follows a file through the run: the walk comes to it
  and takes its mtime (`WalkInv`), the ladder leaves it settled, in the buffer or
  on record (`LadderInv`), and if it is gone it is without a row, or about to lose
  it, or held back by a brake (`GoneInv`).  Rung 1 skips by the mtime, so all this
  stands on `RowsInv`, which is about all runs before: a row with the mtime that
  is on disk has the content that is on disk, and its chunks are those of that
  content, chunker and version.  `PdfVersionSettled` is the third hypothesis: the
  version that the ladder compares for a PDF is the text chunker's, so a release
  that changes only the PDF chunker's leaves the file as it is.

### The graph and its answers

`GraphProofs`, for any paths, trees, grammars, edits, failed parses and stopped
runs:

* `GraphTypes`.  The type is inductive only together with `BackfillInv` (what the
  backfill has read is of files still on record) and `ResolvedInv` (which pass may
  have answered which edge), since a later pass reads what an earlier one wrote.
* `ImportsStayInUnit`: a path edge by `ResolvedInv`, a namespace edge by the join.
* `CoverageAgreesWithAnswers`: a using counted as resolved has a file of the index in
  its join, an edge left over has no answer, origins follow from both.  Nothing is said
  of a recorded path, which no pass looks at again.  `PassInv` says of each pass what
  it has left to those after it, so that the last one can be read together with the
  first.
* `ImportsLiveOnce`: `Spec => EdgesLiveOnce`, the whole refinement.  The code says of
  an answer that it should "never" be written "over an existing answer", and writes
  by file and module, sometimes with the directive form, sometimes without.  That
  this comes to one edge, the undecided one that the query offered, rests on `KeyInv`:
  a file has one row of an edge, and only a C# file has two forms of a module
  (`OneEdge`).  That edges are never replaced under an unchanged row, nor kept under a
  changed one, rests on `OldInv`: the backfill rereads files no newer release has
  stamped, so its stamp is a change.
* `CompletedRunIsCurrent`: `RecordedInv` says that outside the torn files the
  tables hold what the scanners get from the content on record, and `ProgressInv`
  how far the run is with a file nobody touched.

It proves of `Impact`, which reads what the same runs wrote, `DirectionsAgree`, `AnswersTheFileAskedAbout`
and `RateIsWhatItSays`: the first from `ResolvedInv`, as the two queries
join the same tables from opposite ends; the last from `PassInv` and from the
arithmetic of the percentage, which the code floors unless everything resolved.  It
says of 100% what the code bears out: every first-party edge reaches a file of the
index or has the path of one that was forgotten.

### Chunking

`ChunkingProofs`, for any lines with any lengths and headings, any budget, any bytes
per token, any overlap, any number of lines: `NoLineIsLost`, `ChunksAreWhereTheySay`,
`OnlyWhatMayBeIsCut` and `ChunkingType`.  All follow from `FileMeaning`, which says what
`ChunksOfFile` returns of any file; the state only holds it (`ChunksAreOfTheFile`).
The argument goes along the calls, one invariant for each fold:

* A text `Lies` in another at a line; a block is `Placed` in a file if its text lies at
  its first line and it starts and ends with text.  `SplitParts`: the blocks that
  `SplitIntoBlocks` reads are placed one after the other, with nothing but empty
  lines between them (`Parts`).
* `GroupInv`: the group being filled is a run of neighbouring blocks that ends with the
  last one read, and what was packed before covers the others.  What is carried over
  is the end of the group before without its fences, and stays a run because the
  program never does both: the markdown chunker, which has fences, carries nothing
  over, and the text chunker, which carries paragraphs over, reads no fences.  So
  `_merge` never meets blocks out of order, for which it provides, a merged group is
  placed too (`MergePlaced`), and the blank lines it restores are those of the file.
* `Tight`: without overlap the blocks of a group of several are each below the
  budget, by an estimate that `EstimateMeaning` bounds from both sides, since Python
  rounds halves to even.
* `ByInv`: the pieces a group is cut into are placed and cover it, and each has at most
  the budget in bytes or is a single line; `Costs` counts bytes with a function from
  positions to sums (`PieceFits`, `FenceInDivided`).
* `SecInv`: sections are placed (`SecAt`) and each `Extends` to the next; in a section
  that begins with empty lines the numbers are off by as many, which is why only such
  a file's preamble is excepted.

The folds go by `Folding`, `Keeps` and `Run` of `EmbeddingProofs` (below).

### Copies and embedding

`StoresProofs`, for any files, revisions, order of points, page size, and any
number of copies and kills:

* `StoresTypes` with `HandInv`: what is done for a file is done to its own ids.
* `MirrorsAreComplete`: `CopyInv` says that what was in the source all along and
  lies behind the scroll was copied or is in the page in hand.
* `ClaimsAreStored`: `RouteInv` (a copy no indexer raced has seen what is there now),
  `WorkInv` (which ids a flush under way has yet to write or delete) and `ClaimInv`,
  which is the property with its excuses made precise, step by step.

`EmbeddingProofs`, for any texts, limits, permits and attempts, and any order in which
tasks come to an end:

* `BatchesAreFull`: about a fold over texts of any number.  The library's induction
  theorems are out of reach (below), so `CountUp` states induction with a set in
  place of a predicate, from the least number not in it; `Folding`, `Keeps` and `Run`
  say with it what a fold is at each position.
* `NothingOverCounted`, with `SpendInv`: while the provider has reported every count,
  what was counted has been charged.  With the first estimate the claim ends.
* `ServiceKeepsContract`: the safety part of the refinement `AlignedOrRaised`.
  `Embedding` starts as `EmbeddingContract` does, and each of its steps is one of the
  contract's or leaves the call and its reply alone.  `TaskInv` is what makes a
  `Return` deliver: the call's tasks are its batches, one each, and a task that is
  done has its batch's vectors, or is one short and found out, or has one too many, and
  then the contract promises only as many vectors as texts.
* `EmbeddingTypes`.  The semaphore's count is typed by `PermitInv`: the permits left
  and the tasks that hold one add up to `MaxConcurrency`, whatever call a task is of
  and however it ends.

### Search

`SearchProofs`, for any files, texts, rankings, costs and limits, and any edits,
commits, worktrees and index runs between any two awaits of a call:

* `DialectsMeanTheSame`: a filter selects the same chunks as Qdrant conditions, as a
  `$match` stage, as a `$vectorSearch` filter and as an Atlas Search compound.
* `UnflaggedIsCurrentHolds`, `AnswerIsFullHolds` and `ResponseFitsHolds` rest on one
  invariant, `SearchInv`, about the call under way.  `Watching`: what it remembers
  covers what is there now, renames and uncommitted changes included, and the vector
  index, if it was built when the call was made, still is.  `Judged`: a hit that was judged and not flagged was in the
  main checkout's file, and still is unless that file was, at some moment of the call,
  not committed; without the second half the worktree's comparison with HEAD says
  nothing of the hit.  `Enough`: how many hits each stage holds, against a number of
  matching chunks that can only shrink, for the calls to which a full answer is `Owed`.
  What `Diverged` leaves out is a renamed file's old name or a quoted name, so a hit
  the lens leaves unmarked is of one of those or of a file that the worktree has as
  the main checkout's HEAD has it.  One lemma (`WorldKeeps`) covers all steps of
  the world, one (`StepKeeps`) all stages of the call.
* `SearchTypes`.

What the stages return is in lemmas of their own.  A ranking is a sequence picked from
another by counting (`Picked`): `Numbered` says that counting up to a member numbers a
finite set of numbers, and `PickedSeq` what is picked.  From them, `TopIsFull` (the
filter runs before the cut), `FuseMeaning` (no two chunks share a place: the score
decides, then the id; so fusion loses none) and `AttachMeaning` (a reranker reorders
and drops nothing).  `PackMeaning` follows the fold over the hits with `PackInv`: what
was charged is within the budget but for a first location, a clipped body uses up what
is left, so it is the last.

### Watching and handles

`WatcherProofs` proves, for any workspaces, trees, rules, bounds (the only thing
assumed of the tree is that of the roots a directory lies in, one is deepest):

* `TypeCorrect`: `Spec => []TypeOK`.
* `NothingHeardIsLost`: `Spec => []NoChangeLost`.  `NoChangeLost` is nearly
  inductive: what it lacks is `QueueIdle`, that a watcher which takes a new batch
  has no root of the last one left, without which taking a batch could drop some.
  One lemma per action carries it: events become queued roots, a queued root
  becomes a run with every directory unread, and what is unread is read or its
  run has failed.

`ServicesProofs` proves of `RegistrySpec`, for any sequence of different workspaces:

* `NoUseAfterCloseHolds`: from `WatchInv`, that watchers are running only in the two
  phases of a TaskGroup and that `watch` has closed nothing before its closing.
* `NothingLeaksHolds`: from `PhaseInv` (which phases go with which place and stage)
  and `LeakInv`: what is open and was not reported is what the cleanup of the
  present phase will come to, be it `_abandon`'s, `from_config`'s or the loop of
  closes.
* `OneEmbeddedClientHolds`: from `ClientInv`: in a registry no store has a client of
  its own, and `index` has closed one store before it opens the next.
* `RegistryTypes`: a close is only called on what is open.  `OpenInv` says what the
  construction in hand, the contexts before it and the closing will find open,
  `HandleInv` that nothing is closed, skipped or watched that is not.

and of the specification that the run explores, in which the four services stand
side by side: `AllTypes` (`Spec => []TypesOK`) and `ServicesAreSafe`, that it has all
their invariants.  `EachIsItself` is why: whichever moves, each of them takes a step
of its own or none.

### What is only model-checked

`ManifestConverges`, `CatchesUp`, `FallsQuiet`, `EdgesCatchUp` and the fairness of
`AlignedOrRaised`: liveness is outside the prover.  Every other property that a
passing run checks is a theorem.  The findings are counterexamples, and TLC's.

## 5. What the models leave out, and what was noticed on the way

### Not modelled

`chunking.overrides`; how the code chunker follows the spans of a syntax tree (that it
may cut a file as text instead is in `Indexer`), and the PDF chunker, which hands pages to the block splitter; heading trails and
context headers; the classification cache (it repeats a deterministic verdict);
`forget_space`, which nothing calls; the `runs` table but for its tokens, and
`tool_calls` (reporting); `embed_query`, one request of the kind `Embedding` has;
Mongo's index creation and server-side reranking; facets; `check_staleness: false`,
which turns one stage of `Search` off; the patterns of the secret scanner, the
ignore rules and the grammars (text processing, abstracted to what they decide);
grounding, classification, evaluation and logging, which keep nothing that others
read.  `_warn_if_store_diverges` only logs.  Two indexers at once on one manifest.

Of watching: roots that a reload adds, removes or renames; linked worktrees;
polling instead of notifications, and the inotify budget; the changes of
single files within a directory; the first index run, which is taken to be done.

### Exceptions that properties name

Each of these is a way in which the code falls short of the property's plain
form; the property holds of everything else.

* A fence is cut when it was packed with other text: `pack_blocks` adds estimates of
  the blocks, the merged group is larger, it is not `atomic`, and `_by_lines` goes
  through the fence (`CutsAreWhereTheyMayBe`; `chunking/block.py` says "never cut
  through the middle").
* Before a markdown file's first heading, leading empty lines are stripped from the
  text and not from the line numbers (`ShiftedPreamble`).
* A file whose grammar could not be had for one read is stamped as scanned and is
  not tried again until it changes; a backfill may read other bytes than the row's
  (`torn`).
* A space derived by `reproject` while an indexer writes to the source may claim
  chunks that were never copied (`spoiled`).
* A worktree's result is compared with the main checkout's HEAD, "because HEAD is
  what the index reflects", and the index has the working tree
  (`UnflaggedIsCurrent`).
* Of a file that the worktree renamed (by `git mv`, or in a commit there), `git diff
  --name-only` prints the new name only, and a name with bytes outside ASCII is printed
  in quotes and escaped unless `core.quotePath` is off.  The lens points hits on such
  files at the worktree's copy unmarked, which for a rename does not exist
  (`UnflaggedIsCurrent`).  The docstring of `diverged` says "Paths, relative to the
  repository, that differ in `worktree`".
* While Mongo builds its vector index, that branch finds nothing, and an answer may hold
  what the text branch found, or nothing (`AnswerIsFull` speaks of calls that were made
  when it was built).
* A batch answered with one vector too many makes up for one that is short, as only the
  total is compared; the texts between them get the vectors of others
  (`AlignedOrRaised`).
* Where the provider reports no usage, the code's estimate is counted, which may be more
  than was charged (`MeterIsAFloor`).  The `runs` table does not say which it was.
* An import keeps the path of a target that was forgotten and goes on being counted as
  resolved (`RateIsHonest`, **dangling_target**).
* A code file that was cut as text for want of its grammar stays so until it changes or
  the code chunker is released again (`RunConverges` takes either cut).
* With a reranker, a limit above `rerank.candidates` gives no more than that many
  results, unless the reranker fails (`AnswerIsFull`).
* The store of a context that fails to build inside a running loop, and the manifest
  of one whose store does not close, are reported and left open (`NothingLeaks`).

### Other observations

* The tokens of the runs of one process add up to more than was charged, because each
  run records the process's total: `total_tokens_embedded` calls their sum "a floor on
  account usage".  `MeterIsAFloor` is about each run by itself.
* An impact report may mix two states of the graph, as its SELECTs share no transaction.
* The version the ladder compares is that of the chunker the extension suggests, the
  version on record that of the chunker that ran.  A `.txt` with a NUL byte is recorded
  by opaque (1) and compared with text (2), so it is read and re-chunked on every run,
  of which `tests/test_indexer.py` says that it must not be.
* For a PDF the ladder compares the text chunker's version (`_CHUNKER_FOR_KIND`, beside
  the registry's own mapping, which says `pdf`), so a new PDF chunker alone re-chunks
  no PDF (`PdfVersionSettled`).
* Resolutions by path and of client calls are never looked at again, so a better
  target that comes later is not taken.
* `copy_space` leaves what the target space had and the source has not; a purge
  clears the active space's collection only; the manifest knows spaces and not
  backends, so switching backend leaves rows without vectors.
* A failed `git worktree list` reads as "no worktrees", and a call that names none
  is then answered.
* After any `OperationFailure` a Mongo store does not try `$rankFusion` again.
* In `_sections` a fence line with an info string ends a fence; in the block
  splitter it does not.
* `_merge` provides for a group that "overlap" has put "out of order", and `_by_lines`
  for the text that results, of which the lines do not match; by `GroupInv` and
  `MergePlaced` neither occurs.
* Overlapping a paragraph makes groups that are over the budget and are cut again,
  so with one-line paragraphs a paragraph may be embedded twice.

## 6. Plan

What is left, the most consequential first.

1. Two indexers on one manifest and store.
2. The code chunker over an abstract tree of declarations.
3. A run for the cut fence, and one for the log line "settings and ignore rules are
   live", written after a reload of which neither the filter nor the indexer hears.
