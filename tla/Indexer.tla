------------------------------- MODULE Indexer -------------------------------
(***************************************************************************)
(* One index run after another over a workspace that keeps changing        *)
(* (src/workspace_indexer/pipeline/indexer.py, with the walker, the file   *)
(* reader and the vector store it calls).                                  *)
(*                                                                         *)
(* A run walks the roots, takes each file down the decision ladder, holds  *)
(* the files that need work back until enough chunks are buffered, and     *)
(* flushes them: vectors up, stale vectors out, manifest rows last, in one *)
(* transaction.  Then it purges files withheld for a secret, and removes   *)
(* what is recorded but was not seen, behind two brakes.                   *)
(*                                                                         *)
(* The filesystem belongs to someone else: files are edited and deleted,   *)
(* and roots come and go, between any two steps.  The store and the        *)
(* manifest are two databases with no common transaction, and a run can    *)
(* stop between any two calls.                                             *)
(***************************************************************************)
EXTENDS Manifest

CONSTANTS
  KindOf,             \* [Files -> Kinds], by extension: discovery/classify
  Undecodable,        \* contents that are not text, or a PDF with no text layer
  Secrets,            \* contents the secret scanner finds something in
  SecretAllow,        \* files the operator exempted from the scanner
  Split(_, _, _),     \* chunks of (content, chunker, version)
  MayDegrade,         \* code files whose grammar may be missing when it is wanted
  RunOptions,         \* the invocations that occur
  FlushChunks,        \* chunks buffered before a flush (256)
  MinDeletions,       \* deletions from one root worth questioning (10)
  MayFail,            \* TRUE if single files can fail to be listed or prepared
  InitialVersion,     \* [ChunkerNames -> Nat], the release first installed
  Upgradable,         \* chunkers whose version later releases raise
  MaxVersion,         \* bound: the last chunker version
  Reconfigurable,     \* roots the operator adds to or drops from the config
  Removable,          \* roots whose volume comes and goes
  MaxClock,           \* bound: edits the outside world makes
  MaxAborts           \* bound: runs that stop half way

Kinds == {"code", "markdown", "text", "pdf", "image", "opaque"}

Options ==
  [space : Spaces, scope : Roots \cup {None},
   force : BOOLEAN, dry : BOOLEAN, allow : BOOLEAN]

ASSUME IndexerAssumption ==
  /\ IsFiniteSet(Files) /\ KindOf \in [Files -> Kinds]
  /\ Undecodable \subseteq Contents /\ Secrets \subseteq Contents
  /\ SecretAllow \subseteq Files /\ MayDegrade \subseteq Files
  /\ RunOptions \subseteq Options
  /\ FlushChunks \in Nat \ {0} /\ MinDeletions \in Nat \ {0}
  /\ MayFail \in BOOLEAN
  /\ InitialVersion \in [ChunkerNames -> 1..MaxVersion]
  /\ Upgradable \subseteq ChunkerNames
  /\ Reconfigurable \subseteq Roots /\ Removable \subseteq Roots
  /\ MaxVersion \in Nat /\ MaxClock \in Nat /\ MaxAborts \in Nat

\* The opaque chunker records a file and embeds nothing.
ASSUME SplitAssumption ==
  \A c \in Contents, n \in ChunkerNames, v \in 1..MaxVersion :
    /\ Split(c, n, v) \subseteq Chunks
    /\ Split(c, "opaque", v) = {}

VARIABLES
  disk,           \* what is on disk: None also for a file discovery excludes
  clock,          \* the mtime of the last change
  mounted,        \* roots that are on disk
  configured,     \* roots in the workspace config
  version,        \* the versions the installed chunkers declare
  manifest,       \* the SQLite manifest, committed
  store,          \* the vector store: chunk ids per space and file
  pc,             \* where the run is
  opts,           \* its options
  roots,          \* roots still to walk
  unwalked,       \* files of the root being walked, not reached yet
  unobservable,   \* roots that were not on disk when the walk came to them
  stat,           \* mtime of each candidate, taken by the walk
  todo,           \* candidates not prepared yet
  pending,        \* prepared files, held back
  condemned,      \* files to remove
  victim,         \* the file whose vectors went and whose row has not
  aborts          \* runs stopped so far

\* What the properties remember of the run, and nothing reads.
VARIABLES
  steady,         \* files nothing has touched, and no step failed on, so far
  observed,       \* roots that were mounted at some moment of the run
  before          \* files recorded when the run started

outside == <<disk, clock, mounted, configured, version>>
run     == <<opts, roots, unwalked, unobservable, stat, todo, pending,
             condemned, victim>>
ghosts  == <<steady, observed, before>>
vars    == <<outside, manifest, store, pc, run, aborts, ghosts>>

Phases == {"idle", "walk", "prepare", "upsert", "delete", "commit", "purge",
           "orphans"}

OnDisk == [content : Contents, mtime : 1..MaxClock]

Pending ==
  [file : Files, row : Row, produced : SUBSET Chunks,
   upsert : SUBSET Chunks, delete : SUBSET Chunks]

TypeOK ==
  /\ disk \in [Files -> OnDisk \cup {None}]
  /\ clock \in 0..MaxClock
  /\ mounted \subseteq Roots
  /\ configured \subseteq Roots
  /\ version \in [ChunkerNames -> 1..MaxVersion]
  /\ manifest \in Tables
  /\ store \in [Spaces -> [Files -> SUBSET Chunks]]
  /\ pc \in Phases
  /\ opts \in Options \cup {None}
  /\ pc # "idle" => opts \in Options
  /\ roots \subseteq Roots
  /\ unwalked \subseteq Files
  /\ unobservable \subseteq Roots
  /\ stat \in [Files -> Nat \cup {None}]
  /\ todo \subseteq {f \in Files : stat[f] # None}
  /\ pending \in SUBSET Pending
  /\ condemned \subseteq Files
  /\ victim \in Files \cup {None}
  /\ aborts \in 0..MaxAborts
  /\ steady \subseteq Files
  /\ observed \subseteq Roots
  /\ before \subseteq Files

Idle ==
  /\ pc = "idle"
  /\ opts = None
  /\ roots = {} /\ unwalked = {} /\ unobservable = {}
  /\ stat = [f \in Files |-> None]
  /\ todo = {} /\ pending = {} /\ condemned = {} /\ victim = None
  /\ steady = {} /\ observed = {} /\ before = {}

Init ==
  /\ disk = [f \in Files |-> None]
  /\ clock = 0
  /\ mounted = Roots /\ configured = Roots
  /\ version = InitialVersion
  /\ manifest = EmptyManifest
  /\ store = [s \in Spaces |-> [f \in Files |-> {}]]
  /\ aborts = 0
  /\ Idle

-----------------------------------------------------------------------------
(* Everyone else.                                                          *)

Edit(f, c) ==
  /\ RootOf[f] \in mounted
  /\ clock < MaxClock
  /\ clock' = clock + 1
  /\ disk' = [disk EXCEPT ![f] = [content |-> c, mtime |-> clock']]
  /\ steady' = steady \ {f}
  /\ UNCHANGED <<mounted, configured, version, manifest, store, pc, run,
                 aborts, observed, before>>

Delete(f) ==
  /\ RootOf[f] \in mounted
  /\ disk[f] # None
  /\ disk' = [disk EXCEPT ![f] = None]
  /\ steady' = steady \ {f}
  /\ UNCHANGED <<clock, mounted, configured, version, manifest, store, pc,
                 run, aborts, observed, before>>

Unmount(r) ==
  /\ r \in mounted \cap Removable
  /\ mounted' = mounted \ {r}
  /\ steady' = steady \ FilesOf(r)
  /\ UNCHANGED <<disk, clock, configured, version, manifest, store, pc, run,
                 aborts, observed, before>>

Mount(r) ==
  /\ r \in Roots \ mounted
  /\ mounted' = mounted \cup {r}
  /\ observed' = IF pc = "idle" THEN observed ELSE observed \cup {r}
  /\ UNCHANGED <<disk, clock, configured, version, manifest, store, pc, run,
                 aborts, steady, before>>

\* Config and code are loaded when the program starts.
Reconfigure(r) ==
  /\ pc = "idle"
  /\ r \in Reconfigurable
  /\ configured' = IF r \in configured THEN configured \ {r}
                   ELSE configured \cup {r}
  /\ UNCHANGED <<disk, clock, mounted, version, manifest, store, pc, run,
                 aborts, ghosts>>

Upgrade(n) ==
  /\ pc = "idle"
  /\ n \in Upgradable /\ version[n] < MaxVersion
  /\ version' = [version EXCEPT ![n] = @ + 1]
  /\ UNCHANGED <<disk, clock, mounted, configured, manifest, store, pc, run,
                 aborts, ghosts>>

Outside ==
  \/ \E f \in Files, c \in Contents : Edit(f, c)
  \/ \E f \in Files : Delete(f)
  \/ \E r \in Roots : Unmount(r) \/ Mount(r) \/ Reconfigure(r)
  \/ \E n \in ChunkerNames : Upgrade(n)

-----------------------------------------------------------------------------
(* The walk.                                                               *)

Readable(f) == RootOf[f] \in mounted /\ disk[f] # None

Seen == {f \in Files : stat[f] # None}

InScope(f) == opts.scope \in {None, RootOf[f]}

StartRun(o) ==
  /\ pc = "idle"
  /\ pc' = "walk"
  /\ opts' = o
  /\ roots' = {r \in configured : o.scope \in {None, r}}
  /\ steady' = {f \in Files : RootOf[f] \in mounted}
  /\ observed' = mounted
  /\ before' = Recorded(manifest)
  /\ UNCHANGED <<outside, manifest, store, unwalked, unobservable, stat, todo,
                 pending, condemned, victim, aborts>>

\* Mutant: a missing root is logged and not remembered.
WalkRootOnlyLogs(r) ==
  /\ pc = "walk" /\ unwalked = {}
  /\ r \in roots
  /\ roots' = roots \ {r}
  /\ unwalked' = IF r \in mounted THEN FilesOf(r) ELSE {}
  /\ UNCHANGED <<outside, manifest, store, pc, opts, unobservable, stat, todo,
                 pending, condemned, victim, aborts, ghosts>>

\* One root at a time; a root that is not a directory is noted and passed by.
WalkRoot(r) ==
  /\ pc = "walk" /\ unwalked = {}
  /\ r \in roots
  /\ roots' = roots \ {r}
  /\ IF r \in mounted
     THEN unwalked' = FilesOf(r) /\ UNCHANGED unobservable
     ELSE unobservable' = unobservable \cup {r} /\ UNCHANGED unwalked
  /\ UNCHANGED <<outside, manifest, store, pc, opts, stat, todo, pending,
                 condemned, victim, aborts, ghosts>>

\* Mutant: an entry whose stat failed is a candidate all the same.
WalkFileUnchecked(f) ==
  /\ pc = "walk"
  /\ f \in unwalked
  /\ unwalked' = unwalked \ {f}
  /\ todo' = todo \cup {f}
  /\ stat' = IF Readable(f) THEN [stat EXCEPT ![f] = disk[f].mtime] ELSE stat
  /\ UNCHANGED <<outside, manifest, store, pc, opts, roots, unobservable,
                 pending, condemned, victim, aborts, ghosts>>

WalkFile(f) ==
  /\ pc = "walk"
  /\ f \in unwalked
  /\ unwalked' = unwalked \ {f}
  /\ IF Readable(f)
     THEN /\ stat' = [stat EXCEPT ![f] = disk[f].mtime]
          /\ todo' = todo \cup {f}
     ELSE UNCHANGED <<stat, todo>>
  /\ UNCHANGED <<outside, manifest, store, pc, opts, roots, unobservable,
                 pending, condemned, victim, aborts, ghosts>>

\* scandir or stat failed below the root: the file is simply not listed.
WalkMisses(f) ==
  /\ MayFail
  /\ pc = "walk"
  /\ f \in unwalked /\ Readable(f)
  /\ unwalked' = unwalked \ {f}
  /\ steady' = steady \ {f}
  /\ UNCHANGED <<outside, manifest, store, pc, opts, roots, unobservable, stat,
                 todo, pending, condemned, victim, aborts, observed, before>>

EndWalk ==
  /\ pc = "walk" /\ roots = {} /\ unwalked = {}
  /\ pc' = "prepare"
  /\ UNCHANGED <<outside, manifest, store, run, aborts, ghosts>>

-----------------------------------------------------------------------------
(* The decision ladder, one candidate at a time.                           *)

ChunkerByKind ==
  [code |-> "code", markdown |-> "markdown", text |-> "text", pdf |-> "pdf",
   image |-> "opaque", opaque |-> "opaque"]

\* The kind whose version the ladder compares is the one the extension
\* declares, and for a PDF it is the text chunker's.
ChunkerForKind == [ChunkerByKind EXCEPT !["pdf"] = "text"]

ChunkerVersion(f) == version[ChunkerForKind[KindOf[f]]]

\* What read_source makes of it: text that does not decode becomes opaque.
KindRead(f, c) == IF c \in Undecodable THEN "opaque" ELSE KindOf[f]

\* Only text is scanned.
Withheld(f, c) ==
  /\ KindRead(f, c) \notin {"image", "opaque"}
  /\ c \in Secrets
  /\ f \notin SecretAllow

\* registry.resolve, then the chunker itself.
Chunker(f, c) == ChunkerByKind[KindRead(f, c)]

\* Without its grammar, or if that finds nothing in it, a code file is cut up
\* by the text chunker, in one of `releases`.
Degraded(f, c, releases) ==
  IF Chunker(f, c) = "code" /\ f \in MayDegrade
  THEN {Split(c, "text", v) : v \in releases}
  ELSE {}

ChunkedBy(f, c, releases) ==
  IF Withheld(f, c) THEN {{}}
  ELSE {Split(c, Chunker(f, c), version[Chunker(f, c)])} \cup Degraded(f, c, releases)

\* What chunking a file may give now.
Produced(f, c) == ChunkedBy(f, c, {version["text"]})

\* What it may have given to a row that the ladder skips: one of a degraded file
\* names the code chunker and its version, so that no release redoes it.
Standing(f, c) == ChunkedBy(f, c, 1..MaxVersion)

StatDecision(f) ==
  DecideFromStat(manifest, f, stat[f], opts.space, ChunkerVersion(f), opts.force)

\* The decision once the bytes have been read, for a file still there.
Decision(f) ==
  IF StatDecision(f) = "reindex"
  THEN DecideFromHash(manifest, f, disk[f].content)
  ELSE StatDecision(f)

\* Mutant: a forced run trusts the diff.
PendingFileDiffed(f, made) ==
  LET c       == disk[f].content
      delta   == DiffChunks(manifest, f, opts.space, made)
      chunker == Chunker(f, c)
  IN [file     |-> f,
      row      |-> [mtime |-> stat[f], sha |-> c, chunker |-> chunker,
                    version |-> version[chunker]],
      produced |-> made,
      upsert   |-> delta.upsert,
      delete   |-> delta.delete]

\* A row carries the mtime of the walk and the hash of the read.
PendingFile(f, made) ==
  LET c       == disk[f].content
      delta   == DiffChunks(manifest, f, opts.space, made)
      chunker == Chunker(f, c)
  IN [file     |-> f,
      row      |-> [mtime |-> stat[f], sha |-> c, chunker |-> chunker,
                    version |-> version[chunker]],
      produced |-> made,
      upsert   |-> IF opts.force THEN made ELSE delta.upsert,
      delete   |-> delta.delete]

Buffered(files) ==
  Cardinality(UNION {{<<p.file, x>> : x \in p.upsert} : p \in files})

Prepare(f) ==
  /\ pc = "prepare"
  /\ f \in todo
  /\ todo' = todo \ {f}
  /\ UNCHANGED <<outside, store, opts, roots, unwalked, unobservable, stat,
                 victim, aborts, observed, before>>

PrepareSkip(f) ==
  /\ Prepare(f)
  /\ StatDecision(f) = "skip_unchanged"
  /\ UNCHANGED <<manifest, pc, pending, condemned, steady>>

\* Gone since the walk: the next run will see that it is not there.
PrepareVanished(f) ==
  /\ Prepare(f)
  /\ StatDecision(f) # "skip_unchanged"
  /\ ~Readable(f)
  /\ UNCHANGED <<manifest, pc, pending, condemned, steady>>

\* An error reading, classifying, chunking or parsing: logged and passed by.
PrepareFails(f) ==
  /\ MayFail
  /\ Prepare(f)
  /\ StatDecision(f) # "skip_unchanged"
  /\ Readable(f)
  /\ steady' = steady \ {f}
  /\ UNCHANGED <<manifest, pc, pending, condemned>>

PrepareWithheld(f) ==
  /\ Prepare(f)
  /\ StatDecision(f) # "skip_unchanged"
  /\ Readable(f) /\ Withheld(f, disk[f].content)
  /\ condemned' = condemned \cup {f}
  /\ UNCHANGED <<manifest, pc, pending, steady>>

\* Identical bytes rewritten.  The row is updated there and then, in a dry
\* run too.
PrepareTouch(f) ==
  /\ Prepare(f)
  /\ Readable(f) /\ ~Withheld(f, disk[f].content)
  /\ Decision(f) = "skip_same_content"
  /\ manifest' = Touch(manifest, f, stat[f])
  /\ UNCHANGED <<pc, pending, condemned, steady>>

PrepareQueue(f) ==
  /\ Prepare(f)
  /\ Readable(f) /\ ~Withheld(f, disk[f].content)
  /\ Decision(f) \notin {"skip_unchanged", "skip_same_content"}
  /\ \E made \in Produced(f, disk[f].content) :
       pending' = pending \cup {PendingFile(f, made)}
  /\ pc' = IF Buffered(pending') >= FlushChunks THEN "upsert" ELSE "prepare"
  /\ UNCHANGED <<manifest, condemned, steady>>

\* The last flush.
FlushRest ==
  /\ pc = "prepare" /\ todo = {} /\ pending # {}
  /\ pc' = "upsert"
  /\ UNCHANGED <<outside, manifest, store, run, aborts, ghosts>>

EndPrepare ==
  /\ pc = "prepare" /\ todo = {} /\ pending = {}
  /\ ~opts.dry
  /\ pc' = "purge"
  /\ UNCHANGED <<outside, manifest, store, run, aborts, ghosts>>

-----------------------------------------------------------------------------
(* The flush.                                                              *)

WithVectors(chosen) ==
  [store EXCEPT ![opts.space] = [f \in Files |->
     @[f] \cup UNION {chosen[p] : p \in {q \in pending : q.file = f}}]]

DryFlush ==
  /\ pc = "upsert" /\ opts.dry
  /\ pending' = {}
  /\ pc' = "prepare"
  /\ UNCHANGED <<outside, manifest, store, opts, roots, unwalked, unobservable,
                 stat, todo, condemned, victim, aborts, ghosts>>

\* Mutant: a write the store refused passes for one it took.
UpsertUnchecked ==
  /\ pc = "upsert" /\ ~opts.dry
  /\ \/ store' = WithVectors([p \in pending |-> p.upsert])
     \/ UNCHANGED store
  /\ pc' = "delete"
  /\ UNCHANGED <<outside, manifest, run, aborts, ghosts>>

Upsert ==
  /\ pc = "upsert" /\ ~opts.dry
  /\ store' = WithVectors([p \in pending |-> p.upsert])
  /\ pc' = "delete"
  /\ UNCHANGED <<outside, manifest, run, aborts, ghosts>>

\* Mutant: the ids of the last file of the buffer only.
DeleteStaleOfLast ==
  /\ pc = "delete"
  /\ \E p \in pending : store' = [store EXCEPT ![opts.space][p.file] = @ \ p.delete]
  /\ pc' = "commit"
  /\ UNCHANGED <<outside, manifest, run, aborts, ghosts>>

DeleteStale ==
  /\ pc = "delete"
  /\ store' = [store EXCEPT ![opts.space] = [f \in Files |->
                 @[f] \ UNION {p.delete : p \in {q \in pending : q.file = f}}]]
  /\ pc' = "commit"
  /\ UNCHANGED <<outside, manifest, run, aborts, ghosts>>

Commit ==
  /\ pc = "commit"
  /\ manifest' = RecordAll(manifest, pending, opts.space)
  /\ pending' = {}
  /\ pc' = "prepare"
  /\ UNCHANGED <<outside, store, opts, roots, unwalked, unobservable, stat,
                 todo, condemned, victim, aborts, ghosts>>

-----------------------------------------------------------------------------
(* Removal.  By path, from the current space's collection only; then the   *)
(* row goes, and with it the file's rows of every space.                   *)

DropVectors(f) ==
  /\ pc \in {"purge", "orphans"}
  /\ victim = None
  /\ f \in condemned
  /\ store' = [store EXCEPT ![opts.space][f] = {}]
  /\ condemned' = condemned \ {f}
  /\ victim' = f
  /\ UNCHANGED <<outside, manifest, pc, opts, roots, unwalked, unobservable,
                 stat, todo, pending, aborts, ghosts>>

ForgetVictim ==
  /\ victim # None
  /\ manifest' = ForgetFile(manifest, victim)
  /\ victim' = None
  /\ UNCHANGED <<outside, store, pc, opts, roots, unwalked, unobservable, stat,
                 todo, pending, condemned, aborts, ghosts>>

\* Mutant: the share is taken of the whole workspace.
LooksLikeAnAccidentOverall(r, deletions) ==
  /\ Cardinality(deletions) >= MinDeletions
  /\ 2 * Cardinality(deletions) >= Cardinality(Recorded(manifest))

\* The second brake: this would remove most of a root at once.
LooksLikeAnAccident(r, deletions) ==
  /\ Cardinality(deletions) >= MinDeletions
  /\ 2 * Cardinality(deletions) >= Cardinality(Recorded(manifest) \cap FilesOf(r))

PickOrphans ==
  /\ pc = "purge" /\ condemned = {} /\ victim = None
  /\ LET visible  == {f \in Orphans(manifest, Seen, opts.scope) :
                        RootOf[f] \notin unobservable}
         of(r)    == visible \cap FilesOf(r)
         doubtful == {r \in Roots : LooksLikeAnAccident(r, of(r))}
     IN condemned' = {f \in visible : opts.allow \/ RootOf[f] \notin doubtful}
  /\ pc' = "orphans"
  /\ UNCHANGED <<outside, manifest, store, opts, roots, unwalked, unobservable,
                 stat, todo, pending, victim, aborts, ghosts>>

-----------------------------------------------------------------------------
(* How a run ends.                                                         *)

RunDone ==
  \/ pc = "orphans" /\ condemned = {} /\ victim = None
  \/ pc = "prepare" /\ todo = {} /\ pending = {} /\ opts.dry

Reset ==
  /\ pc' = "idle"
  /\ opts' = None
  /\ roots' = {} /\ unwalked' = {} /\ unobservable' = {}
  /\ stat' = [f \in Files |-> None]
  /\ todo' = {} /\ pending' = {} /\ condemned' = {} /\ victim' = None
  /\ steady' = {} /\ observed' = {} /\ before' = {}

FinishRun ==
  /\ RunDone
  /\ Reset
  /\ UNCHANGED <<outside, manifest, store, aborts>>

\* A crash, a kill, an embedding or store call that failed for good: the run
\* is gone, and both databases are as its last completed call left them.
Abort ==
  /\ pc # "idle"
  /\ aborts < MaxAborts
  /\ aborts' = aborts + 1
  /\ Reset
  /\ UNCHANGED <<outside, manifest, store>>

\* Points go up in batches, and some had landed.
AbortUpsert ==
  /\ pc = "upsert" /\ ~opts.dry
  /\ aborts < MaxAborts
  /\ aborts' = aborts + 1
  /\ \E landed \in SUBSET UNION {{<<p.file, x>> : x \in p.upsert} : p \in pending} :
       store' = WithVectors([p \in pending |->
                               {x \in p.upsert : <<p.file, x>> \in landed}])
  /\ Reset
  /\ UNCHANGED <<outside, manifest>>

Walk ==
  \/ \E r \in Roots : WalkRoot(r)
  \/ \E f \in Files : WalkFile(f)
  \/ EndWalk

PrepareOne ==
  \E f \in Files :
    \/ PrepareSkip(f) \/ PrepareVanished(f) \/ PrepareWithheld(f)
    \/ PrepareTouch(f) \/ PrepareQueue(f)

Flush == FlushRest \/ DryFlush \/ Upsert \/ DeleteStale \/ Commit

Remove ==
  \/ \E f \in Files : DropVectors(f)
  \/ ForgetVictim
  \/ PickOrphans

\* What the run does of its own accord once it has been started.
Progress ==
  Walk \/ PrepareOne \/ Flush \/ EndPrepare \/ Remove \/ FinishRun

Failure ==
  \/ \E f \in Files : WalkMisses(f) \/ PrepareFails(f)
  \/ Abort
  \/ AbortUpsert

Next ==
  \/ Outside
  \/ \E o \in RunOptions : StartRun(o)
  \/ Progress
  \/ Failure

Spec == Init /\ [][Next]_vars

\* A started run is a program that is running.  A plain run of everything is
\* started again and again (by hand, by a watcher, by a scheduled job).
Plain(o) == o.scope = None /\ ~o.dry /\ ~o.force

Fairness ==
  /\ WF_vars(Progress)
  /\ SF_vars(\E o \in RunOptions : Plain(o) /\ StartRun(o))

FairSpec == Spec /\ Fairness

-----------------------------------------------------------------------------
(* Properties.                                                             *)

\* The manifest has the file as it is on disk, or has nothing of a file that
\* is gone or holds a secret.
RecordedAsOnDisk(f, s) ==
  IF disk[f] = None \/ Withheld(f, disk[f].content)
  THEN manifest.files[f] = None /\ manifest.chunks[s][f] = {}
  ELSE /\ manifest.files[f] # None
       /\ manifest.files[f].sha = disk[f].content
       /\ s \in manifest.spaces[f]
       /\ manifest.chunks[s][f] \in Standing(f, disk[f].content)

StoredAsOnDisk(f, s) ==
  IF disk[f] = None THEN store[s][f] = {}
  ELSE store[s][f] \in Standing(f, disk[f].content)

Accountable(f) == f \in steady /\ InScope(f) /\ RootOf[f] \in configured

\* Rows of unseen files that the second brake keeps: their root lost too much.
KeptByBrake ==
  {f \in Files : /\ f \in Recorded(manifest) \ Seen
                 /\ ~opts.allow
                 /\ LooksLikeAnAccident(RootOf[f],
                      (Recorded(manifest) \cap FilesOf(RootOf[f])) \ Seen)}

(* A run that completes has indexed every file nobody touched while it was *)
(* running: row, chunks and vectors are those of the bytes on disk, and a  *)
(* file that is gone or holds a secret has neither row nor vectors.  A row *)
(* that a brake kept, of a file the walk did not see, is the only          *)
(* exception.  (_index)                                                    *)
RunConverges ==
  RunDone /\ ~opts.dry =>
    \A f \in Files : Accountable(f) /\ f \notin KeptByBrake =>
      RecordedAsOnDisk(f, opts.space) /\ StoredAsOnDisk(f, opts.space)

(* The manifest and the store agree on every file the run is not in the    *)
(* middle of writing, so neither search nor the next diff works from       *)
(* vectors that are not there.  (_flush, _purge, _remove_orphans)          *)
StoreMatchesManifest ==
  LET busy == {p.file : p \in {q \in pending : pc \in {"delete", "commit"}}}
              \cup {victim}
  IN \A s \in Spaces, f \in Files \ busy :
       store[s][f] = manifest.chunks[s][f]

(* A chunk row is written only for a vector that is already in the store,  *)
(* whatever runs were stopped before.  (_flush)                            *)
RecordedAfterStored ==
  [][\A s \in Spaces, f \in Files :
       manifest'.chunks[s][f] \ manifest.chunks[s][f] \subseteq store[s][f]]_vars

(* A chunk row is dropped only for a vector that has left the active       *)
(* space's store: one that stayed would have nothing to remove it by.      *)
(* (_flush, _purge, _remove_orphans)                                       *)
VectorsNeverStranded ==
  [][\A s \in Spaces, f \in Files :
       opts # None /\ s = opts.space =>
         (manifest.chunks[s][f] \ manifest'.chunks[s][f]) \cap store[s][f] = {}]_vars

(* A completed run with --force has every vector of every file nobody      *)
(* touched, whatever earlier runs left behind.  (_prepare, force)          *)
ForcedRunRepairs ==
  RunDone /\ opts.force /\ ~opts.dry =>
    \A f \in Files : Accountable(f) /\ disk[f] # None =>
      \E made \in Produced(f, disk[f].content) : made \subseteq store[opts.space][f]

(* A file that has been there, readable and indexable, since the run       *)
(* started is not removed by it.  (walk, _remove_orphans)                  *)
LiveFileKept ==
  [][\A f \in Files :
       /\ f \in steady /\ RootOf[f] \in configured
       /\ disk[f] # None /\ ~Withheld(f, disk[f].content)
       /\ manifest.files[f] # None
       => manifest'.files[f] # None]_vars

(* A configured root that was never on disk while a run lasted loses       *)
(* nothing to it, whatever the options.  (_remove_orphans, unobservable)   *)
AbsentRootKept ==
  [][\A f \in Files :
       RootOf[f] \in configured \ observed =>
         /\ manifest'.files[f] = manifest.files[f]
         /\ \A s \in Spaces : store'[s][f] = store[s][f]]_vars

(* Without --allow-deletes no run removes most of a root for want of       *)
(* seeing it: the files it forgot unseen are fewer than the floor, or less *)
(* than half of what the root had recorded.  (_looks_like_an_accident)     *)
MassDeletionQuestioned ==
  RunDone /\ ~opts.allow =>
    \A r \in Roots :
      LET kept == Recorded(manifest) \cap FilesOf(r)
          lost == (before \cap FilesOf(r)) \ (Recorded(manifest) \cup Seen)
      IN \/ Cardinality(lost) < MinDeletions
         \/ Cardinality(lost) < Cardinality(kept)

(* Once edits, crashes and reconfigurations stop, the manifest comes to    *)
(* describe what is on disk, and stays so: a stopped run leaves work to    *)
(* redo.  (index, run again)                                               *)
ManifestConverges ==
  <>[](\A f \in Files, s \in Spaces :
         RootOf[f] \in mounted \cap configured => RecordedAsOnDisk(f, s))

-----------------------------------------------------------------------------
(* What the code's own comments, tests and docs say, and the code does not *)
(* do: each is refuted by a run of its own.                                *)

(* "A crash leaves work to redo rather than a file marked done with        *)
(* nothing stored" (the comment in _flush): what a completed run leaves    *)
(* recorded for a file nobody touched is in the store.                     *)
MarkedDoneIsStored ==
  RunDone /\ ~opts.dry =>
    \A f \in Files : Accountable(f) =>
      manifest.chunks[opts.space][f] \subseteq store[opts.space][f]

(* "The manifest records which space a file is complete for"               *)
(* (_warn_if_store_diverges): a completed run leaves the space it ran for  *)
(* holding the present chunks of every file nobody touched, whatever space *)
(* was active when the file last changed.                                  *)
ActiveSpaceCurrent ==
  RunDone /\ ~opts.dry =>
    \A f \in Files : Accountable(f) /\ disk[f] # None =>
      StoredAsOnDisk(f, opts.space)

=============================================================================
