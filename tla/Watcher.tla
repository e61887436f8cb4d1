------------------------------- MODULE Watcher -------------------------------
(***************************************************************************)
(* Keeping the index fresh without a manual run                            *)
(* (src/workspace_indexer/watching, and the `watch` command of cli.py).    *)
(*                                                                         *)
(* One watcher per workspace, all in one event loop.  The directories the  *)
(* index looks in are watched one by one, without recursion; events gather *)
(* in the watching library while the watcher is busy, and come as a batch. *)
(* A batch becomes the set of roots it touched, and each of these is       *)
(* reindexed in turn, under one lock for all workspaces.                   *)
(*                                                                         *)
(* The run of a root is Indexer's, reduced to what a watcher can see of    *)
(* it: each directory of the root is brought up to date with what it held  *)
(* at some moment between the run's start and its end.                     *)
(***************************************************************************)
EXTENDS Naturals, FiniteSets

CONSTANTS
  Workspaces,
  Dirs,           \* directories that may exist
  Parent,         \* [Dirs -> Dirs \cup {None}], None for a top directory
  Within,         \* [Dirs -> SUBSET Dirs]: itself and what it lies in
  Roots,          \* [Workspaces -> SUBSET Dirs]: the base of each root
  Heavy,          \* directories never worth a watch: UNWATCHED_DIRS
  Hardcoded,      \* directories excluded whatever the config: HARDCODED_EXCLUDES
  Excludes,       \* the values index.exclude takes, as sets of directories
  Initial,        \* the one the program was started with
  StateDir,       \* the directory of the manifest, or None if in no root
  Existing,       \* directories there at the start
  MaxChanges,     \* bound: changes the outside world makes
  MaxFailures,    \* bound: reindexes that fail
  None

ASSUME WatcherAssumption ==
  /\ Parent \in [Dirs -> Dirs \cup {None}]
  /\ Within \in [Dirs -> SUBSET Dirs] /\ \A d \in Dirs : d \in Within[d]
  /\ Roots \in [Workspaces -> SUBSET Dirs]
  /\ Hardcoded \subseteq Dirs /\ Heavy \subseteq Dirs
  /\ Excludes \subseteq SUBSET Dirs /\ Initial \in Excludes
  /\ StateDir \in Dirs \cup {None}
  /\ Existing \subseteq Dirs
  /\ MaxChanges \in Nat /\ MaxFailures \in Nat

ASSUME NoneAssumption ==
  None \notin Dirs /\ None \notin Excludes /\ None \notin Nat

\* Directories are a tree, so of the roots a directory lies in one is deepest.
ASSUME OwnerAssumption ==
  \A w \in Workspaces, d \in Dirs : Roots[w] \cap Within[d] # {} =>
    \E r \in Roots[w] \cap Within[d] : Roots[w] \cap Within[d] \subseteq Within[r]

VARIABLES
  disk,           \* what each directory holds: the change that made it, or None
  yaml,           \* workspace.yaml: its excludes, or None while half written
  changes,        \* changes made so far
  pc,             \* where each watcher is
  config,         \* the excludes of its config, debouncer and scope
  watched,        \* the directories it has a watch on
  events,         \* what the library has gathered for it
  rescope,        \* a directory appeared that the watch should cover
  queue,          \* roots of the current batch still to reindex
  current,        \* the root being reindexed
  unread,         \* directories the run has not come to
  lock,           \* the workspace holding the reindexing lock
  indexed,        \* what the index holds of each directory of each root
  failures,       \* reindexes that failed so far
  excused         \* (history) directories whose last change was out of reach

world   == <<disk, yaml, changes>>
watcher == <<pc, config, watched, rescope, queue, current, unread>>
vars    == <<world, watcher, events, lock, indexed, failures, excused>>

Event == [dir : Dirs \cup {None}, added : BOOLEAN]

TypeOK ==
  /\ disk \in [Dirs -> 0..MaxChanges \cup {None}]
  /\ yaml \in Excludes \cup {None}
  /\ changes \in 0..MaxChanges
  /\ pc \in [Workspaces -> {"starting", "watching", "locking", "indexing"}]
  /\ config \in [Workspaces -> Excludes]
  /\ watched \in [Workspaces -> SUBSET Dirs]
  /\ events \in [Workspaces -> SUBSET Event]
  /\ rescope \in [Workspaces -> BOOLEAN]
  /\ queue \in [Workspaces -> SUBSET Dirs]
  /\ \A w \in Workspaces : queue[w] \subseteq Roots[w]
  /\ current \in [Workspaces -> Dirs \cup {None}]
  /\ \A w \in Workspaces : pc[w] = "indexing" => current[w] \in queue[w]
  /\ unread \in [Workspaces -> SUBSET Dirs]
  /\ lock \in Workspaces \cup {None}
  /\ indexed \in [Workspaces -> [Dirs -> [Dirs -> 0..MaxChanges \cup {None}]]]
  /\ failures \in 0..MaxFailures
  /\ excused \in [Workspaces -> SUBSET (Dirs \cup {None})]

\* The index was built before the watch began.
Init ==
  /\ disk = [d \in Dirs |-> IF d \in Existing THEN 0 ELSE None]
  /\ yaml = Initial
  /\ changes = 0
  /\ pc = [w \in Workspaces |-> "starting"]
  /\ config = [w \in Workspaces |-> Initial]
  /\ watched = [w \in Workspaces |-> {}]
  /\ events = [w \in Workspaces |-> {}]
  /\ rescope = [w \in Workspaces |-> FALSE]
  /\ queue = [w \in Workspaces |-> {}]
  /\ current = [w \in Workspaces |-> None]
  /\ unread = [w \in Workspaces |-> {}]
  /\ lock = None
  /\ indexed = [w \in Workspaces |-> [r \in Dirs |-> disk]]
  /\ failures = 0
  /\ excused = [w \in Workspaces |-> {}]

-----------------------------------------------------------------------------
(* Rules.                                                                  *)

\* Mutant: only what the user configured.
ExcludedByUser(c, d) == Within[d] \cap c # {}

Excluded(c, d) == Within[d] \cap (c \cup Hardcoded) # {}

\* The root a change belongs to: the most specific one that contains it.
Owner(w, d) ==
  IF Roots[w] \cap Within[d] = {} THEN None
  ELSE CHOOSE r \in Roots[w] \cap Within[d] : Roots[w] \cap Within[d] \subseteq Within[r]

\* A directory the scope lists, from a root's base down.
Watchable(w, c, d) ==
  /\ disk[d] # None
  /\ \E r \in Roots[w] \cap Within[d] :
       /\ ~Excluded(c, d)
       /\ (Within[d] \ Within[r]) \cap Heavy = {}

\* The filter is built when the watch starts and is not rebuilt, so it keeps
\* the rules the program was started with; so does the indexer.
Heard(w, d, via) ==
  /\ pc[w] # "starting"
  /\ via \in watched[w]
  /\ ~Excluded(Initial, d)

Notify(d, via, added) ==
  events' = [w \in Workspaces |->
    IF Heard(w, d, via) THEN events[w] \cup {[dir |-> d, added |-> added]}
    ELSE events[w]]

-----------------------------------------------------------------------------
(* The outside world.                                                      *)

Changed(d, via) ==
  /\ changes < MaxChanges
  /\ changes' = changes + 1
  /\ disk' = [disk EXCEPT ![d] = changes']
  /\ excused' = [w \in Workspaces |->
       IF Heard(w, d, via) /\ ~Excluded(config[w], d)
       THEN excused[w] \ {d} ELSE excused[w] \cup {d}]

Edit(d) ==
  /\ disk[d] # None
  /\ Changed(d, d)
  /\ Notify(d, d, FALSE)
  /\ UNCHANGED <<yaml, watcher, lock, indexed, failures>>

\* A new directory is heard of where it appears.
MakeDir(d) ==
  /\ disk[d] = None
  /\ Parent[d] # None => disk[Parent[d]] # None
  /\ Changed(d, Parent[d])
  /\ Notify(d, Parent[d], TRUE)
  /\ UNCHANGED <<yaml, watcher, lock, indexed, failures>>

\* The watch goes with the directory.
RemoveDir(d) ==
  /\ disk[d] # None
  /\ \A x \in Dirs : Parent[x] = d => disk[x] = None
  /\ changes < MaxChanges
  /\ changes' = changes + 1
  /\ disk' = [disk EXCEPT ![d] = None]
  /\ Notify(d, Parent[d], FALSE)
  /\ watched' = [w \in Workspaces |-> watched[w] \ {d}]
  /\ UNCHANGED <<yaml, pc, config, rescope, queue, current, unread, lock,
                 indexed, failures, excused>>

\* workspace.yaml is saved, or is half way to being saved.
WriteConfig(c) ==
  /\ c # yaml
  /\ changes < MaxChanges
  /\ changes' = changes + 1
  /\ yaml' = c
  /\ events' = [w \in Workspaces |->
       IF pc[w] = "starting" THEN events[w]
       ELSE events[w] \cup {[dir |-> None, added |-> FALSE]}]
  /\ excused' = [w \in Workspaces |->
       IF pc[w] = "starting" THEN excused[w] \cup {None}
       ELSE excused[w] \ {None}]
  /\ UNCHANGED <<disk, watcher, lock, indexed, failures>>

Outside ==
  \/ \E d \in Dirs : Edit(d) \/ MakeDir(d) \/ RemoveDir(d)
  \/ \E c \in Excludes \cup {None} : WriteConfig(c)

-----------------------------------------------------------------------------
(* The watcher.                                                            *)

\* The scope is listed and handed over.  awatch ends only when its stop event
\* is set, and `watch` passes none: this happens once.
StartWatch(w) ==
  /\ pc[w] = "starting"
  /\ pc' = [pc EXCEPT ![w] = "watching"]
  /\ watched' = [watched EXCEPT ![w] = {d \in Dirs : Watchable(w, config[w], d)}]
  /\ rescope' = [rescope EXCEPT ![w] = FALSE]
  /\ UNCHANGED <<world, config, queue, current, unread, events, lock, indexed,
                 failures, excused>>

\* Mutant: the reload replaces the debouncer before it is drained.
DrainedAfterReload(w) ==
  IF yaml # config[w] THEN {}
  ELSE {Owner(w, e.dir) : e \in {x \in events[w] : x.dir # None}} \ {None}

\* What the debouncer makes of a batch, by the rules it was built with.
Drained(w) ==
  {Owner(w, e.dir) : e \in {x \in events[w] : x.dir # None /\ ~Excluded(config[w], x.dir)}}
  \ {None}

\* Mutant: a batch about roots is not one about the config.
ConfigChangedAlone(w) == \A e \in events[w] : e.dir = None

ConfigChanged(w) == \E e \in events[w] : e.dir = None

\* Mutant: whatever the file holds is the config.
ReloadUnguarded(w) ==
  /\ config' = [config EXCEPT ![w] = yaml]
  /\ UNCHANGED excused

\* Config, debouncer and scope are replaced together, or not at all if the
\* file on disk cannot be used.
Reload(w) ==
  IF yaml # None
  THEN /\ config' = [config EXCEPT ![w] = yaml]
       /\ excused' = [excused EXCEPT ![w] = @ \cup {d \in Dirs : Excluded(yaml, d)}]
  ELSE UNCHANGED <<config, excused>>

\* One settled batch.
HandleChanges(w) ==
  /\ pc[w] = "watching"
  /\ events[w] # {}
  /\ events' = [events EXCEPT ![w] = {}]
  /\ rescope' = [rescope EXCEPT ![w] = @ \/
       \E e \in events[w] : e.dir # None /\ e.added /\ Watchable(w, config[w], e.dir)]
  /\ queue' = [queue EXCEPT ![w] = Drained(w)]
  /\ pc' = [pc EXCEPT ![w] = IF Drained(w) = {} THEN "watching" ELSE "locking"]
  /\ IF ConfigChanged(w) THEN Reload(w) ELSE UNCHANGED <<config, excused>>
  /\ UNCHANGED <<world, watched, current, unread, lock, indexed, failures>>

-----------------------------------------------------------------------------
(* A reindex of one root.                                                  *)

\* A run writes to its manifest when it starts and until it is over, wherever
\* the manifest is.
OwnWrites ==
  IF StateDir # None THEN Notify(StateDir, StateDir, FALSE) ELSE UNCHANGED events

Acquire(w) ==
  /\ pc[w] = "locking" /\ lock = None
  /\ lock' = w
  /\ pc' = [pc EXCEPT ![w] = "indexing"]
  /\ \E r \in queue[w] :
       /\ current' = [current EXCEPT ![w] = r]
       /\ unread' = [unread EXCEPT ![w] =
                       {d \in Dirs : r \in Within[d] /\ ~Excluded(Initial, d)}]
  /\ OwnWrites
  /\ UNCHANGED <<world, config, watched, rescope, queue, indexed, failures,
                 excused>>

\* A directory that is gone leaves the index, unless the brake holds it back.
Read(w, d) ==
  /\ pc[w] = "indexing"
  /\ d \in unread[w]
  /\ unread' = [unread EXCEPT ![w] = @ \ {d}]
  /\ \/ indexed' = [indexed EXCEPT ![w][current[w]][d] = disk[d]]
     \/ disk[d] = None /\ UNCHANGED indexed
  /\ UNCHANGED <<world, pc, config, watched, rescope, queue, current, events,
                 lock, failures, excused>>

Done(w) ==
  /\ pc[w] = "indexing"
  /\ lock' = None
  /\ queue' = [queue EXCEPT ![w] = @ \ {current[w]}]
  /\ current' = [current EXCEPT ![w] = None]
  /\ unread' = [unread EXCEPT ![w] = {}]
  /\ pc' = [pc EXCEPT ![w] = IF queue[w] = {current[w]} THEN "watching" ELSE "locking"]
  /\ UNCHANGED <<world, config, watched, rescope>>

FinishReindex(w) ==
  /\ Done(w)
  /\ unread[w] = {}
  /\ OwnWrites
  /\ UNCHANGED <<indexed, failures, excused>>

\* A run that raises is logged, and the watcher goes on to the next root.
FailReindex(w) ==
  /\ failures < MaxFailures
  /\ failures' = failures + 1
  /\ Done(w)
  /\ excused' = [excused EXCEPT ![w] = @ \cup unread[w]]
  /\ UNCHANGED <<events, indexed>>

Next ==
  \/ Outside
  \/ \E w \in Workspaces :
       \/ StartWatch(w) \/ HandleChanges(w)
       \/ Acquire(w) \/ (\E d \in Dirs : Read(w, d))
       \/ FinishReindex(w) \/ FailReindex(w)

Spec == Init /\ [][Next]_vars

\* Every task of the event loop that can run is run in the end, and the lock
\* serves its waiters in their order.
Fairness ==
  \A w \in Workspaces :
    /\ WF_vars(StartWatch(w))
    /\ WF_vars(HandleChanges(w))
    /\ SF_vars(Acquire(w))
    /\ WF_vars(\E d \in Dirs : Read(w, d))
    /\ WF_vars(FinishReindex(w))

FairSpec == Spec /\ Fairness

-----------------------------------------------------------------------------
(* Properties.                                                             *)

\* A directory whose present content the watcher of w could have heard of:
\* it is in one of w's roots, none of the rules in force excluded it, and no
\* failed run stood between.
Answerable(w, d) ==
  /\ disk[d] # None
  /\ Owner(w, d) # None
  /\ ~Excluded(Initial, d)
  /\ d \notin excused[w]

Fresh(w, d) == indexed[w][Owner(w, d)][d] = disk[d]

\* Something is on its way that will bring d up to date.
Coming(w, d) ==
  \/ \E e \in events[w] :
       e.dir # None /\ Owner(w, e.dir) = Owner(w, d) /\ ~Excluded(config[w], e.dir)
  \/ /\ Owner(w, d) \in queue[w]
     /\ pc[w] = "indexing" /\ current[w] = Owner(w, d) => d \in unread[w]

(* No change the watcher heard of is lost: whatever arrives while a batch  *)
(* is handled, a lock awaited or a root reindexed, in this workspace or    *)
(* another, either the index has it or something is on its way that will.  *)
(* (handle_changes, drain, _reload, reindex)                               *)
NoChangeLost ==
  \A w \in Workspaces, d \in Dirs :
    Answerable(w, d) => Fresh(w, d) \/ Coming(w, d)

(* Once the changes stop, every workspace that shares a tree has all of    *)
(* it, and the config in force is the one on disk: no workspace waits for  *)
(* ever behind another, and a torn config is read again when it is whole.  *)
(* (handle_changes, _reload, the lock in `watch`)                          *)
CatchesUp ==
  <>[](\A w \in Workspaces :
         /\ \A d \in Dirs : Answerable(w, d) => Fresh(w, d)
         /\ yaml # None /\ None \notin excused[w] => config[w] = yaml)

(* Once the changes stop, reindexing stops: our own writes wake nothing.   *)
(* (HARDCODED_EXCLUDES, "spins forever")                                   *)
FallsQuiet == <>[](lock = None)

-----------------------------------------------------------------------------
(* What the docs say and the code does not do.                             *)

\* A directory the index looks in, in one that is watched.
Wanted(w, d) == Parent[d] \in watched[w] /\ Watchable(w, config[w], d)

(* "A new directory the index cares about cannot be added to a running     *)
(* watch, so one appearing rebuilds it" (the reference, on watch): a       *)
(* directory that ought to be watched comes to be, or ceases to be one.    *)
NewDirectoryWatched ==
  \A w \in Workspaces, d \in Dirs :
    Wanted(w, d) ~> (d \in watched[w] \/ ~Wanted(w, d))

=============================================================================
