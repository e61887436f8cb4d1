------------------------------- MODULE Registry -------------------------------
(***************************************************************************)
(* The life of a process that holds several workspaces: what `serve`,      *)
(* `watch` and `index` open, share and close (workspace_registry.py,       *)
(* app_context.py, storage/store_factory.py and the commands in cli.py).   *)
(*                                                                         *)
(* `serve` and `watch` build a registry: a manifest and a store for each   *)
(* workspace, over one Qdrant client.  `index` builds one context at a     *)
(* time, each over its own client.  Any construction may raise, any close  *)
(* may raise, and a watcher may die while others are reindexing.           *)
(***************************************************************************)
EXTENDS Naturals, Sequences, FiniteSets

CONSTANT Order    \* the configured workspaces, a sequence of names

ASSUME RegistryAssumption ==
  /\ Order # <<>> /\ Order \in Seq({Order[i] : i \in DOMAIN Order})
  /\ \A i, j \in DOMAIN Order : Order[i] = Order[j] => i = j

Workspaces == {Order[i] : i \in DOMAIN Order}
Client      == <<"client", "shared">>
Manifest(w) == <<"manifest", w>>
Store(w)    == <<"store", w>>
Handles ==
  {Client} \cup {Manifest(w) : w \in Workspaces} \cup {Store(w) : w \in Workspaces}

VARIABLES
  command,   \* the command: serve, watch or index
  backing,   \* embedded or server (Qdrant), or mongodb
  phase,
  at,        \* the workspace in hand, an index of Order
  stage,     \* how far it is: nothing, a store, a manifest too
  contexts,  \* workspaces that have a context
  watchers,  \* workspaces whose watcher runs
  opened,    \* handles opened so far
  closeCalled, \* handles whose close was called
  skipped    \* handles a close could not be called on, and that was reported

registryVars ==
  <<command, backing, phase, at, stage, contexts, watchers, opened, closeCalled,
    skipped>>

Phases == {"building", "preflight", "setup", "serving", "watching", "cancelling",
           "indexing", "closing", "ended"}

RegistryInit ==
  /\ command \in {"serve", "watch", "index"}
  /\ backing \in {"embedded", "server", "mongodb"}
  /\ phase = "building" /\ at = 1 /\ stage = "none"
  /\ contexts = {} /\ watchers = {}
  /\ opened = {} /\ closeCalled = {} /\ skipped = {}

Current == Order[at]
Qdrant == backing # "mongodb"
Registered == command # "index"

\* Does a store hold a connection of its own: one that was handed a client
\* does not, and its close leaves the client alone.
OwnsClient == ~(Registered /\ Qdrant)

Keep(changed) == UNCHANGED <<command, backing>> /\ UNCHANGED changed

-----------------------------------------------------------------------------
(* Construction, in the order of each constructor.                         *)

\* Mutant: the store is not handed the shared client.
OpenStoreUnshared ==
  /\ phase = "building" /\ stage = (IF Registered THEN "none" ELSE "manifest")
  /\ stage' = IF Registered THEN "store" ELSE "both"
  /\ opened' = opened \cup {Store(Current)}
                       \cup (IF Registered /\ Qdrant THEN {Client} ELSE {})
  /\ Keep(<<phase, at, contexts, watchers, closeCalled, skipped>>)

\* build_vector_store: before the manifest in a registry, after it in a
\* context that owns its store.  The shared client is built on first use.
OpenStore ==
  /\ phase = "building" /\ stage = (IF Registered THEN "none" ELSE "manifest")
  /\ stage' = IF Registered THEN "store" ELSE "both"
  /\ opened' = opened \cup (IF OwnsClient THEN {Store(Current)} ELSE {Client})
  /\ Keep(<<phase, at, contexts, watchers, closeCalled, skipped>>)

OpenManifest ==
  /\ phase = "building" /\ stage = (IF Registered THEN "store" ELSE "none")
  /\ stage' = IF Registered THEN "both" ELSE "manifest"
  /\ opened' = opened \cup {Manifest(Current)}
  /\ Keep(<<phase, at, contexts, watchers, closeCalled, skipped>>)

\* The rest of from_config (embedder, sparse model, reranker) worked.
AddContext ==
  /\ phase = "building" /\ stage = "both"
  /\ contexts' = contexts \cup {Current}
  /\ stage' = "none"
  /\ IF Registered /\ at < Len(Order)
     THEN at' = at + 1 /\ phase' = phase
     ELSE /\ at' = (IF Registered THEN 1 ELSE at)
          /\ phase' = CASE command = "serve" -> "preflight"
                        [] command = "watch" -> "setup"
                        [] command = "index" -> "indexing"
  /\ Keep(<<watchers, opened, closeCalled, skipped>>)

\* from_config's own cleanup: the manifest, and the store it built itself.
\* close_blocking does nothing inside a running loop, and says so.
ClosedByContext == {Manifest(Current)} \cap opened
LeftByContext   == IF Registered THEN {} ELSE {Store(Current)} \cap opened

\* Mutant: stores that no context owns yet are not remembered.
AbandonContexts ==
  {Manifest(w) : w \in contexts} \cup {Store(w) : w \in contexts} \cup {Client}

\* WorkspaceRegistry._abandon: the contexts, the store in flight, the client.
Abandoned ==
  AbandonContexts \cup (IF stage \in {"store", "both"} THEN {Store(Current)} ELSE {})

\* Anything on the way raises; each close is guarded on its own.
BuildFails ==
  /\ phase = "building"
  /\ phase' = "ended"
  /\ closeCalled' = closeCalled \cup ClosedByContext
                    \cup (IF Registered THEN Abandoned \cap opened ELSE {})
  /\ skipped' = skipped \cup LeftByContext
  /\ Keep(<<at, stage, contexts, watchers, opened>>)

-----------------------------------------------------------------------------
(* The commands.                                                           *)

Go(from, to) == phase = from /\ phase' = to

\* _preflight_all: every workspace holds something, or no one is served.
Preflight ==
  /\ Go("preflight", "serving")
  /\ Keep(<<at, stage, contexts, watchers, opened, closeCalled, skipped>>)

\* An empty index, an unreachable store; an indexer or a watcher that does
\* not build; the client of `serve` hangs up; an index run ends or raises.
StopCommand ==
  /\ \E from \in {"preflight", "setup", "serving", "indexing"} : Go(from, "closing")
  /\ Keep(<<at, stage, contexts, watchers, opened, closeCalled, skipped>>)

StartWatchers ==
  /\ Go("setup", "watching")
  /\ watchers' = Workspaces \cap contexts
  /\ Keep(<<at, stage, contexts, opened, closeCalled, skipped>>)

\* A watcher returns, which only a stop event makes it do.
WatcherStops(w) ==
  /\ phase = "watching" /\ w \in watchers
  /\ watchers' = watchers \ {w}
  /\ phase' = IF watchers' = {} THEN "closing" ELSE phase
  /\ Keep(<<at, stage, contexts, opened, closeCalled, skipped>>)

\* Mutant: gather, which raises and leaves the siblings running.
CrashUnderGather(w) ==
  /\ phase = "watching" /\ w \in watchers
  /\ watchers' = watchers \ {w}
  /\ phase' = "closing"
  /\ Keep(<<at, stage, contexts, opened, closeCalled, skipped>>)

\* A watcher raises: the TaskGroup cancels the others and waits for them.
WatcherCrashes(w) ==
  /\ phase = "watching" /\ w \in watchers
  /\ watchers' = watchers \ {w}
  /\ phase' = IF watchers' = {} THEN "closing" ELSE "cancelling"
  /\ Keep(<<at, stage, contexts, opened, closeCalled, skipped>>)

\* Ctrl-C cancels every task.
Interrupt ==
  /\ Go("watching", "cancelling")
  /\ Keep(<<at, stage, contexts, watchers, opened, closeCalled, skipped>>)

\* A cancelled watcher unwinds, out of a reindex if it was in one.
WatcherCancelled(w) ==
  /\ phase = "cancelling" /\ w \in watchers
  /\ watchers' = watchers \ {w}
  /\ phase' = IF watchers' = {} THEN "closing" ELSE phase
  /\ Keep(<<at, stage, contexts, opened, closeCalled, skipped>>)

-----------------------------------------------------------------------------
(* Closing, a context at a time; each close awaits.                        *)

Next1 == IF at < Len(Order) THEN at + 1 ELSE at

\* The end of a context: the next one, or the next workspace to index.
ContextClosed(goesOn) ==
  IF Registered
  THEN /\ at' = at + 1 /\ phase' = phase /\ stage' = "none"
  ELSE /\ stage' = "none"
       /\ at' = IF goesOn THEN Next1 ELSE at
       /\ phase' = IF goesOn /\ at < Len(Order) THEN "building" ELSE "ended"

\* AppContext.close, the store first.
CloseStore ==
  /\ phase = "closing" /\ at <= Len(Order) /\ stage = "none"
  /\ closeCalled' = closeCalled \cup ({Store(Current)} \cap opened)
  /\ stage' = "closed"
  /\ Keep(<<phase, at, contexts, watchers, opened, skipped>>)

\* It raised, and the manifest's close is not reached.
CloseStoreRaises ==
  /\ phase = "closing" /\ at <= Len(Order) /\ stage = "none" /\ OwnsClient
  /\ closeCalled' = closeCalled \cup {Store(Current)}
  /\ skipped' = skipped \cup {Manifest(Current)}
  /\ ContextClosed(FALSE)
  /\ Keep(<<contexts, watchers, opened>>)

\* An index run that stopped (the brake, an error) does not go on to the
\* next workspace.
CloseManifest ==
  /\ phase = "closing" /\ stage = "closed"
  /\ closeCalled' = closeCalled \cup {Manifest(Current)}
  /\ \E goesOn \in BOOLEAN : ContextClosed(goesOn)
  /\ Keep(<<contexts, watchers, opened, skipped>>)

\* WorkspaceRegistry.close, after the contexts: the client they shared.
CloseClient ==
  /\ phase = "closing" /\ Registered /\ at > Len(Order)
  /\ closeCalled' = closeCalled \cup ({Client} \cap opened)
  /\ phase' = "ended"
  /\ Keep(<<at, stage, contexts, watchers, opened, skipped>>)

RegistryNext ==
  \/ OpenStore \/ OpenManifest \/ AddContext \/ BuildFails
  \/ Preflight \/ StopCommand \/ StartWatchers \/ Interrupt
  \/ \E w \in Workspaces : WatcherStops(w) \/ WatcherCrashes(w) \/ WatcherCancelled(w)
  \/ CloseStore \/ CloseStoreRaises \/ CloseManifest \/ CloseClient

RegistrySpec == RegistryInit /\ [][RegistryNext]_registryVars

-----------------------------------------------------------------------------
(* Properties.                                                             *)

RegistryTypeOK ==
  /\ command \in {"serve", "watch", "index"}
  /\ backing \in {"embedded", "server", "mongodb"}
  /\ phase \in Phases
  /\ at \in 1..Len(Order) + 1
  /\ stage \in {"none", "store", "manifest", "both", "closed"}
  /\ contexts \subseteq Workspaces /\ watchers \subseteq contexts
  /\ opened \subseteq Handles /\ closeCalled \subseteq opened /\ skipped \subseteq opened

(* A process that ended has closed all that it opened, whichever           *)
(* construction raised and however many closes did: by the context that    *)
(* was being built, by the registry that was abandoned, or by the command. *)
(* What was not closed is what the code reports: the store of a context    *)
(* that failed inside a loop, and a manifest whose store did not close.    *)
(* (AppContext.from_config, WorkspaceRegistry._abandon, close)             *)
NothingLeaks == phase = "ended" => opened \subseteq closeCalled \cup skipped

(* A watcher never works with what was closed: the manifest, the store and *)
(* the client it shares are open for as long as it runs, in whatever way   *)
(* the others end.  (watch, _run_watcher)                                  *)
NoUseAfterClose ==
  \A w \in watchers : {Manifest(w), Store(w), Client} \cap closeCalled = {}

(* An embedded Qdrant is opened by one client at a time, whatever the      *)
(* number of workspaces; it refuses a second.  (_qdrant, _index_one)       *)
OneEmbeddedClient ==
  backing = "embedded" =>
    Cardinality((opened \ closeCalled) \cap ({Client} \cup {Store(w) : w \in Workspaces})) <= 1

=============================================================================
