---------------------------- MODULE ServicesProofs ----------------------------
(***************************************************************************)
(* Theorems about Registry, for any number of workspaces, and about the    *)
(* four services side by side.                                             *)
(***************************************************************************)
EXTENDS MCServices, ChunkingProofs, SearchProofs, StoresProofs

-----------------------------------------------------------------------------
(* A watcher runs only while nothing has been closed.                      *)

WatchInv ==
  /\ command \in {"serve", "watch", "index"}
  /\ watchers # {} => phase \in {"watching", "cancelling"}
  /\ phase \in {"setup", "watching", "cancelling"} => command = "watch"
  /\ command = "watch" /\ closeCalled # {} => phase \in {"closing", "ended"}

\* The three ways a watcher ends leave the others, or begin the closing.
LEMMA WatcherEnds ==
  ASSUME WatchInv, NEW w,
         WatcherStops(w) \/ WatcherCrashes(w) \/ WatcherCancelled(w)
  PROVE  WatchInv'
<1>1. /\ command' = command /\ closeCalled' = closeCalled
      /\ phase \in {"watching", "cancelling"}
  BY DEF WatcherStops, WatcherCrashes, WatcherCancelled, Keep
<1>2. \/ phase' = "closing" /\ watchers' = {}
      \/ phase' \in {"watching", "cancelling"}
  BY <1>1 DEF WatcherStops, WatcherCrashes, WatcherCancelled
<1> QED
  BY <1>1, <1>2 DEF WatchInv

LEMMA WatchStep == WatchInv /\ [RegistryNext]_registryVars => WatchInv'
<1> SUFFICES ASSUME WatchInv, [RegistryNext]_registryVars PROVE WatchInv'
  OBVIOUS
<1> USE DEF WatchInv, Keep
<1>1. CASE OpenStore \/ OpenManifest
  BY <1>1 DEF OpenStore, OpenManifest
<1>2. CASE AddContext
  BY <1>2 DEF AddContext, Registered
<1>3. CASE BuildFails
  BY <1>3 DEF BuildFails
<1>4. CASE Preflight \/ StopCommand \/ Interrupt
  BY <1>4 DEF Preflight, StopCommand, Interrupt, Go
<1>5. CASE StartWatchers
  BY <1>5 DEF StartWatchers, Go
<1>6. CASE \E w \in Workspaces :
             WatcherStops(w) \/ WatcherCrashes(w) \/ WatcherCancelled(w)
  BY <1>6, WatcherEnds
<1>7. CASE CloseStore \/ CloseStoreRaises \/ CloseManifest
  BY <1>7 DEF CloseStore, CloseStoreRaises, CloseManifest, ContextClosed, Registered
<1>8. CASE CloseClient
  BY <1>8 DEF CloseClient
<1>9. CASE UNCHANGED registryVars
  BY <1>9 DEF registryVars
<1> QED
  BY <1>1, <1>2, <1>3, <1>4, <1>5, <1>6, <1>7, <1>8, <1>9 DEF RegistryNext

(* A watcher never works with a manifest, a store or a client that was     *)
(* closed, however many there are and however the others end: `watch`      *)
(* closes the registry only when its TaskGroup has seen all of them end.   *)
THEOREM NoUseAfterCloseHolds == RegistrySpec => []NoUseAfterClose
<1>1. RegistryInit => WatchInv
  BY DEF RegistryInit, WatchInv
<1>2. WatchInv => NoUseAfterClose
  <2> SUFFICES ASSUME WatchInv, NEW w \in watchers PROVE closeCalled = {}
    BY DEF NoUseAfterClose
  <2> QED
    BY DEF WatchInv
<1> QED
  BY <1>1, <1>2, WatchStep, PTL DEF RegistrySpec

-----------------------------------------------------------------------------
(* What is open and not reported is still to be closed.                    *)

HandlesOf(w) == {Manifest(w), Store(w)}

\* What the construction in hand has opened.
Constructed ==
  (IF stage \in {"store", "both"} THEN {Store(Current)} ELSE {})
    \cup (IF stage \in {"manifest", "both"} THEN {Manifest(Current)} ELSE {})

\* What is open while contexts are built, and what the closing has to come to.
Built ==
  Constructed \cup (IF Registered THEN {Client} \cup UNION {HandlesOf(w) : w \in contexts}
               ELSE {})

From(i) == UNION {HandlesOf(Order[j]) : j \in i..Len(Order)}

Remaining ==
  (IF Registered THEN {Client} \cup From(at) ELSE HandlesOf(Current))
    \ (IF stage = "closed" THEN {Store(Current)} ELSE {})

PhaseInv ==
  /\ command \in {"serve", "watch", "index"}
  /\ phase \in Phases
  /\ stage \in {"none", "store", "manifest", "both", "closed"}
  /\ at \in 1..Len(Order) + 1
  /\ phase \in {"building", "indexing"} \/ stage = "closed" \/ ~Registered
       => at \in 1..Len(Order)
  /\ phase \in {"preflight", "setup", "serving", "watching", "cancelling"}
       => Registered /\ at = 1
  /\ phase = "indexing" => ~Registered
  /\ phase \in {"preflight", "setup", "serving", "watching", "cancelling", "indexing"}
       => stage = "none"
  /\ phase = "building" => stage # "closed"
  /\ phase = "closing" => stage \in {"none", "closed"}
  /\ contexts \subseteq Workspaces

LeakInv ==
  /\ phase = "building" => opened \subseteq closeCalled \cup skipped \cup Built
  /\ phase \notin {"building", "ended"} =>
       opened \subseteq closeCalled \cup skipped \cup Remaining
  /\ phase = "ended" => opened \subseteq closeCalled \cup skipped

LEMMA OrderFacts ==
  /\ Len(Order) \in Nat \ {0} /\ DOMAIN Order = 1..Len(Order)
  /\ \A i \in 1..Len(Order) : Order[i] \in Workspaces
<1>1. Order \in Seq({Order[i] : i \in DOMAIN Order}) /\ Order # <<>>
  BY RegistryAssumption
<1>2. Len(Order) \in Nat /\ DOMAIN Order = 1..Len(Order)
  BY <1>1
<1>3. Len(Order) # 0
  BY <1>1
<1> QED
  BY <1>2, <1>3 DEF Workspaces

LEMMA FromFacts ==
  /\ \A w \in Workspaces : HandlesOf(w) \subseteq From(1)
  /\ \A i \in 1..Len(Order) : From(i) \subseteq HandlesOf(Order[i]) \cup From(i + 1)
  /\ From(Len(Order) + 1) = {}
<1>1. \A w \in Workspaces : HandlesOf(w) \subseteq From(1)
  BY OrderFacts DEF Workspaces, From
<1>2. \A i \in 1..Len(Order) : From(i) \subseteq HandlesOf(Order[i]) \cup From(i + 1)
  <2> SUFFICES ASSUME NEW i \in 1..Len(Order), NEW j \in i..Len(Order)
               PROVE  j = i \/ j \in i + 1..Len(Order)
    BY DEF From
  <2> QED
    BY OrderFacts
<1>3. From(Len(Order) + 1) = {}
  <2>1. Len(Order) + 1..Len(Order) = {}
    BY OrderFacts
  <2> QED
    BY <2>1 DEF From
<1> QED
  BY <1>1, <1>2, <1>3

LEMMA PhaseStep == PhaseInv /\ [RegistryNext]_registryVars => PhaseInv'
<1> SUFFICES ASSUME PhaseInv, [RegistryNext]_registryVars PROVE PhaseInv'
  OBVIOUS
<1> USE OrderFacts DEF PhaseInv, Keep, Registered, Phases
<1>1. CASE OpenStore \/ OpenManifest
  BY <1>1 DEF OpenStore, OpenManifest
<1>2. CASE AddContext
  BY <1>2 DEF AddContext, Current
<1>3. CASE BuildFails
  BY <1>3 DEF BuildFails
<1>4. CASE Preflight \/ StopCommand \/ Interrupt
  BY <1>4 DEF Preflight, StopCommand, Interrupt, Go
<1>5. CASE StartWatchers
  BY <1>5 DEF StartWatchers, Go
<1>6. CASE \E w \in Workspaces :
             WatcherStops(w) \/ WatcherCrashes(w) \/ WatcherCancelled(w)
  BY <1>6 DEF WatcherStops, WatcherCrashes, WatcherCancelled
<1>7. CASE CloseStore
  BY <1>7 DEF CloseStore
<1>8. CASE CloseStoreRaises
  BY <1>8 DEF CloseStoreRaises, ContextClosed
<1>9. CASE CloseManifest
  BY <1>9 DEF CloseManifest, ContextClosed, Next1
<1>10. CASE CloseClient
  BY <1>10 DEF CloseClient
<1>11. CASE UNCHANGED registryVars
  BY <1>11 DEF registryVars
<1> QED
  BY <1>1, <1>2, <1>3, <1>4, <1>5, <1>6, <1>7, <1>8, <1>9, <1>10, <1>11
  DEF RegistryNext

LEMMA LeakStep == PhaseInv /\ LeakInv /\ [RegistryNext]_registryVars => LeakInv'
<1> SUFFICES ASSUME PhaseInv, LeakInv, [RegistryNext]_registryVars PROVE LeakInv'
  OBVIOUS
<1> USE DEF LeakInv, PhaseInv, Keep, Registered
<1>1. CASE OpenStore
  BY <1>1 DEF OpenStore, Built, Constructed, Current, OwnsClient, Registered
<1>2. CASE OpenManifest
  BY <1>2 DEF OpenManifest, Built, Constructed, Current
<1>3. CASE AddContext
  <2>1. CASE Registered
    <3>1. Built \subseteq {Client} \cup UNION {HandlesOf(w) : w \in contexts'}
      BY <1>3, <2>1 DEF AddContext, Built, Constructed, HandlesOf
    <3>2. CASE at < Len(Order)
      BY <1>3, <2>1, <3>1, <3>2 DEF AddContext, Built, Constructed
    <3>3. CASE ~(at < Len(Order))
      <4>1. contexts' \subseteq Workspaces /\ at' = 1
        BY <1>3, <2>1, <3>3, OrderFacts DEF AddContext, Current
      <4>2. Built \subseteq {Client} \cup From(1)
        BY <3>1, <4>1, FromFacts
      <4>3. Remaining' = {Client} \cup From(1)
        BY <1>3, <2>1, <4>1 DEF AddContext, Remaining, From
      <4> QED
        BY <1>3, <2>1, <3>3, <4>2, <4>3 DEF AddContext
    <3> QED
      BY <3>2, <3>3
  <2>2. CASE ~Registered
    BY <1>3, <2>2 DEF AddContext, Built, Constructed, Remaining, HandlesOf, Current
  <2> QED
    BY <2>1, <2>2
<1>4. CASE BuildFails
  <2>1. Built \cap opened \subseteq closeCalled' \cup skipped'
    BY <1>4 DEF BuildFails, Built, Constructed, ClosedByContext, LeftByContext, Abandoned,
                AbandonContexts, HandlesOf
  <2> QED
    BY <1>4, <2>1 DEF BuildFails
<1>5. CASE Preflight \/ StopCommand \/ Interrupt \/ StartWatchers
  BY <1>5 DEF Preflight, StopCommand, Interrupt, StartWatchers, Go, Remaining, Current, From
<1>6. CASE \E w \in Workspaces :
             WatcherStops(w) \/ WatcherCrashes(w) \/ WatcherCancelled(w)
  BY <1>6 DEF WatcherStops, WatcherCrashes, WatcherCancelled, Remaining, Current, From
<1>7. CASE CloseStore
  BY <1>7 DEF CloseStore, Remaining, Current, From
<1>8. CASE CloseStoreRaises
  <2>1. at \in 1..Len(Order)
    BY <1>8, OrderFacts DEF CloseStoreRaises
  <2>2. HandlesOf(Current) \subseteq closeCalled' \cup skipped'
    BY <1>8 DEF CloseStoreRaises, HandlesOf
  <2>3. From(at) \subseteq HandlesOf(Current) \cup From(at + 1)
    BY <2>1, FromFacts DEF Current
  <2> QED
    BY <1>8, <2>2, <2>3 DEF CloseStoreRaises, ContextClosed, Remaining, Current, From
<1>9. CASE CloseManifest
  <2>1. Remaining \cap HandlesOf(Current) \subseteq closeCalled'
    BY <1>9 DEF CloseManifest, Remaining, HandlesOf
  <2>2. From(at) \subseteq HandlesOf(Current) \cup From(at + 1)
    BY <1>9, FromFacts DEF Current, CloseManifest
  <2> QED
    BY <1>9, <2>1, <2>2 DEF CloseManifest, ContextClosed, Remaining, Current, From, Built
<1>10. CASE CloseClient
  <2>1. at = Len(Order) + 1
    BY <1>10, OrderFacts DEF CloseClient
  <2> QED
    BY <1>10, <2>1, FromFacts DEF CloseClient, Remaining
<1>11. CASE UNCHANGED registryVars
  BY <1>11 DEF registryVars, Built, Constructed, Remaining, Current, From
<1> QED
  BY <1>1, <1>2, <1>3, <1>4, <1>5, <1>6, <1>7, <1>8, <1>9, <1>10, <1>11
  DEF RegistryNext

(* Every handle that was opened is closed when the process ends, or its    *)
(* neglect was reported, for any number of workspaces and wherever         *)
(* constructions and closes raised.                                        *)
THEOREM NothingLeaksHolds == RegistrySpec => []NothingLeaks
<1>1. RegistryInit => PhaseInv /\ LeakInv
  BY OrderFacts DEF RegistryInit, PhaseInv, LeakInv, Phases
<1>2. LeakInv => NothingLeaks
  BY DEF LeakInv, NothingLeaks
<1> QED
  BY <1>1, <1>2, PhaseStep, LeakStep, PTL DEF RegistrySpec

-----------------------------------------------------------------------------
(* One client of an embedded Qdrant.                                       *)

\* In a registry the shared one; otherwise that of the workspace in hand.
ClientInv ==
  /\ Registered => \A w \in Workspaces : Store(w) \notin opened
  /\ ~Registered =>
       /\ Client \notin opened
       /\ \A w \in Workspaces :
            Store(w) \in opened \ closeCalled => Store(w) = Store(Current)
       /\ \/ phase = "building" /\ stage \in {"none", "manifest"}
          \/ phase = "closing" /\ stage = "closed"
          => \A w \in Workspaces : Store(w) \notin opened \ closeCalled

LEMMA HandlesDiffer ==
  /\ \A v, w \in Workspaces : Manifest(v) # Store(w)
  /\ \A w \in Workspaces : Client # Manifest(w) /\ Client # Store(w)
BY DEF Client, Manifest, Store

LEMMA ClientStep ==
  PhaseInv /\ backing = "embedded" /\ ClientInv /\ [RegistryNext]_registryVars => ClientInv'
<1> SUFFICES ASSUME PhaseInv, backing = "embedded", ClientInv, [RegistryNext]_registryVars
             PROVE  ClientInv'
  OBVIOUS
<1> USE DEF ClientInv, PhaseInv, Keep, Registered
<1>1. CASE OpenStore
  <2>1. Current \in Workspaces
    BY <1>1, OrderFacts DEF OpenStore, Current
  <2> QED
    BY <1>1, <2>1, HandlesDiffer DEF OpenStore, Current, OwnsClient, Qdrant
<1>2. CASE OpenManifest
  <2>1. Current \in Workspaces
    BY <1>2, OrderFacts DEF OpenManifest, Current
  <2> QED
    BY <1>2, <2>1, HandlesDiffer DEF OpenManifest, Current
<1>3. CASE AddContext
  BY <1>3 DEF AddContext, Current
<1>4. CASE BuildFails
  BY <1>4 DEF BuildFails, Current
<1>5. CASE Preflight \/ StopCommand \/ Interrupt \/ StartWatchers
  BY <1>5 DEF Preflight, StopCommand, Interrupt, StartWatchers, Go, Current
<1>6. CASE \E w \in Workspaces :
             WatcherStops(w) \/ WatcherCrashes(w) \/ WatcherCancelled(w)
  BY <1>6 DEF WatcherStops, WatcherCrashes, WatcherCancelled, Current
<1>7. CASE CloseStore
  BY <1>7 DEF CloseStore, Current
<1>8. CASE CloseStoreRaises
  BY <1>8 DEF CloseStoreRaises, ContextClosed, Current
<1>9. CASE CloseManifest
  <2>1. opened' = opened /\ closeCalled \subseteq closeCalled' /\ command' = command
    BY <1>9 DEF CloseManifest
  <2>2. ~Registered => \A w \in Workspaces : Store(w) \notin opened' \ closeCalled'
    BY <1>9, <2>1 DEF CloseManifest
  <2> QED
    BY <2>1, <2>2
<1>10. CASE CloseClient
  BY <1>10 DEF CloseClient, Current
<1>11. CASE UNCHANGED registryVars
  BY <1>11 DEF registryVars, Current
<1> QED
  BY <1>1, <1>2, <1>3, <1>4, <1>5, <1>6, <1>7, <1>8, <1>9, <1>10, <1>11
  DEF RegistryNext

(* An embedded Qdrant never has two clients, for any number of workspaces: *)
(* a registry opens the shared one and no other, and `index` has closed    *)
(* one workspace's store before it opens the next's.                       *)
THEOREM OneEmbeddedClientHolds == RegistrySpec => []OneEmbeddedClient
<1> DEFINE Inv == PhaseInv /\ (backing = "embedded" => ClientInv)
<1>1. RegistryInit => Inv
  BY OrderFacts DEF RegistryInit, PhaseInv, ClientInv, Phases, Registered
<1>2. Inv /\ [RegistryNext]_registryVars => Inv'
  <2> SUFFICES ASSUME Inv, [RegistryNext]_registryVars PROVE Inv'
    OBVIOUS
  <2>1. backing' = backing
    BY DEF RegistryNext, registryVars, Keep, OpenStore, OpenManifest, AddContext, BuildFails,
           Preflight, StopCommand, StartWatchers, Interrupt, WatcherStops, WatcherCrashes,
           WatcherCancelled, CloseStore, CloseStoreRaises, CloseManifest, CloseClient
  <2> QED
    BY <2>1, PhaseStep, ClientStep
<1>3. Inv => OneEmbeddedClient
  <2> SUFFICES ASSUME Inv, backing = "embedded"
               PROVE  Cardinality((opened \ closeCalled) \cap
                        ({Client} \cup {Store(w) : w \in Workspaces})) <= 1
    BY DEF OneEmbeddedClient
  <2> DEFINE clients == (opened \ closeCalled) \cap
                          ({Client} \cup {Store(w) : w \in Workspaces})
  <2>1. PICK c : clients \subseteq {c}
    <3>1. CASE Registered
      BY <3>1 DEF ClientInv
    <3>2. CASE ~Registered
      BY <3>2 DEF ClientInv
    <3> QED
      BY <3>1, <3>2
  <2>2. clients = {} \/ clients = {c}
    BY <2>1
  <2>3. Cardinality({}) = 0 /\ Cardinality({c}) = 1
    BY FS_EmptySet, FS_Singleton
  <2>4. Cardinality(clients) <= 1
    <3> HIDE DEF clients
    <3> QED
      BY <2>2, <2>3
  <2> QED
    BY <2>4
<1> QED
  BY <1>1, <1>2, <1>3, PTL DEF RegistrySpec

-----------------------------------------------------------------------------
(* Only what was opened is closed, or reported as left open.               *)

Open(w) == Manifest(w) \in opened /\ (OwnsClient => Store(w) \in opened)

\* What the construction in hand has opened, what the contexts built before it
\* hold, and what the closing will find.
OpenInv ==
  /\ phase = "building" =>
       /\ stage \in {"store", "both"} /\ OwnsClient => Store(Current) \in opened
       /\ stage \in {"manifest", "both"} => Manifest(Current) \in opened
       /\ Registered => \A j \in 1..at - 1 : Open(Order[j])
  /\ phase \notin {"building", "ended"} =>
       IF Registered THEN \A w \in Workspaces : Open(w) ELSE Open(Current)

HandleInv ==
  /\ backing \in {"embedded", "server", "mongodb"}
  /\ watchers \subseteq contexts
  /\ opened \subseteq Handles /\ closeCalled \subseteq opened /\ skipped \subseteq opened

LEMMA OpenStep == PhaseInv /\ OpenInv /\ [RegistryNext]_registryVars => OpenInv'
<1> SUFFICES ASSUME PhaseInv, OpenInv, [RegistryNext]_registryVars PROVE OpenInv'
  OBVIOUS
<1> USE DEF OpenInv, Open, PhaseInv, Keep, Registered, Qdrant, OwnsClient
<1>1. CASE OpenStore
  BY <1>1 DEF OpenStore, Current
<1>2. CASE OpenManifest
  BY <1>2 DEF OpenManifest, Current
<1>3. CASE AddContext
  <2>1. Open(Current)
    BY <1>3 DEF AddContext
  <2>2. CASE Registered /\ at < Len(Order)
    <3>1. \A j \in 1..at' - 1 : j = at \/ j \in 1..at - 1
      BY <1>3, <2>2, OrderFacts DEF AddContext
    <3> QED
      BY <1>3, <2>1, <2>2, <3>1 DEF AddContext, Current
  <2>3. CASE Registered /\ ~(at < Len(Order))
    <3>1. \A j \in 1..Len(Order) : j = at \/ j \in 1..at - 1
      BY <1>3, <2>3, OrderFacts DEF AddContext
    <3>2. \A j \in 1..Len(Order) : Open(Order[j])
      BY <1>3, <2>1, <2>3, <3>1 DEF AddContext, Current
    <3>3. \A w \in Workspaces : Open(w)
      BY <3>2, OrderFacts DEF Workspaces
    <3> QED
      BY <1>3, <2>3, <3>3 DEF AddContext
  <2>4. CASE ~Registered
    BY <1>3, <2>1, <2>4 DEF AddContext, Current
  <2> QED
    BY <2>2, <2>3, <2>4
<1>4. CASE BuildFails
  BY <1>4 DEF BuildFails
<1>5. CASE Preflight \/ StopCommand \/ Interrupt \/ StartWatchers
  BY <1>5 DEF Preflight, StopCommand, Interrupt, StartWatchers, Go, Current
<1>6. CASE \E w \in Workspaces :
             WatcherStops(w) \/ WatcherCrashes(w) \/ WatcherCancelled(w)
  BY <1>6 DEF WatcherStops, WatcherCrashes, WatcherCancelled, Current
<1>7. CASE CloseStore
  BY <1>7 DEF CloseStore, Current
<1>8. CASE CloseStoreRaises
  BY <1>8 DEF CloseStoreRaises, ContextClosed, Current
<1>9. CASE CloseManifest
  BY <1>9 DEF CloseManifest, ContextClosed, Current
<1>10. CASE CloseClient
  BY <1>10 DEF CloseClient
<1>11. CASE UNCHANGED registryVars
  BY <1>11 DEF registryVars, Current
<1> QED
  BY <1>1, <1>2, <1>3, <1>4, <1>5, <1>6, <1>7, <1>8, <1>9, <1>10, <1>11
  DEF RegistryNext

LEMMA HandleStep ==
  PhaseInv /\ OpenInv /\ HandleInv /\ [RegistryNext]_registryVars => HandleInv'
<1> SUFFICES ASSUME PhaseInv, OpenInv, HandleInv, [RegistryNext]_registryVars
             PROVE  HandleInv'
  OBVIOUS
<1> USE DEF HandleInv, PhaseInv, Keep, Registered
<1>1. CASE OpenStore \/ OpenManifest
  <2>1. Current \in Workspaces
    BY <1>1, OrderFacts DEF OpenStore, OpenManifest, Current
  <2>2. {Client, Store(Current), Manifest(Current)} \subseteq Handles
    BY <2>1 DEF Handles
  <2> QED
    BY <1>1, <2>2 DEF OpenStore, OpenManifest
<1>2. CASE AddContext
  BY <1>2 DEF AddContext
<1>3. CASE BuildFails
  BY <1>3 DEF BuildFails, ClosedByContext, LeftByContext
<1>4. CASE Preflight \/ StopCommand \/ Interrupt \/ StartWatchers
  BY <1>4 DEF Preflight, StopCommand, Interrupt, StartWatchers
<1>5. CASE \E w \in Workspaces :
             WatcherStops(w) \/ WatcherCrashes(w) \/ WatcherCancelled(w)
  BY <1>5 DEF WatcherStops, WatcherCrashes, WatcherCancelled
<1>6. CASE CloseStore
  BY <1>6 DEF CloseStore
<1>7. CASE CloseStoreRaises \/ CloseManifest
  <2>1. phase = "closing" /\ at \in 1..Len(Order)
    <3>1. CASE CloseStoreRaises
      BY <3>1, OrderFacts DEF CloseStoreRaises
    <3>2. CASE CloseManifest
      BY <3>2 DEF CloseManifest
    <3> QED
      BY <1>7, <3>1, <3>2
  <2>2. Open(Current)
    <3>1. Current \in Workspaces
      BY <2>1, OrderFacts DEF Current
    <3> QED
      BY <2>1, <3>1 DEF OpenInv
  <2> QED
    BY <1>7, <2>2 DEF CloseStoreRaises, CloseManifest, Open
<1>8. CASE CloseClient
  BY <1>8 DEF CloseClient
<1>9. CASE UNCHANGED registryVars
  BY <1>9 DEF registryVars
<1> QED
  BY <1>1, <1>2, <1>3, <1>4, <1>5, <1>6, <1>7, <1>8, <1>9 DEF RegistryNext

(* Every variable keeps its type: no close is called on what was never     *)
(* opened, nothing is reported as left open that was not, and no watcher   *)
(* runs without a context.  (from_config, _abandon, close)                 *)
THEOREM RegistryTypes == RegistrySpec => []RegistryTypeOK
<1>1. RegistryInit => PhaseInv /\ OpenInv /\ HandleInv
  BY OrderFacts DEF RegistryInit, PhaseInv, OpenInv, HandleInv, Phases
<1>2. PhaseInv /\ HandleInv => RegistryTypeOK
  BY DEF PhaseInv, HandleInv, RegistryTypeOK
<1> QED
  BY <1>1, <1>2, PhaseStep, OpenStep, HandleStep, PTL DEF RegistrySpec

-----------------------------------------------------------------------------
(* The services side by side.                                              *)

LEMMA EachTakesItsSteps ==
  /\ Init => ChunkingInit /\ StoresInit /\ SearchInit /\ RegistryInit
  /\ [Next]_servicesVars => /\ [ChunkingNext]_chunkingVars
                            /\ [StoresNext]_storesVars
                            /\ [SearchNext]_searchVars
                            /\ [RegistryNext]_registryVars
BY DEF Init, Next, servicesVars

LEMMA EachIsItself ==
  Spec => ChunkingSpec /\ StoresSpec /\ SearchSpec /\ RegistrySpec
BY EachTakesItsSteps, PTL
   DEF Spec, ChunkingSpec, StoresSpec, SearchSpec, RegistrySpec

(* Every service keeps its types, whichever of them moves.                 *)
THEOREM AllTypes == Spec => []TypesOK
<1>1. ChunkingTypeOK /\ StoresTypeOK /\ SearchTypeOK /\ RegistryTypeOK
        => TypesOK
  BY DEF TypesOK
<1>2. StoresTypeOK /\ HandInv => StoresTypeOK
  OBVIOUS
<1> QED
  BY <1>1, <1>2, EachIsItself, ChunkingType, StoresTypes, SearchTypes, RegistryTypes, PTL

(* The specification that the run explores has every invariant that the    *)
(* components have by themselves: no run of the services leaves a line out *)
(* of its chunks, a claim without its vector, a stale hit without its flag *)
(* (but for the kinds of file that UnflaggedIsCurrent names) or a client   *)
(* open.                                                                   *)
THEOREM ServicesAreSafe ==
  Spec => /\ [](TextIsAtItsLines /\ EveryLineIsInAChunk /\ CutsAreWhereTheyMayBe)
          /\ [](ClaimedIsStored /\ MirrorHoldsSource)
          /\ [](UnflaggedIsCurrent /\ AnswerIsFull /\ DialectsAgree /\ ResponseFits)
          /\ [](NothingLeaks /\ NoUseAfterClose /\ OneEmbeddedClient)
<1>1. ChunkingSpec => [](TextIsAtItsLines /\ EveryLineIsInAChunk /\ CutsAreWhereTheyMayBe)
  BY ChunksAreWhereTheySay, NoLineIsLost, OnlyWhatMayBeIsCut, PTL
<1>2. StoresSpec => [](ClaimedIsStored /\ MirrorHoldsSource)
  BY ClaimsAreStored, MirrorsAreComplete, PTL
<1>3. SearchSpec => [](UnflaggedIsCurrent /\ AnswerIsFull /\ DialectsAgree /\ ResponseFits)
  BY UnflaggedIsCurrentHolds, AnswerIsFullHolds, DialectsMeanTheSame, ResponseFitsHolds, PTL
<1>4. RegistrySpec => [](NothingLeaks /\ NoUseAfterClose /\ OneEmbeddedClient)
  BY NothingLeaksHolds, NoUseAfterCloseHolds, OneEmbeddedClientHolds, PTL
<1> QED
  BY <1>1, <1>2, <1>3, <1>4, EachIsItself, PTL

=============================================================================
