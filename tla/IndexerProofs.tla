---------------------------- MODULE IndexerProofs ----------------------------
(***************************************************************************)
(* Theorems about Indexer, for every workspace, chunker and interleaving:  *)
(* the order of its writes, what removal may touch, and what a completed   *)
(* run leaves behind: what it may have deleted, what --force repairs, that *)
(* the manifest and the store come to say what is on disk.                 *)
(***************************************************************************)
EXTENDS Indexer, FiniteSetTheorems, TLAPS

-----------------------------------------------------------------------------
(* What the operators return.                                              *)

LEMMA ChunkerTypes ==
  ASSUME NEW f \in Files, NEW c \in Contents
  PROVE  Chunker(f, c) \in ChunkerNames
BY IndexerAssumption
   DEF Chunker, ChunkerByKind, KindRead, Kinds, ChunkerNames

LEMMA ProducedType ==
  ASSUME NEW f \in Files, NEW c \in Contents,
         version \in [ChunkerNames -> 1..MaxVersion]
  PROVE  \A made \in Produced(f, c) : made \subseteq Chunks
<1>1. /\ Chunker(f, c) \in ChunkerNames /\ "text" \in ChunkerNames
      /\ version["text"] \in 1..MaxVersion
      /\ version[Chunker(f, c)] \in 1..MaxVersion
  BY ChunkerTypes DEF ChunkerNames
<1> QED
  BY <1>1, SplitAssumption DEF Produced, ChunkedBy, Degraded

\* What chunking gives now is among what a row may have been given.
LEMMA ProducedStands ==
  ASSUME NEW f, NEW c, version \in [ChunkerNames -> 1..MaxVersion]
  PROVE  Produced(f, c) \subseteq Standing(f, c)
<1>1. version["text"] \in 1..MaxVersion
  BY DEF ChunkerNames
<1> QED
  BY <1>1 DEF Produced, Standing, ChunkedBy, Degraded

\* Both depend on the installed chunkers only.
LEMMA ChunkedAlike ==
  ASSUME NEW f, version' = version, disk'[f] = disk[f]
  PROVE  /\ Produced(f, disk[f].content)' = Produced(f, disk[f].content)
         /\ Standing(f, disk[f].content)' = Standing(f, disk[f].content)
BY DEF Produced, Standing, ChunkedBy, Degraded, Withheld, Chunker, KindRead

LEMMA EmptyManifestType == EmptyManifest \in Tables
BY DEF EmptyManifest, Tables

LEMMA TouchType ==
  ASSUME NEW m \in Tables, NEW f \in Recorded(m), NEW t \in Nat
  PROVE  Touch(m, f, t) \in Tables
<1>1. f \in Files /\ m.files[f] \in Row
  BY DEF Recorded, Tables
<1>2. [m.files[f] EXCEPT !.mtime = t] \in Row
  BY <1>1 DEF Row
<1> QED
  BY <1>1, <1>2 DEF Touch, Tables

LEMMA ForgetFileType ==
  ASSUME NEW m \in Tables, NEW f \in Files
  PROVE  ForgetFile(m, f) \in Tables
BY DEF ForgetFile, Tables

LEMMA RecordAllType ==
  ASSUME NEW m \in Tables, NEW s \in Spaces, NEW ps \in SUBSET Pending
  PROVE  RecordAll(m, ps, s) \in Tables
<1> DEFINE of(f) == CHOOSE p \in ps : p.file = f
           written == {p.file : p \in ps}
<1>1. \A f \in written : of(f) \in Pending
  OBVIOUS
<1>2. \A f \in written : of(f).row \in Row /\ of(f).produced \in SUBSET Chunks
  BY <1>1 DEF Pending
<1> HIDE DEF of, written
<1>3. [f \in Files |-> IF f \in written THEN of(f).row ELSE m.files[f]]
        \in [Files -> Row \cup {None}]
  BY <1>2 DEF Tables
<1>4. [f \in Files |-> IF f \in written THEN m.spaces[f] \cup {s} ELSE m.spaces[f]]
        \in [Files -> SUBSET Spaces]
  BY DEF Tables
<1>5. [t \in Spaces |-> [f \in Files |->
         IF t = s /\ f \in written
         THEN (m.chunks[t][f] \ of(f).delete) \cup of(f).produced
         ELSE m.chunks[t][f]]] \in [Spaces -> [Files -> SUBSET Chunks]]
  BY <1>2 DEF Tables
<1> QED
  BY <1>3, <1>4, <1>5 DEF RecordAll, Tables, of, written

LEMMA DecisionTouches ==
  ASSUME NEW f \in Files, Decision(f) = "skip_same_content"
  PROVE  manifest.files[f] # None
BY DEF Decision, StatDecision, DecideFromStat, DecideFromHash

LEMMA PendingFileType ==
  ASSUME TypeOK, pc # "idle", NEW f \in todo, disk[f] # None,
         NEW made \in Produced(f, disk[f].content)
  PROVE  PendingFile(f, made) \in Pending
<1>1. /\ f \in Files /\ stat[f] \in Nat
      /\ disk[f].content \in Contents
      /\ opts.space \in Spaces
  BY DEF TypeOK, OnDisk, Options
<1> DEFINE c == disk[f].content
<1>2. made \in SUBSET Chunks /\ Chunker(f, c) \in ChunkerNames
  BY <1>1, ProducedType, ChunkerTypes DEF TypeOK
<1>3. version[Chunker(f, c)] \in Nat
  BY <1>2, IndexerAssumption DEF TypeOK
<1>4. manifest.chunks[opts.space][f] \in SUBSET Chunks
  BY <1>1 DEF TypeOK, Tables
<1> QED
  BY <1>1, <1>2, <1>3, <1>4 DEF PendingFile, Pending, Row, DiffChunks

LEMMA WithVectorsType ==
  ASSUME store \in [Spaces -> [Files -> SUBSET Chunks]],
         NEW chosen, \A p \in pending : chosen[p] \in SUBSET Chunks
  PROVE  WithVectors(chosen) \in [Spaces -> [Files -> SUBSET Chunks]]
<1>1. \A f \in Files :
        UNION {chosen[p] : p \in {q \in pending : q.file = f}} \in SUBSET Chunks
  OBVIOUS
<1> QED
  BY <1>1 DEF WithVectors

-----------------------------------------------------------------------------
(* Type correctness.                                                       *)

LEMMA TypeInit == Init => TypeOK
<1> SUFFICES ASSUME Init PROVE TypeOK
  OBVIOUS
<1>1. manifest \in Tables
  BY EmptyManifestType DEF Init
<1>2. /\ disk \in [Files -> OnDisk \cup {None}]
      /\ clock \in 0..MaxClock /\ aborts \in 0..MaxAborts
      /\ mounted \subseteq Roots /\ configured \subseteq Roots
      /\ version \in [ChunkerNames -> 1..MaxVersion]
      /\ store \in [Spaces -> [Files -> SUBSET Chunks]]
  BY IndexerAssumption DEF Init
<1>3. /\ pc \in Phases /\ opts \in Options \cup {None}
      /\ pc # "idle" => opts \in Options
      /\ stat \in [Files -> Nat \cup {None}]
      /\ victim \in Files \cup {None}
      /\ todo \subseteq {f \in Files : stat[f] # None}
      /\ pending \in SUBSET Pending
      /\ roots \subseteq Roots /\ unwalked \subseteq Files
      /\ unobservable \subseteq Roots /\ condemned \subseteq Files
      /\ steady \subseteq Files /\ observed \subseteq Roots
      /\ before \subseteq Files
  BY DEF Init, Idle, Phases
<1> QED
  BY <1>1, <1>2, <1>3 DEF TypeOK

\* A run that is over has the types of no run at all.
LEMMA TypeReset ==
  ASSUME TypeOK, Reset, UNCHANGED <<outside, manifest>>,
         store' \in [Spaces -> [Files -> SUBSET Chunks]],
         aborts' \in 0..MaxAborts
  PROVE  TypeOK'
BY DEF TypeOK, Reset, outside, Phases

LEMMA TypeStep == TypeOK /\ [Next]_vars => TypeOK'
<1> SUFFICES ASSUME TypeOK, [Next]_vars PROVE TypeOK'
  OBVIOUS
<1> USE DEF outside, run, ghosts
<1>1. ASSUME NEW f \in Files, NEW c \in Contents, Edit(f, c) PROVE TypeOK'
  <2>1. clock' \in 1..MaxClock
    BY <1>1, IndexerAssumption DEF Edit, TypeOK
  <2>2. disk' \in [Files -> OnDisk \cup {None}]
    BY <1>1, <2>1 DEF Edit, TypeOK, OnDisk
  <2> QED
    BY <1>1, <2>1, <2>2 DEF Edit, TypeOK
<1>2. ASSUME NEW f \in Files, Delete(f) PROVE TypeOK'
  BY <1>2 DEF Delete, TypeOK
<1>3. ASSUME NEW r \in Roots, Unmount(r) \/ Mount(r) PROVE TypeOK'
  BY <1>3 DEF Unmount, Mount, TypeOK
<1>4. ASSUME NEW r \in Roots, Reconfigure(r) PROVE TypeOK'
  BY <1>4 DEF Reconfigure, TypeOK
<1>5. ASSUME NEW n \in ChunkerNames, Upgrade(n) PROVE TypeOK'
  <2>1. version' \in [ChunkerNames -> 1..MaxVersion]
    BY <1>5, IndexerAssumption DEF Upgrade, TypeOK
  <2> QED
    BY <1>5, <2>1 DEF Upgrade, TypeOK
<1>6. ASSUME NEW o \in RunOptions, StartRun(o) PROVE TypeOK'
  BY <1>6, IndexerAssumption DEF StartRun, TypeOK, Phases, Recorded
<1>7. ASSUME NEW r \in Roots, WalkRoot(r) PROVE TypeOK'
  BY <1>7 DEF WalkRoot, TypeOK, FilesOf
<1>8. ASSUME NEW f \in Files, WalkFile(f) PROVE TypeOK'
  <2>1. CASE Readable(f)
    <3>1. disk[f].mtime \in Nat /\ disk[f].mtime # None
      BY <2>1, IndexerAssumption, RowAssumption DEF Readable, TypeOK, OnDisk
    <3> QED
      BY <1>8, <2>1, <3>1 DEF WalkFile, TypeOK
  <2>2. CASE ~Readable(f)
    BY <1>8, <2>2 DEF WalkFile, TypeOK
  <2> QED
    BY <2>1, <2>2
<1>9. ASSUME NEW f \in Files, WalkMisses(f) PROVE TypeOK'
  BY <1>9 DEF WalkMisses, TypeOK
<1>10. CASE EndWalk
  BY <1>10 DEF EndWalk, TypeOK, Phases
<1>11. ASSUME NEW f \in Files,
              PrepareSkip(f) \/ PrepareVanished(f) \/ PrepareWithheld(f)
                \/ PrepareFails(f)
       PROVE TypeOK'
  BY <1>11 DEF PrepareSkip, PrepareVanished, PrepareWithheld, PrepareFails,
               Prepare, TypeOK
<1>12. ASSUME NEW f \in Files, PrepareTouch(f) PROVE TypeOK'
  <2>1. f \in Recorded(manifest)
    BY <1>12, DecisionTouches DEF PrepareTouch, Recorded
  <2>2. manifest \in Tables /\ stat[f] \in Nat
    BY <1>12 DEF PrepareTouch, Prepare, TypeOK
  <2>3. manifest' \in Tables
    BY <1>12, <2>1, <2>2, TouchType DEF PrepareTouch
  <2> QED
    BY <1>12, <2>3 DEF PrepareTouch, Prepare, TypeOK
<1>13. ASSUME NEW f \in Files, PrepareQueue(f) PROVE TypeOK'
  <2>1. PICK made \in Produced(f, disk[f].content) :
               pending' = pending \cup {PendingFile(f, made)}
    BY <1>13 DEF PrepareQueue
  <2>2. PendingFile(f, made) \in Pending
    BY <1>13, PendingFileType DEF PrepareQueue, Prepare, Readable
  <2> QED
    BY <1>13, <2>1, <2>2 DEF PrepareQueue, Prepare, TypeOK, Phases
<1>14. CASE FlushRest \/ EndPrepare \/ DryFlush
  BY <1>14 DEF FlushRest, EndPrepare, DryFlush, TypeOK, Phases
<1>15. CASE Upsert
  <2>1. store' \in [Spaces -> [Files -> SUBSET Chunks]]
    <3> DEFINE chosen == [p \in pending |-> p.upsert]
    <3>1. \A p \in pending : chosen[p] \in SUBSET Chunks
      BY DEF TypeOK, Pending
    <3> HIDE DEF chosen
    <3>2. WithVectors(chosen) \in [Spaces -> [Files -> SUBSET Chunks]]
      BY <3>1, WithVectorsType DEF TypeOK
    <3> QED
      BY <1>15, <3>2 DEF Upsert, chosen
  <2> QED
    BY <1>15, <2>1 DEF Upsert, TypeOK, Phases
<1>16. CASE DeleteStale
  <2>1. store' \in [Spaces -> [Files -> SUBSET Chunks]]
    BY <1>16 DEF DeleteStale, TypeOK
  <2> QED
    BY <1>16, <2>1 DEF DeleteStale, TypeOK, Phases
<1>17. CASE Commit
  <2>1. manifest' \in Tables
    BY <1>17, RecordAllType DEF Commit, TypeOK, Options
  <2> QED
    BY <1>17, <2>1 DEF Commit, TypeOK, Phases
<1>18. ASSUME NEW f \in Files, DropVectors(f) PROVE TypeOK'
  <2>1. store' \in [Spaces -> [Files -> SUBSET Chunks]]
    BY <1>18 DEF DropVectors, TypeOK
  <2> QED
    BY <1>18, <2>1 DEF DropVectors, TypeOK
<1>19. CASE ForgetVictim
  <2>1. victim \in Files /\ manifest \in Tables
    BY <1>19 DEF ForgetVictim, TypeOK
  <2>2. manifest' \in Tables
    BY <1>19, <2>1, ForgetFileType DEF ForgetVictim
  <2> QED
    BY <1>19, <2>2 DEF ForgetVictim, TypeOK
<1>20. CASE PickOrphans
  <2>1. condemned' \subseteq Files
    BY <1>20 DEF PickOrphans, Orphans, Recorded
  <2> QED
    BY <1>20, <2>1 DEF PickOrphans, TypeOK, Phases
<1>21. CASE FinishRun
  BY <1>21, TypeReset DEF FinishRun, TypeOK
<1>22. CASE Abort
  <2>1. aborts' \in 0..MaxAborts
    BY <1>22, IndexerAssumption DEF Abort, TypeOK
  <2> QED
    BY <1>22, <2>1, TypeReset DEF Abort, TypeOK
<1>23. CASE AbortUpsert
  <2>1. store' \in [Spaces -> [Files -> SUBSET Chunks]]
    <3>1. PICK landed \in SUBSET UNION {{<<p.file, x>> : x \in p.upsert} : p \in pending} :
            store' = WithVectors([p \in pending |->
                                    {x \in p.upsert : <<p.file, x>> \in landed}])
      BY <1>23 DEF AbortUpsert
    <3> DEFINE chosen == [p \in pending |->
                            {x \in p.upsert : <<p.file, x>> \in landed}]
    <3>2. \A p \in pending : chosen[p] \in SUBSET Chunks
      BY DEF TypeOK, Pending
    <3> HIDE DEF chosen
    <3>3. WithVectors(chosen) \in [Spaces -> [Files -> SUBSET Chunks]]
      BY <3>2, WithVectorsType DEF TypeOK
    <3> QED
      BY <3>1, <3>3 DEF chosen
  <2>2. aborts' \in 0..MaxAborts
    BY <1>23, IndexerAssumption DEF AbortUpsert, TypeOK
  <2> QED
    BY <1>23, <2>1, <2>2, TypeReset DEF AbortUpsert
<1>24. CASE UNCHANGED vars
  BY <1>24 DEF vars, TypeOK
<1> QED
  BY <1>1, <1>2, <1>3, <1>4, <1>5, <1>6, <1>7, <1>8, <1>9, <1>10, <1>11,
     <1>12, <1>13, <1>14, <1>15, <1>16, <1>17, <1>18, <1>19, <1>20, <1>21,
     <1>22, <1>23, <1>24
     DEF Next, Outside, Progress, Failure, Walk, PrepareOne, Flush, Remove

(* The manifest, the store and every variable of a run keep their types:   *)
(* in particular no step of the ladder updates a row that is not there,    *)
(* and a candidate always has the stat() the walk took of it.              *)
THEOREM TypeCorrect == Spec => []TypeOK
<1> QED
  BY TypeInit, TypeStep, PTL DEF Spec

-----------------------------------------------------------------------------
(* The order of the writes.                                                *)

\* A file is pending once, is not a candidate any more, and the delta it was
\* prepared with is still the one against the manifest.
PendingInv ==
  /\ pending # {} => pc \in {"prepare", "upsert", "delete", "commit"}
  /\ \A p, q \in pending : p.file = q.file => p = q
  /\ \A p \in pending :
       /\ p.file \notin todo
       /\ p.upsert \subseteq p.produced
       /\ p.delete = manifest.chunks[opts.space][p.file] \ p.produced
       /\ p.produced \ manifest.chunks[opts.space][p.file] \subseteq p.upsert

\* How far the two databases are apart while the run is between them.
StoreInv ==
  /\ pc \in {"delete", "commit"} =>
       \A p \in pending : p.upsert \subseteq store[opts.space][p.file]
  /\ pc = "commit" =>
       \A p \in pending : p.delete \cap store[opts.space][p.file] = {}
  /\ victim # None =>
       pc \in {"purge", "orphans"} /\ store[opts.space][victim] = {}

WriteInv == TypeOK /\ PendingInv /\ StoreInv

LEMMA TouchChunks ==
  ASSUME NEW m \in Tables, NEW f, NEW t
  PROVE  Touch(m, f, t).chunks = m.chunks
BY DEF Touch, Tables

LEMMA PendingFileDelta ==
  ASSUME NEW f, NEW made
  PROVE  LET p      == PendingFile(f, made)
             chunks == manifest.chunks[opts.space][f]
         IN /\ p.file = f
            /\ p.upsert \subseteq p.produced
            /\ p.delete = chunks \ p.produced
            /\ p.produced \ chunks \subseteq p.upsert
BY DEF PendingFile, DiffChunks

LEMMA WriteInit == Init => PendingInv /\ StoreInv
BY DEF Init, Idle, PendingInv, StoreInv

\* Steps that leave alone everything the invariant speaks of.
LEMMA WriteUnchanged ==
  ASSUME PendingInv, StoreInv,
         UNCHANGED <<pending, todo, manifest, opts, pc, store, victim>>
  PROVE  PendingInv' /\ StoreInv'
BY DEF PendingInv, StoreInv

LEMMA WriteReset ==
  ASSUME Reset
  PROVE  PendingInv' /\ StoreInv'
BY DEF Reset, PendingInv, StoreInv

LEMMA WriteStep == WriteInv /\ [Next]_vars => PendingInv' /\ StoreInv'
<1> SUFFICES ASSUME WriteInv, [Next]_vars PROVE PendingInv' /\ StoreInv'
  OBVIOUS
<1> USE DEF outside, run, ghosts
<1>1. CASE Outside
  BY <1>1, WriteUnchanged
     DEF Outside, Edit, Delete, Unmount, Mount, Reconfigure, Upgrade, WriteInv
<1>2. ASSUME NEW o \in RunOptions, StartRun(o) PROVE PendingInv' /\ StoreInv'
  BY <1>2 DEF StartRun, WriteInv, PendingInv, StoreInv
<1>3. ASSUME NEW r \in Roots, WalkRoot(r) PROVE PendingInv' /\ StoreInv'
  BY <1>3, WriteUnchanged DEF WalkRoot, WriteInv
<1>4. ASSUME NEW f \in Files, WalkFile(f) \/ WalkMisses(f)
      PROVE PendingInv' /\ StoreInv'
  BY <1>4 DEF WalkFile, WalkMisses, WriteInv, PendingInv, StoreInv
<1>5. CASE EndWalk
  BY <1>5 DEF EndWalk, WriteInv, PendingInv, StoreInv
<1>6. ASSUME NEW f \in Files,
             PrepareSkip(f) \/ PrepareVanished(f) \/ PrepareWithheld(f)
               \/ PrepareFails(f)
      PROVE PendingInv' /\ StoreInv'
  BY <1>6 DEF PrepareSkip, PrepareVanished, PrepareWithheld, PrepareFails,
              Prepare, WriteInv, PendingInv, StoreInv
<1>7. ASSUME NEW f \in Files, PrepareTouch(f) PROVE PendingInv' /\ StoreInv'
  <2>1. manifest'.chunks = manifest.chunks
    BY <1>7, TouchChunks DEF PrepareTouch, WriteInv, TypeOK
  <2> QED
    BY <1>7, <2>1 DEF PrepareTouch, Prepare, WriteInv, PendingInv, StoreInv
<1>8. ASSUME NEW f \in Files, PrepareQueue(f) PROVE PendingInv' /\ StoreInv'
  <2>0. PICK made \in Produced(f, disk[f].content) :
               pending' = pending \cup {PendingFile(f, made)}
    BY <1>8 DEF PrepareQueue
  <2> DEFINE p == PendingFile(f, made)
  <2>1. /\ p.file = f
        /\ p.upsert \subseteq p.produced
        /\ p.delete = manifest.chunks[opts.space][f] \ p.produced
        /\ p.produced \ manifest.chunks[opts.space][f] \subseteq p.upsert
    BY PendingFileDelta
  <2>2. pending' = pending \cup {p}
    BY <2>0
  <2> HIDE DEF p
  <2>3. \A q \in pending : q.file # f
    BY <1>8 DEF PrepareQueue, Prepare, WriteInv, PendingInv
  <2>4. PendingInv'
    BY <1>8, <2>1, <2>2, <2>3
       DEF PrepareQueue, Prepare, WriteInv, PendingInv
  <2>5. StoreInv'
    BY <1>8 DEF PrepareQueue, Prepare, WriteInv, StoreInv
  <2> QED
    BY <2>4, <2>5
<1>9. CASE FlushRest \/ EndPrepare
  BY <1>9 DEF FlushRest, EndPrepare, WriteInv, PendingInv, StoreInv
<1>10. CASE DryFlush
  BY <1>10 DEF DryFlush, WriteInv, PendingInv, StoreInv
<1>11. CASE Upsert
  <2> DEFINE chosen == [p \in pending |-> p.upsert]
  <2>1. store' = WithVectors(chosen)
    BY <1>11 DEF Upsert
  <2>2. \A p \in pending : p.file \in Files /\ opts.space \in Spaces
    BY <1>11 DEF Upsert, WriteInv, TypeOK, Pending, Options
  <2>3. \A p \in pending : chosen[p] \subseteq store'[opts.space][p.file]
    BY <2>1, <2>2 DEF WithVectors, WriteInv, TypeOK
  <2>4. \A p \in pending : p.upsert \subseteq store'[opts.space][p.file]
    BY <2>3
  <2> QED
    BY <1>11, <2>4 DEF Upsert, WriteInv, PendingInv, StoreInv
<1>12. CASE DeleteStale
  <2>1. ASSUME NEW p \in pending
        PROVE  store'[opts.space][p.file] = store[opts.space][p.file] \ p.delete
    <3>1. p.file \in Files /\ opts.space \in Spaces
      BY <1>12 DEF DeleteStale, WriteInv, TypeOK, Pending, Options
    <3>2. {q \in pending : q.file = p.file} = {p}
      BY DEF WriteInv, PendingInv
    <3>3. UNION {q.delete : q \in {q \in pending : q.file = p.file}} = p.delete
      BY <3>2
    <3>4. store'[opts.space][p.file]
            = store[opts.space][p.file]
                \ UNION {q.delete : q \in {q \in pending : q.file = p.file}}
      BY <1>12, <3>1 DEF DeleteStale, WriteInv, TypeOK
    <3> QED
      BY <3>3, <3>4
  <2>2. \A p \in pending : p.upsert \cap p.delete = {}
    BY DEF WriteInv, PendingInv
  <2> QED
    BY <1>12, <2>1, <2>2 DEF DeleteStale, WriteInv, PendingInv, StoreInv
<1>13. CASE Commit
  BY <1>13 DEF Commit, WriteInv, PendingInv, StoreInv
<1>14. ASSUME NEW f \in Files, DropVectors(f) PROVE PendingInv' /\ StoreInv'
  <2>1. store'[opts.space][f] = {}
    BY <1>14 DEF DropVectors, WriteInv, TypeOK, Options
  <2> QED
    BY <1>14, <2>1 DEF DropVectors, WriteInv, PendingInv, StoreInv
<1>15. CASE ForgetVictim
  BY <1>15 DEF ForgetVictim, WriteInv, PendingInv, StoreInv
<1>16. CASE PickOrphans
  BY <1>16 DEF PickOrphans, WriteInv, PendingInv, StoreInv
<1>17. CASE FinishRun \/ Abort \/ AbortUpsert
  BY <1>17, WriteReset DEF FinishRun, Abort, AbortUpsert
<1>18. CASE UNCHANGED vars
  BY <1>18, WriteUnchanged DEF vars, WriteInv
<1> QED
  BY <1>1, <1>2, <1>3, <1>4, <1>5, <1>6, <1>7, <1>8, <1>9, <1>10, <1>11,
     <1>12, <1>13, <1>14, <1>15, <1>16, <1>17, <1>18
     DEF Next, Progress, Failure, Walk, PrepareOne, Flush, Remove

(* A pending file is pending once, its delta is still the difference with  *)
(* the manifest, and each phase of a flush or of a removal has done its    *)
(* part in the store.  (_flush, _purge, _remove_orphans)                   *)
THEOREM WriteInvariant == Spec => []WriteInv
<1>1. Init => WriteInv
  BY TypeInit, WriteInit DEF WriteInv
<1>2. WriteInv /\ [Next]_vars => WriteInv'
  BY TypeStep, WriteStep DEF WriteInv
<1> QED
  BY <1>1, <1>2, PTL DEF Spec

LEMMA ChunksChange ==
  ASSUME TypeOK, [Next]_vars
  PROVE  Commit \/ ForgetVictim \/ manifest'.chunks = manifest.chunks
<1> USE DEF outside, run, ghosts
<1>1. CASE Outside
  BY <1>1 DEF Outside, Edit, Delete, Unmount, Mount, Reconfigure, Upgrade
<1>2. CASE \E o \in RunOptions : StartRun(o)
  BY <1>2 DEF StartRun
<1>3. CASE Walk \/ EndPrepare \/ FinishRun
  BY <1>3 DEF Walk, WalkRoot, WalkFile, EndWalk, EndPrepare, FinishRun
<1>4. CASE PrepareOne
  <2>1. ASSUME NEW f \in Files, PrepareTouch(f)
        PROVE  manifest'.chunks = manifest.chunks
    BY <2>1, TouchChunks DEF PrepareTouch, TypeOK
  <2> QED
    BY <1>4, <2>1 DEF PrepareOne, PrepareSkip, PrepareVanished,
                      PrepareWithheld, PrepareQueue
<1>5. CASE Flush \/ Remove
  BY <1>5 DEF Flush, FlushRest, DryFlush, Upsert, DeleteStale, Remove,
              DropVectors, PickOrphans
<1>6. CASE Failure
  BY <1>6 DEF Failure, WalkMisses, PrepareFails, Abort, AbortUpsert
<1>7. CASE UNCHANGED vars
  BY <1>7 DEF vars
<1> QED
  BY <1>1, <1>2, <1>3, <1>4, <1>5, <1>6, <1>7 DEF Next, Progress

\* The chunk rows of one file and one space, after a commit.
LEMMA CommittedChunks ==
  ASSUME WriteInv, Commit, NEW s \in Spaces, NEW f \in Files
  PROVE  \/ manifest'.chunks[s][f] = manifest.chunks[s][f]
         \/ \E p \in pending :
              /\ p.file = f /\ s = opts.space
              /\ manifest'.chunks[s][f]
                   = (manifest.chunks[s][f] \ p.delete) \cup p.produced
<1>1. manifest' = RecordAll(manifest, pending, opts.space)
  BY DEF Commit
<1>2. CASE s = opts.space /\ f \in {p.file : p \in pending}
  <2> DEFINE q == CHOOSE p \in pending : p.file = f
  <2>1. q \in pending /\ q.file = f
    BY <1>2
  <2> HIDE DEF q
  <2>2. manifest'.chunks[s][f] = (manifest.chunks[s][f] \ q.delete) \cup q.produced
    BY <1>1, <1>2 DEF RecordAll, q
  <2> QED
    BY <1>2, <2>1, <2>2
<1>3. CASE ~(s = opts.space /\ f \in {p.file : p \in pending})
  BY <1>1, <1>3 DEF RecordAll
<1> QED
  BY <1>2, <1>3

(* Whatever is edited, fails or crashes, and wherever: no chunk is ever    *)
(* recorded whose vector is not in the store at that moment.  (_flush)     *)
THEOREM RecordedAfterStoredHolds == Spec => RecordedAfterStored
<1> DEFINE A == \A s \in Spaces, f \in Files :
                  manifest'.chunks[s][f] \ manifest.chunks[s][f] \subseteq store[s][f]
<1>1. ASSUME WriteInv, [Next]_vars PROVE A
  <2> SUFFICES ASSUME NEW s \in Spaces, NEW f \in Files
               PROVE  manifest'.chunks[s][f] \ manifest.chunks[s][f] \subseteq store[s][f]
    OBVIOUS
  <2>1. CASE Commit
    <3>1. CASE manifest'.chunks[s][f] = manifest.chunks[s][f]
      BY <3>1
    <3>2. ASSUME NEW p \in pending, p.file = f, s = opts.space,
                 manifest'.chunks[s][f]
                   = (manifest.chunks[s][f] \ p.delete) \cup p.produced
          PROVE  manifest'.chunks[s][f] \ manifest.chunks[s][f] \subseteq store[s][f]
      <4>1. p.produced \ manifest.chunks[s][f] \subseteq p.upsert
        BY <1>1, <3>2 DEF WriteInv, PendingInv
      <4>2. p.upsert \subseteq store[s][f]
        BY <1>1, <2>1, <3>2 DEF Commit, WriteInv, StoreInv
      <4> QED
        BY <3>2, <4>1, <4>2
    <3> QED
      BY <1>1, <2>1, <3>1, <3>2, CommittedChunks
  <2>2. CASE ForgetVictim
    BY <1>1, <2>2 DEF ForgetVictim, ForgetFile, WriteInv, TypeOK, Tables
  <2>3. CASE manifest'.chunks = manifest.chunks
    BY <2>3
  <2> QED
    BY <1>1, <2>1, <2>2, <2>3, ChunksChange DEF WriteInv
<1>2. WriteInv /\ [Next]_vars => [A]_vars
  BY <1>1
<1> QED
  BY <1>2, WriteInvariant, PTL DEF Spec, RecordedAfterStored

(* Nor is a chunk row ever dropped while its vector is still in the store  *)
(* of the space the run works for: each row outlives its vector, so what   *)
(* is left to remove stays on record.  (_flush, _purge, _remove_orphans)   *)
THEOREM VectorsNeverStrandedHolds == Spec => VectorsNeverStranded
<1> DEFINE gone(s, f) == manifest.chunks[s][f] \ manifest'.chunks[s][f]
           A == \A s \in Spaces, f \in Files :
                  opts # None /\ s = opts.space =>
                    (manifest.chunks[s][f] \ manifest'.chunks[s][f])
                      \cap store[s][f] = {}
<1>1. ASSUME WriteInv, [Next]_vars PROVE A
  <2> SUFFICES ASSUME NEW s \in Spaces, NEW f \in Files,
                      opts # None, s = opts.space
               PROVE  gone(s, f) \cap store[s][f] = {}
    OBVIOUS
  <2>1. CASE Commit
    <3>1. CASE manifest'.chunks[s][f] = manifest.chunks[s][f]
      BY <3>1
    <3>2. ASSUME NEW p \in pending, p.file = f,
                 manifest'.chunks[s][f]
                   = (manifest.chunks[s][f] \ p.delete) \cup p.produced
          PROVE  gone(s, f) \cap store[s][f] = {}
      <4>1. p.delete \cap store[s][f] = {}
        BY <1>1, <2>1, <3>2 DEF Commit, WriteInv, StoreInv
      <4> QED
        BY <3>2, <4>1
    <3> QED
      BY <1>1, <2>1, <3>1, <3>2, CommittedChunks
  <2>2. CASE ForgetVictim
    <3>1. CASE f = victim
      <4>1. store[s][f] = {}
        BY <1>1, <2>2, <3>1 DEF ForgetVictim, WriteInv, StoreInv
      <4> QED
        BY <4>1
    <3>2. CASE f # victim
      BY <1>1, <2>2, <3>2 DEF ForgetVictim, ForgetFile, WriteInv, TypeOK, Tables
    <3> QED
      BY <3>1, <3>2
  <2>3. CASE manifest'.chunks = manifest.chunks
    BY <2>3
  <2> QED
    BY <1>1, <2>1, <2>2, <2>3, ChunksChange DEF WriteInv
<1>2. WriteInv /\ [Next]_vars => [A]_vars
  BY <1>1
<1> QED
  BY <1>2, WriteInvariant, PTL DEF Spec, VectorsNeverStranded

-----------------------------------------------------------------------------
(* What a run may remove.                                                  *)

IdleInv ==
  pc = "idle" => /\ condemned = {} /\ victim = None
                 /\ steady = {} /\ observed = {}

\* Nothing of a root that was never there is in the hands of the run, and a
\* configured one in its scope has been noted as unobservable, or will be.
AbsentInv ==
  /\ pc # "idle" => mounted \subseteq observed
  /\ \A f \in Files : RootOf[f] \notin observed =>
       f \notin unwalked /\ stat[f] = None /\ \A p \in pending : p.file # f
  /\ \A r \in configured \ observed :
       pc # "idle" /\ opts.scope \in {None, r} =>
         r \in unobservable \/ (pc = "walk" /\ r \in roots)
  /\ \A f \in Files : RootOf[f] \in configured \ observed =>
       f \notin condemned /\ f # victim

\* A file that has been there since the run started, and may be indexed.
Live(f) ==
  /\ f \in steady /\ RootOf[f] \in configured
  /\ disk[f] # None /\ ~Withheld(f, disk[f].content)

\* The walk has listed every live file of its scope, or will come to it, and
\* the run is not about to remove one.
LiveInv ==
  /\ \A f \in steady : RootOf[f] \in mounted
  /\ \A f \in Files : Live(f) =>
       /\ f \notin condemned /\ f # victim
       /\ InScope(f) => \/ stat[f] # None
                        \/ pc = "walk" /\ (RootOf[f] \in roots \/ f \in unwalked)

RunInv == TypeOK /\ IdleInv /\ AbsentInv /\ LiveInv

LEMMA RunInit == Init => IdleInv /\ AbsentInv /\ LiveInv
BY ManifestAssumption DEF Init, Idle, IdleInv, AbsentInv, LiveInv, Live

LEMMA RunUnchanged ==
  ASSUME IdleInv, AbsentInv, LiveInv, UNCHANGED <<outside, ghosts, pc, run>>
  PROVE  IdleInv' /\ AbsentInv' /\ LiveInv'
BY DEF IdleInv, AbsentInv, LiveInv, Live, Withheld, KindRead, InScope,
       outside, ghosts, run

LEMMA RunReset ==
  ASSUME Reset
  PROVE  IdleInv' /\ AbsentInv' /\ LiveInv'
BY ManifestAssumption DEF Reset, IdleInv, AbsentInv, LiveInv, Live

LEMMA IdleStep == RunInv /\ [Next]_vars => IdleInv'
<1> SUFFICES ASSUME RunInv, [Next]_vars PROVE IdleInv'
  OBVIOUS
<1> USE DEF outside, run, ghosts, RunInv, IdleInv
<1>1. CASE Outside
  BY <1>1 DEF Outside, Edit, Delete, Unmount, Mount, Reconfigure, Upgrade
<1>2. CASE \E o \in RunOptions : StartRun(o)
  BY <1>2 DEF StartRun
<1>3. CASE Walk \/ EndPrepare
  BY <1>3 DEF Walk, WalkRoot, WalkFile, EndWalk, EndPrepare
<1>4. CASE PrepareOne
  BY <1>4 DEF PrepareOne, PrepareSkip, PrepareVanished, PrepareWithheld,
              PrepareTouch, PrepareQueue, Prepare
<1>5. CASE Flush \/ Remove
  BY <1>5 DEF Flush, FlushRest, DryFlush, Upsert, DeleteStale, Commit, Remove,
              DropVectors, ForgetVictim, PickOrphans
<1>6. CASE FinishRun \/ Abort \/ AbortUpsert
  BY <1>6, RunReset DEF FinishRun, Abort, AbortUpsert
<1>7. CASE \E f \in Files : WalkMisses(f) \/ PrepareFails(f)
  BY <1>7 DEF WalkMisses, PrepareFails, Prepare
<1>8. CASE UNCHANGED vars
  BY <1>8 DEF vars
<1> QED
  BY <1>1, <1>2, <1>3, <1>4, <1>5, <1>6, <1>7, <1>8
     DEF Next, Progress, Failure

LEMMA AbsentStep == RunInv /\ [Next]_vars => AbsentInv'
<1> SUFFICES ASSUME RunInv, [Next]_vars PROVE AbsentInv'
  OBVIOUS
<1> USE DEF outside, run, ghosts, RunInv, AbsentInv
<1>1. CASE Outside
  <2>1. CASE \E f \in Files, c \in Contents : Edit(f, c)
    BY <2>1 DEF Edit
  <2>2. CASE \E r \in Roots : Unmount(r) \/ Mount(r)
    BY <2>2 DEF Unmount, Mount
  <2>3. CASE \E r \in Roots : Reconfigure(r)
    BY <2>3, ManifestAssumption DEF Reconfigure, IdleInv
  <2>4. CASE \E n \in ChunkerNames : Upgrade(n)
    BY <2>4 DEF Upgrade
  <2>5. CASE \E f \in Files : Delete(f)
    BY <2>5 DEF Delete
  <2> QED
    BY <1>1, <2>1, <2>2, <2>3, <2>4, <2>5 DEF Outside
<1>2. ASSUME NEW o \in RunOptions, StartRun(o) PROVE AbsentInv'
  BY <1>2, ManifestAssumption DEF StartRun, IdleInv
<1>3. ASSUME NEW r \in Roots, WalkRoot(r) PROVE AbsentInv'
  BY <1>3 DEF WalkRoot, FilesOf
<1>4. ASSUME NEW f \in Files, WalkFile(f) \/ WalkMisses(f) PROVE AbsentInv'
  BY <1>4 DEF WalkFile, WalkMisses, TypeOK
<1>5. CASE EndWalk \/ EndPrepare
  BY <1>5 DEF EndWalk, EndPrepare
<1>6. ASSUME NEW f \in Files,
             PrepareSkip(f) \/ PrepareVanished(f) \/ PrepareWithheld(f)
               \/ PrepareTouch(f) \/ PrepareFails(f)
      PROVE AbsentInv'
  BY <1>6 DEF PrepareSkip, PrepareVanished, PrepareWithheld, PrepareTouch,
              PrepareFails, Prepare, TypeOK
<1>7. ASSUME NEW f \in Files, PrepareQueue(f) PROVE AbsentInv'
  <2>1. \E made : pending' = pending \cup {PendingFile(f, made)}
    BY <1>7 DEF PrepareQueue
  <2>2. RootOf[f] \in observed /\ \A made : PendingFile(f, made).file = f
    BY <1>7 DEF PrepareQueue, Prepare, TypeOK, PendingFile
  <2> QED
    BY <1>7, <2>1, <2>2 DEF PrepareQueue, Prepare
<1>8. CASE Flush
  BY <1>8 DEF Flush, FlushRest, DryFlush, Upsert, DeleteStale, Commit
<1>9. ASSUME NEW f \in Files, DropVectors(f) PROVE AbsentInv'
  BY <1>9 DEF DropVectors
<1>10. CASE ForgetVictim
  BY <1>10, ManifestAssumption DEF ForgetVictim
<1>11. CASE PickOrphans
  <2>1. \A f \in condemned' : /\ RootOf[f] \notin unobservable
                              /\ opts.scope \in {None, RootOf[f]}
    BY <1>11 DEF PickOrphans, Orphans
  <2> QED
    BY <1>11, <2>1 DEF PickOrphans
<1>12. CASE FinishRun \/ Abort \/ AbortUpsert
  BY <1>12, RunReset DEF FinishRun, Abort, AbortUpsert
<1>13. CASE UNCHANGED vars
  BY <1>13, RunUnchanged DEF vars
<1> QED
  BY <1>1, <1>2, <1>3, <1>4, <1>5, <1>6, <1>7, <1>8, <1>9, <1>10, <1>11,
     <1>12, <1>13 DEF Next, Progress, Failure, Walk, PrepareOne, Remove

LEMMA LiveStep == RunInv /\ [Next]_vars => LiveInv'
<1> SUFFICES ASSUME RunInv, [Next]_vars PROVE LiveInv'
  OBVIOUS
<1> USE DEF outside, run, ghosts, RunInv, LiveInv, Live, Withheld, KindRead
<1>1. CASE Outside
  <2>1. ASSUME NEW f \in Files, NEW c \in Contents, Edit(f, c) PROVE LiveInv'
    BY <2>1 DEF Edit, TypeOK, InScope
  <2>2. ASSUME NEW f \in Files, Delete(f) PROVE LiveInv'
    BY <2>2 DEF Delete, TypeOK, InScope
  <2>3. ASSUME NEW r \in Roots, Unmount(r) PROVE LiveInv'
    BY <2>3 DEF Unmount, FilesOf, TypeOK, InScope
  <2>4. ASSUME NEW r \in Roots, Mount(r) PROVE LiveInv'
    BY <2>4 DEF Mount, InScope
  <2>5. ASSUME NEW r \in Roots, Reconfigure(r) PROVE LiveInv'
    BY <2>5 DEF Reconfigure, IdleInv
  <2>6. ASSUME NEW n \in ChunkerNames, Upgrade(n) PROVE LiveInv'
    BY <2>6 DEF Upgrade, IdleInv
  <2> QED
    BY <1>1, <2>1, <2>2, <2>3, <2>4, <2>5, <2>6 DEF Outside
<1>2. ASSUME NEW o \in RunOptions, StartRun(o) PROVE LiveInv'
  BY <1>2, ManifestAssumption DEF StartRun, IdleInv, InScope
<1>3. ASSUME NEW r \in Roots, WalkRoot(r) PROVE LiveInv'
  BY <1>3 DEF WalkRoot, FilesOf, InScope
<1>4. ASSUME NEW f \in Files, WalkFile(f) PROVE LiveInv'
  <2>1. CASE Readable(f)
    <3>1. disk[f].mtime # None
      BY <2>1, IndexerAssumption, RowAssumption DEF Readable, TypeOK, OnDisk
    <3> QED
      BY <1>4, <2>1, <3>1 DEF WalkFile, TypeOK, InScope
  <2>2. CASE ~Readable(f)
    <3>1. ~Live(f)
      BY <2>2 DEF Readable
    <3> QED
      BY <1>4, <2>2, <3>1 DEF WalkFile, InScope
  <2> QED
    BY <2>1, <2>2
<1>5. ASSUME NEW f \in Files, WalkMisses(f) PROVE LiveInv'
  BY <1>5 DEF WalkMisses, InScope
<1>6. CASE EndWalk \/ EndPrepare
  BY <1>6 DEF EndWalk, EndPrepare, InScope
<1>7. ASSUME NEW f \in Files,
             PrepareSkip(f) \/ PrepareVanished(f) \/ PrepareTouch(f)
               \/ PrepareFails(f) \/ PrepareQueue(f)
      PROVE LiveInv'
  BY <1>7 DEF PrepareSkip, PrepareVanished, PrepareTouch, PrepareFails,
              PrepareQueue, Prepare, InScope
<1>8. ASSUME NEW f \in Files, PrepareWithheld(f) PROVE LiveInv'
  BY <1>8 DEF PrepareWithheld, Prepare, InScope
<1>9. CASE Flush
  BY <1>9 DEF Flush, FlushRest, DryFlush, Upsert, DeleteStale, Commit, InScope
<1>10. ASSUME NEW f \in Files, DropVectors(f) PROVE LiveInv'
  BY <1>10 DEF DropVectors, InScope
<1>11. CASE ForgetVictim
  BY <1>11, ManifestAssumption DEF ForgetVictim, InScope
<1>12. CASE PickOrphans
  <2>1. \A f \in condemned' : stat[f] = None /\ InScope(f)
    BY <1>12 DEF PickOrphans, Orphans, Recorded, Seen, InScope
  <2> QED
    BY <1>12, <2>1 DEF PickOrphans, InScope
<1>13. CASE FinishRun \/ Abort \/ AbortUpsert
  BY <1>13, RunReset DEF FinishRun, Abort, AbortUpsert
<1>14. CASE UNCHANGED vars
  BY <1>14, RunUnchanged DEF vars
<1> QED
  BY <1>1, <1>2, <1>3, <1>4, <1>5, <1>6, <1>7, <1>8, <1>9, <1>10, <1>11,
     <1>12, <1>13, <1>14 DEF Next, Progress, Failure, Walk, PrepareOne, Remove

(* A live file is still to be listed or has been; a root that was never    *)
(* there is still to come or noted as unobservable; neither is condemned.  *)
(* (walk, _remove_orphans)                                                 *)
THEOREM RunInvariant == Spec => []RunInv
<1>1. Init => RunInv
  BY TypeInit, RunInit DEF RunInv
<1>2. RunInv /\ [Next]_vars => RunInv'
  BY TypeStep, IdleStep, AbsentStep, LiveStep DEF RunInv
<1> QED
  BY <1>1, <1>2, PTL DEF Spec

\* The row of one file, after a commit.
LEMMA CommittedRow ==
  ASSUME TypeOK, Commit, NEW f \in Files
  PROVE  \/ manifest'.files[f] = manifest.files[f] /\ \A p \in pending : p.file # f
         \/ manifest'.files[f] \in Row /\ \E p \in pending : p.file = f
<1>1. manifest' = RecordAll(manifest, pending, opts.space)
  BY DEF Commit
<1>2. CASE f \in {p.file : p \in pending}
  <2> DEFINE q == CHOOSE p \in pending : p.file = f
  <2>1. q \in pending /\ q.file = f
    BY <1>2
  <2>2. q.row \in Row
    BY <2>1 DEF TypeOK, Pending
  <2> HIDE DEF q
  <2>3. manifest'.files[f] = q.row
    BY <1>1, <1>2 DEF RecordAll, q
  <2> QED
    BY <2>1, <2>2, <2>3
<1>3. CASE f \notin {p.file : p \in pending}
  BY <1>1, <1>3 DEF RecordAll
<1> QED
  BY <1>2, <1>3

\* Who changes the row of a file.
LEMMA RowChange ==
  ASSUME TypeOK, [Next]_vars, NEW f \in Files
  PROVE  \/ manifest'.files[f] = manifest.files[f]
         \/ PrepareTouch(f) \/ Commit
         \/ ForgetVictim /\ f = victim
<1> USE DEF outside, run, ghosts
<1>1. CASE Outside
  BY <1>1 DEF Outside, Edit, Delete, Unmount, Mount, Reconfigure, Upgrade
<1>2. CASE \E o \in RunOptions : StartRun(o)
  BY <1>2 DEF StartRun
<1>3. CASE Walk \/ EndPrepare \/ FinishRun
  BY <1>3 DEF Walk, WalkRoot, WalkFile, EndWalk, EndPrepare, FinishRun
<1>4. CASE PrepareOne
  <2>1. ASSUME NEW g \in Files, PrepareTouch(g), g # f
        PROVE  manifest'.files[f] = manifest.files[f]
    BY <2>1 DEF PrepareTouch, Touch, TypeOK, Tables
  <2> QED
    BY <1>4, <2>1 DEF PrepareOne, PrepareSkip, PrepareVanished,
                      PrepareWithheld, PrepareQueue
<1>5. CASE Flush \/ Remove
  <2>1. ASSUME ForgetVictim, f # victim
        PROVE  manifest'.files[f] = manifest.files[f]
    BY <2>1 DEF ForgetVictim, ForgetFile, TypeOK, Tables
  <2> QED
    BY <1>5, <2>1 DEF Flush, FlushRest, DryFlush, Upsert, DeleteStale, Remove,
                      DropVectors, PickOrphans
<1>6. CASE Failure
  BY <1>6 DEF Failure, WalkMisses, PrepareFails, Abort, AbortUpsert
<1>7. CASE UNCHANGED vars
  BY <1>7 DEF vars
<1> QED
  BY <1>1, <1>2, <1>3, <1>4, <1>5, <1>6, <1>7 DEF Next, Progress

\* The vectors of a file change only if it is pending or condemned.
LEMMA VectorChange ==
  ASSUME TypeOK, [Next]_vars, NEW f \in Files, NEW s \in Spaces,
         f \notin condemned, \A p \in pending : p.file # f
  PROVE  store'[s][f] = store[s][f]
<1> USE DEF outside, run, ghosts
<1>1. {q \in pending : q.file = f} = {}
  OBVIOUS
<1>2. ASSUME NEW chosen, store' = WithVectors(chosen)
      PROVE  store'[s][f] = store[s][f]
  <2>1. UNION {chosen[p] : p \in {q \in pending : q.file = f}} = {}
    BY <1>1
  <2> QED
    BY <1>2, <2>1 DEF WithVectors, TypeOK
<1>3. CASE Outside
  BY <1>3 DEF Outside, Edit, Delete, Unmount, Mount, Reconfigure, Upgrade
<1>4. CASE \E o \in RunOptions : StartRun(o)
  BY <1>4 DEF StartRun
<1>5. CASE Walk \/ EndPrepare \/ FinishRun
  BY <1>5 DEF Walk, WalkRoot, WalkFile, EndWalk, EndPrepare, FinishRun
<1>6. CASE PrepareOne
  BY <1>6 DEF PrepareOne, PrepareSkip, PrepareVanished, PrepareWithheld,
              PrepareTouch, PrepareQueue, Prepare
<1>7. CASE Upsert
  <2> DEFINE chosen == [p \in pending |-> p.upsert]
  <2>1. store' = WithVectors(chosen)
    BY <1>7 DEF Upsert
  <2> HIDE DEF chosen
  <2> QED
    BY <1>2, <2>1
<1>8. CASE DeleteStale
  <2>1. UNION {p.delete : p \in {q \in pending : q.file = f}} = {}
    BY <1>1
  <2> QED
    BY <1>8, <2>1 DEF DeleteStale, TypeOK
<1>9. CASE FlushRest \/ DryFlush \/ Commit \/ ForgetVictim \/ PickOrphans
  BY <1>9 DEF FlushRest, DryFlush, Commit, ForgetVictim, PickOrphans
<1>10. ASSUME NEW g \in Files, DropVectors(g) PROVE store'[s][f] = store[s][f]
  BY <1>10 DEF DropVectors, TypeOK
<1>11. CASE AbortUpsert
  <2>1. PICK landed : store' = WithVectors([p \in pending |->
                                 {x \in p.upsert : <<p.file, x>> \in landed}])
    BY <1>11 DEF AbortUpsert
  <2> DEFINE chosen == [p \in pending |-> {x \in p.upsert : <<p.file, x>> \in landed}]
  <2>2. store' = WithVectors(chosen)
    BY <2>1
  <2> HIDE DEF chosen
  <2> QED
    BY <1>2, <2>2
<1>12. CASE Abort \/ \E g \in Files : WalkMisses(g) \/ PrepareFails(g)
  BY <1>12 DEF Abort, WalkMisses, PrepareFails, Prepare
<1>13. CASE UNCHANGED vars
  BY <1>13 DEF vars
<1> QED
  BY <1>3, <1>4, <1>5, <1>6, <1>7, <1>8, <1>9, <1>10, <1>11, <1>12, <1>13
     DEF Next, Progress, Failure, Flush, Remove

(* No run removes a file that was there, readable and free of secrets,     *)
(* from its start on: whatever else is edited meanwhile, whichever roots   *)
(* are mounted, whatever the options.  (walk, _remove_orphans, _purge)     *)
THEOREM LiveFileKeptHolds == Spec => LiveFileKept
<1> DEFINE A == \A f \in Files :
                  /\ f \in steady /\ RootOf[f] \in configured
                  /\ disk[f] # None /\ ~Withheld(f, disk[f].content)
                  /\ manifest.files[f] # None
                  => manifest'.files[f] # None
<1>1. ASSUME RunInv, [Next]_vars PROVE A
  <2> SUFFICES ASSUME NEW f \in Files, Live(f), manifest.files[f] # None
               PROVE  manifest'.files[f] # None
    BY DEF Live
  <2>1. CASE manifest'.files[f] = manifest.files[f]
    BY <2>1
  <2>2. CASE PrepareTouch(f)
    <3>1. f \in Recorded(manifest) /\ manifest \in Tables /\ stat[f] \in Nat
      BY <1>1, <2>2 DEF PrepareTouch, Prepare, RunInv, TypeOK, Recorded
    <3>2. manifest.files[f] \in Row
      BY <3>1 DEF Recorded, Tables
    <3>3. [manifest.files[f] EXCEPT !.mtime = stat[f]] \in Row
      BY <3>1, <3>2 DEF Row
    <3>4. manifest'.files[f] = [manifest.files[f] EXCEPT !.mtime = stat[f]]
      BY <2>2, <3>1 DEF PrepareTouch, Touch, Tables
    <3> QED
      BY <3>3, <3>4, RowAssumption
  <2>3. CASE Commit
    BY <1>1, <2>3, CommittedRow, RowAssumption DEF RunInv
  <2>4. CASE ForgetVictim /\ f = victim
    BY <1>1, <2>4 DEF RunInv, LiveInv
  <2> QED
    BY <1>1, <2>1, <2>2, <2>3, <2>4, RowChange DEF RunInv
<1>2. RunInv /\ [Next]_vars => [A]_vars
  BY <1>1
<1> QED
  BY <1>2, RunInvariant, PTL DEF Spec, LiveFileKept

(* A configured root that was not on disk at any moment of a run keeps     *)
(* every row and every vector, with --force and --allow-deletes too.       *)
(* (walk, _remove_orphans)                                                 *)
THEOREM AbsentRootKeptHolds == Spec => AbsentRootKept
<1> DEFINE A == \A f \in Files :
                  RootOf[f] \in configured \ observed =>
                    /\ manifest'.files[f] = manifest.files[f]
                    /\ \A s \in Spaces : store'[s][f] = store[s][f]
<1>1. ASSUME RunInv, [Next]_vars PROVE A
  <2> SUFFICES ASSUME NEW f \in Files, RootOf[f] \in configured \ observed
               PROVE  /\ manifest'.files[f] = manifest.files[f]
                      /\ \A s \in Spaces : store'[s][f] = store[s][f]
    OBVIOUS
  <2>1. /\ stat[f] = None /\ f \notin todo
        /\ f \notin condemned /\ f # victim
        /\ \A p \in pending : p.file # f
    BY <1>1 DEF RunInv, AbsentInv, TypeOK
  <2>2. \A s \in Spaces : store'[s][f] = store[s][f]
    BY <1>1, <2>1, VectorChange DEF RunInv
  <2>3. manifest'.files[f] = manifest.files[f]
    BY <1>1, <2>1, RowChange, CommittedRow DEF RunInv, PrepareTouch, Prepare
  <2> QED
    BY <2>2, <2>3
<1>2. RunInv /\ [Next]_vars => [A]_vars
  BY <1>1
<1> QED
  BY <1>2, RunInvariant, PTL DEF Spec, AbsentRootKept


-----------------------------------------------------------------------------
(* The brake on deletions.                                                 *)

\* What the run is removing, or about to.
InHands == condemned \cup ({victim} \ {None})

LostIn(r) == (before \cap FilesOf(r)) \ (Recorded(manifest) \cup Seen)

GoingIn(r) == LostIn(r) \cup (InHands \cap FilesOf(r))

StayingIn(r) == (Recorded(manifest) \cap FilesOf(r)) \ InHands

\* Until the orphans are picked nothing unseen is forgotten; from then on
\* what is gone and what is going are few together.
MassInv ==
  /\ pc = "idle" => InHands = {}
  /\ pc \notin {"idle", "orphans"} =>
       before \subseteq Recorded(manifest) \cup Seen /\ InHands \subseteq Seen
  /\ pc = "orphans" /\ ~opts.allow =>
       \A r \in Roots : \/ Cardinality(GoingIn(r)) < MinDeletions
                        \/ Cardinality(GoingIn(r)) < Cardinality(StayingIn(r))

\* The rows that a step may add or take away.
LEMMA RecordedChange ==
  ASSUME TypeOK, [Next]_vars
  PROVE  \/ ForgetVictim
         \/ Recorded(manifest) \subseteq Recorded(manifest)'
<1> SUFFICES ASSUME ~ForgetVictim, NEW f \in Files, manifest.files[f] # None
             PROVE  manifest'.files[f] # None
  BY DEF Recorded
<1>1. CASE manifest'.files[f] = manifest.files[f]
  BY <1>1
<1>2. CASE PrepareTouch(f)
  <2>1. manifest.files[f] \in Row /\ stat[f] \in Nat /\ manifest \in Tables
    BY <1>2 DEF PrepareTouch, Prepare, TypeOK, Tables
  <2>2. manifest'.files[f] = [manifest.files[f] EXCEPT !.mtime = stat[f]]
    BY <1>2, <2>1 DEF PrepareTouch, Touch, Tables
  <2>3. manifest'.files[f] \in Row
    BY <2>1, <2>2 DEF Row
  <2> QED
    BY <2>3, RowAssumption
<1>3. CASE Commit
  BY <1>3, CommittedRow, RowAssumption
<1> QED
  BY <1>1, <1>2, <1>3, RowChange

LEMMA MassPick ==
  ASSUME TypeOK, MassInv, PickOrphans
  PROVE  MassInv'
<1> DEFINE visible  == {f \in Orphans(manifest, Seen, opts.scope) :
                          RootOf[f] \notin unobservable}
           of(r)    == visible \cap FilesOf(r)
<1>1. condemned' = {f \in visible :
                      \/ opts.allow
                      \/ RootOf[f] \notin {r \in Roots : LooksLikeAnAccident(r, of(r))}}
  BY DEF PickOrphans
<1>0. /\ pc = "purge" /\ pc' = "orphans" /\ victim = None /\ victim' = None
      /\ manifest' = manifest /\ stat' = stat /\ before' = before /\ opts' = opts
  BY DEF PickOrphans, ghosts
<1>2. \A r \in Roots : LostIn(r)' = {}
  BY <1>0 DEF MassInv, LostIn, Seen
<1>3. visible \subseteq Recorded(manifest)
  BY DEF Orphans
<1> SUFFICES ASSUME ~opts.allow, NEW r \in Roots
             PROVE  \/ Cardinality(GoingIn(r)') < MinDeletions
                    \/ Cardinality(GoingIn(r)') < Cardinality(StayingIn(r)')
  BY <1>0 DEF MassInv
<1>4. GoingIn(r)' = condemned' \cap FilesOf(r)
  BY <1>0, <1>2 DEF GoingIn, InHands, FilesOf
<1>5. StayingIn(r)' = (Recorded(manifest) \cap FilesOf(r)) \ condemned'
  BY <1>0 DEF StayingIn, InHands, FilesOf
<1>6. MinDeletions \in Nat \ {0} /\ IsFiniteSet(Files)
  BY IndexerAssumption
<1>7. \A f \in FilesOf(r) : RootOf[f] = r
  BY DEF FilesOf
<1>8. CASE LooksLikeAnAccident(r, of(r))
  <2>1. condemned' \cap FilesOf(r) = {}
    BY <1>1, <1>7, <1>8
  <2> QED
    BY <1>4, <1>6, <2>1, FS_EmptySet
<1>9. CASE ~LooksLikeAnAccident(r, of(r))
  <2> DEFINE all == Recorded(manifest) \cap FilesOf(r)
             gone == of(r)
  <2>1. condemned' \cap FilesOf(r) = gone
    BY <1>1, <1>7, <1>9
  <2>2. gone \subseteq all /\ all \subseteq Files
    BY <1>3 DEF Recorded
  <2>3. IsFiniteSet(all) /\ IsFiniteSet(gone) /\ IsFiniteSet(all \ gone)
    BY <1>6, <2>2, FS_Subset, FS_Difference
  <2>4. ~(Cardinality(gone) >= MinDeletions /\ 2 * Cardinality(gone) >= Cardinality(all))
    BY <1>9 DEF LooksLikeAnAccident
  <2>5. StayingIn(r)' = all \ gone
    BY <1>5, <2>1
  <2> HIDE DEF all, gone
  <2>6. /\ Cardinality(all) \in Nat /\ Cardinality(gone) \in Nat
        /\ Cardinality(all \ gone) = Cardinality(all) - Cardinality(gone)
    <3>1. all \cap gone = gone
      BY <2>2
    <3>2. Cardinality(all \ gone) = Cardinality(all) - Cardinality(all \cap gone)
      BY <2>3, FS_Difference
    <3> QED
      BY <2>3, <3>1, <3>2, FS_CardinalityType
  <2> QED
    BY <1>4, <1>6, <2>1, <2>4, <2>5, <2>6
<1> QED
  BY <1>8, <1>9

LEMMA MassStep == TypeOK /\ MassInv /\ [Next]_vars => MassInv'
<1> SUFFICES ASSUME TypeOK, MassInv, [Next]_vars PROVE MassInv'
  OBVIOUS
<1> USE DEF outside, run, ghosts
<1>1. ASSUME UNCHANGED <<manifest, pc, opts, stat, condemned, victim, before>>
      PROVE  MassInv'
  BY <1>1 DEF MassInv, InHands, LostIn, GoingIn, StayingIn, FilesOf, Seen
<1>2. ASSUME NEW o \in RunOptions, StartRun(o) PROVE MassInv'
  BY <1>2 DEF StartRun, MassInv, InHands
<1>3. ASSUME NEW f \in Files, WalkFile(f) PROVE MassInv'
  <2>1. disk[f] # None => disk[f].mtime # None
    BY IndexerAssumption, RowAssumption DEF TypeOK, OnDisk
  <2>2. Seen \subseteq Seen'
    BY <1>3, <2>1 DEF WalkFile, Seen, TypeOK, Readable
  <2> QED
    BY <1>3, <2>2 DEF WalkFile, MassInv, InHands
<1>4. CASE EndWalk \/ EndPrepare \/ FlushRest
  BY <1>4 DEF EndWalk, EndPrepare, FlushRest, MassInv, InHands, Seen
<1>5. ASSUME NEW f \in Files, PrepareWithheld(f) PROVE MassInv'
  <2>1. f \in Seen
    BY <1>5 DEF PrepareWithheld, Prepare, TypeOK, Seen
  <2> QED
    BY <1>5, <2>1 DEF PrepareWithheld, Prepare, MassInv, InHands, Seen
<1>6. ASSUME NEW f \in Files,
             PrepareSkip(f) \/ PrepareVanished(f) \/ PrepareFails(f) \/ PrepareTouch(f)
               \/ PrepareQueue(f)
      PROVE MassInv'
  <2>1. Recorded(manifest) \subseteq Recorded(manifest)'
    BY <1>6, RecordedChange DEF PrepareSkip, PrepareVanished, PrepareFails, PrepareTouch,
       PrepareQueue, Prepare, ForgetVictim, TypeOK
  <2> QED
    BY <1>6, <2>1 DEF PrepareSkip, PrepareVanished, PrepareFails, PrepareTouch,
       PrepareQueue, Prepare, MassInv, InHands, Seen
<1>7. CASE DryFlush \/ Upsert \/ DeleteStale
  BY <1>7 DEF DryFlush, Upsert, DeleteStale, MassInv, InHands, Seen
<1>8. CASE Commit
  <2>1. Recorded(manifest) \subseteq Recorded(manifest)'
    BY <1>8, RecordedChange DEF Commit, ForgetVictim
  <2> QED
    BY <1>8, <2>1 DEF Commit, MassInv, InHands, Seen
<1>9. ASSUME NEW f \in Files, DropVectors(f) PROVE MassInv'
  <2>1. InHands' = InHands
    BY <1>9, ManifestAssumption DEF DropVectors, InHands
  <2> QED
    BY <1>9, <2>1 DEF DropVectors, MassInv, LostIn, GoingIn, StayingIn, FilesOf, Seen
<1>10. CASE ForgetVictim
  <2>1. Recorded(manifest)' = Recorded(manifest) \ {victim}
    BY <1>10 DEF ForgetVictim, ForgetFile, Recorded, TypeOK, Tables
  <2>2. /\ InHands' = condemned /\ victim \in Files /\ victim \in InHands
        /\ UNCHANGED <<pc, opts, stat, before, condemned>>
    BY <1>10 DEF ForgetVictim, InHands, TypeOK
  <2>3. CASE pc = "orphans" /\ ~opts.allow
    <3> SUFFICES ASSUME NEW r \in Roots
                 PROVE  \/ Cardinality(GoingIn(r)') < MinDeletions
                        \/ Cardinality(GoingIn(r)') < Cardinality(StayingIn(r)')
      BY <2>2, <2>3 DEF MassInv
    <3>1. GoingIn(r)' \subseteq GoingIn(r)
      BY <2>1, <2>2 DEF GoingIn, LostIn, FilesOf, Seen, InHands
    <3>2. StayingIn(r) \subseteq StayingIn(r)' /\ GoingIn(r) \subseteq Files
          /\ StayingIn(r)' \subseteq Files
      BY <2>1, <2>2 DEF StayingIn, FilesOf, InHands, GoingIn, LostIn, TypeOK, Recorded
    <3>3. /\ IsFiniteSet(GoingIn(r)) /\ IsFiniteSet(StayingIn(r))
          /\ IsFiniteSet(GoingIn(r)') /\ IsFiniteSet(StayingIn(r)')
      BY <3>1, <3>2, IndexerAssumption, FS_Subset
    <3>4. /\ Cardinality(GoingIn(r)') <= Cardinality(GoingIn(r))
          /\ Cardinality(StayingIn(r)) <= Cardinality(StayingIn(r)')
      <4>1. PICK G, H, S, T : /\ G = GoingIn(r)' /\ H = GoingIn(r)
                              /\ S = StayingIn(r) /\ T = StayingIn(r)'
        OBVIOUS
      <4>2. G \in SUBSET H /\ S \in SUBSET T /\ IsFiniteSet(H) /\ IsFiniteSet(T)
        BY <3>1, <3>2, <3>3, <4>1
      <4>3. Cardinality(G) <= Cardinality(H) /\ Cardinality(S) <= Cardinality(T)
        BY <4>2, FS_Subset
      <4> QED
        BY <4>1, <4>3
    <3>5. /\ Cardinality(GoingIn(r)) \in Nat /\ Cardinality(StayingIn(r)) \in Nat
          /\ Cardinality(GoingIn(r)') \in Nat /\ Cardinality(StayingIn(r)') \in Nat
      BY <3>3, FS_CardinalityType
    <3>6. \/ Cardinality(GoingIn(r)) < MinDeletions
          \/ Cardinality(GoingIn(r)) < Cardinality(StayingIn(r))
      BY <2>3 DEF MassInv
    <3> HIDE DEF MassInv
    <3> QED
      BY <3>4, <3>5, <3>6, IndexerAssumption
  <2>4. CASE pc # "orphans"
    BY <2>1, <2>2, <2>4 DEF MassInv, InHands, Seen
  <2> QED
    BY <2>2, <2>3, <2>4 DEF MassInv
<1>11. CASE PickOrphans
  BY <1>11, MassPick
<1>12. CASE FinishRun \/ Abort \/ AbortUpsert
  BY <1>12 DEF FinishRun, Abort, AbortUpsert, Reset, MassInv, InHands
<1> QED
  BY <1>1, <1>2, <1>3, <1>4, <1>5, <1>6, <1>7, <1>8, <1>9, <1>10, <1>11, <1>12
  DEF Next, Outside, Edit, Delete, Unmount, Mount, Reconfigure, Upgrade, Progress, Failure,
      Walk, WalkRoot, WalkMisses, PrepareOne, Flush, Remove, vars

LEMMA MassAsked == TypeOK /\ MassInv => MassDeletionQuestioned
<1> SUFFICES ASSUME TypeOK, MassInv, RunDone, ~opts.allow, NEW r \in Roots
             PROVE  \/ Cardinality(LostIn(r)) < MinDeletions
                    \/ Cardinality(LostIn(r)) < Cardinality(Recorded(manifest) \cap FilesOf(r))
  BY DEF MassDeletionQuestioned, LostIn
<1>1. CASE pc = "orphans" /\ condemned = {} /\ victim = None
  <2>1. InHands = {}
    BY <1>1 DEF InHands
  <2>2. GoingIn(r) = LostIn(r) /\ StayingIn(r) = Recorded(manifest) \cap FilesOf(r)
    BY <2>1 DEF GoingIn, StayingIn
  <2> QED
    BY <1>1, <2>2 DEF MassInv
<1>2. CASE pc = "prepare"
  <2>1. LostIn(r) = {}
    BY <1>2 DEF MassInv, LostIn
  <2> QED
    BY <2>1, FS_EmptySet, IndexerAssumption
<1> QED
  BY <1>1, <1>2 DEF RunDone

(* However files come and go while a run lasts, and however often it is    *)
(* stopped or repeated: without --allow-deletes what it forgot of a root   *)
(* for want of seeing it is below the floor, or less than what it left.    *)
(* (_remove_orphans, _looks_like_an_accident)                              *)
THEOREM MassDeletionQuestionedHolds == Spec => []MassDeletionQuestioned
<1>1. Init => MassInv
  BY DEF Init, Idle, MassInv, InHands
<1>2. TypeOK /\ TypeOK' /\ MassInv /\ [Next]_vars => MassInv'
  BY MassStep
<1>3. TypeOK /\ MassInv => MassDeletionQuestioned
  BY MassAsked
<1> QED
  BY <1>1, <1>2, <1>3, TypeCorrect, PTL DEF Spec

-----------------------------------------------------------------------------
(* What --force repairs.                                                   *)

\* Everything a walk listed has been prepared and flushed when the removals
\* begin.
PhaseInv == pc \in {"purge", "orphans", "idle"} => todo = {} /\ pending = {}

\* A forced run has the vectors of a file, or is holding all of them.
Repaired(f) ==
  \/ \E p \in pending : /\ p.file = f /\ p.upsert = p.produced
                        /\ p.produced \in Produced(f, disk[f].content)
  \/ /\ \A p \in pending : p.file # f
     /\ \E made \in Produced(f, disk[f].content) : made \subseteq store[opts.space][f]

ForceInv ==
  pc # "idle" /\ opts.force /\ ~opts.dry =>
    \A f \in Files : Live(f) /\ stat[f] # None /\ f \notin todo => Repaired(f)

LEMMA PhaseStep == TypeOK /\ PhaseInv /\ [Next]_vars => PhaseInv'
<1> SUFFICES ASSUME TypeOK, PhaseInv, [Next]_vars PROVE PhaseInv'
  OBVIOUS
<1> USE DEF outside, run, ghosts, PhaseInv
<1>1. CASE Outside \/ UNCHANGED vars
  BY <1>1 DEF Outside, Edit, Delete, Unmount, Mount, Reconfigure, Upgrade, vars
<1>2. CASE (\E o \in RunOptions : StartRun(o)) \/ Walk \/ EndPrepare
  BY <1>2 DEF StartRun, Walk, WalkRoot, WalkFile, EndWalk, EndPrepare
<1>3. CASE PrepareOne
  BY <1>3 DEF PrepareOne, PrepareSkip, PrepareVanished, PrepareWithheld,
              PrepareTouch, PrepareQueue, Prepare
<1>4. CASE Flush
  BY <1>4 DEF Flush, FlushRest, DryFlush, Upsert, DeleteStale, Commit
<1>5. CASE Remove
  BY <1>5 DEF Remove, DropVectors, ForgetVictim, PickOrphans, Phases, TypeOK
<1>6. CASE FinishRun \/ Failure
  BY <1>6 DEF FinishRun, Failure, WalkMisses, PrepareFails, Prepare, Abort,
              AbortUpsert, Reset
<1> QED
  BY <1>1, <1>2, <1>3, <1>4, <1>5, <1>6 DEF Next, Progress

(* When removal begins, and between runs, no candidate is left to prepare  *)
(* and no prepared file to flush.  (_index)                                *)
THEOREM PhaseInvariant == Spec => []PhaseInv
<1>1. Init => PhaseInv
  BY DEF Init, Idle, PhaseInv
<1>2. TypeOK /\ PhaseInv /\ [Next]_vars => PhaseInv'
  BY PhaseStep
<1> QED
  BY <1>1, <1>2, TypeCorrect, PTL DEF Spec

\* Steps that leave the run's hands as they were.
LEMMA RepairKept ==
  ASSUME RunInv, [Next]_vars, NEW f \in Files, Live(f), Repaired(f),
         opts \in Options,
         UNCHANGED <<pending, opts, version>>, disk'[f] = disk[f]
  PROVE  Repaired(f)'
<1>1. Produced(f, disk[f].content)' = Produced(f, disk[f].content)
  BY ChunkedAlike
<1>2. CASE \A p \in pending : p.file # f
  <2>1. f \notin condemned /\ opts.space \in Spaces
    BY DEF RunInv, LiveInv, Options
  <2>2. store'[opts.space][f] = store[opts.space][f]
    BY <1>2, <2>1, VectorChange DEF RunInv
  <2> QED
    BY <1>1, <1>2, <2>2 DEF Repaired
<1> QED
  BY <1>1, <1>2 DEF Repaired

LEMMA ForceStep == RunInv /\ WriteInv /\ ForceInv /\ [Next]_vars => ForceInv'
<1> SUFFICES ASSUME RunInv, WriteInv, ForceInv, [Next]_vars,
                    pc' # "idle", opts'.force, ~opts'.dry,
                    NEW f \in Files, Live(f)', stat'[f] # None, f \notin todo'
             PROVE  Repaired(f)'
  BY DEF ForceInv
<1> USE DEF outside, run, ghosts
<1>1. ASSUME pc # "idle", opts' = opts, Live(f), stat[f] # None, f \notin todo,
             pending' = pending, version' = version, disk'[f] = disk[f]
      PROVE  Repaired(f)'
  <2>1. Repaired(f) /\ opts \in Options
    BY <1>1 DEF ForceInv, RunInv, TypeOK
  <2> QED
    BY <1>1, <2>1, RepairKept
<1>2. CASE Outside
  <2>1. ASSUME NEW g \in Files, NEW c \in Contents, Edit(g, c) PROVE Repaired(f)'
    BY <1>1, <2>1 DEF Edit, Live, Withheld, KindRead, RunInv, TypeOK
  <2>2. ASSUME NEW g \in Files, Delete(g) PROVE Repaired(f)'
    BY <1>1, <2>2 DEF Delete, Live, Withheld, KindRead, RunInv, TypeOK
  <2>3. ASSUME NEW r \in Roots, Unmount(r) \/ Mount(r) PROVE Repaired(f)'
    BY <1>1, <2>3 DEF Unmount, Mount, Live, Withheld, KindRead
  <2> QED
    BY <1>2, <2>1, <2>2, <2>3 DEF Outside, Reconfigure, Upgrade
<1>3. ASSUME NEW o \in RunOptions, StartRun(o) PROVE Repaired(f)'
  BY <1>3 DEF StartRun, RunInv, IdleInv, AbsentInv
<1>4. CASE UNCHANGED vars \/ EndWalk \/ EndPrepare \/ FlushRest \/ DeleteStale
             \/ Upsert \/ ForgetVictim \/ PickOrphans
             \/ (\E r \in Roots : WalkRoot(r)) \/ (\E g \in Files : DropVectors(g))
  <2>1. Live(f) <=> Live(f)'
    BY <1>4 DEF vars, EndWalk, EndPrepare, FlushRest, DeleteStale, Upsert, ForgetVictim,
       PickOrphans, WalkRoot, DropVectors, Live, Withheld, KindRead
  <2>2. /\ pc # "idle" /\ opts' = opts /\ stat' = stat /\ todo' = todo
        /\ pending' = pending /\ version' = version /\ disk' = disk
    BY <1>4 DEF vars, EndWalk, EndPrepare, FlushRest, DeleteStale, Upsert, ForgetVictim,
       PickOrphans, WalkRoot, DropVectors, RunInv, IdleInv
  <2> QED
    BY <1>1, <2>1, <2>2
<1>5. ASSUME NEW g \in Files, WalkFile(g) PROVE Repaired(f)'
  <2>1. stat[f] # None /\ f \notin todo /\ Live(f)
    BY <1>5 DEF WalkFile, RunInv, TypeOK, Live, Withheld, KindRead
  <2> QED
    BY <1>1, <1>5, <2>1 DEF WalkFile
<1>6. ASSUME NEW g \in Files, WalkMisses(g) PROVE Repaired(f)'
  BY <1>1, <1>6 DEF WalkMisses, Live, Withheld, KindRead
<1>7. ASSUME NEW g \in Files,
             PrepareSkip(g) \/ PrepareVanished(g) \/ PrepareFails(g) \/ PrepareWithheld(g)
               \/ PrepareTouch(g)
      PROVE Repaired(f)'
  <2>1. /\ Prepare(g) /\ pc # "idle" /\ opts' = opts /\ pending' = pending
        /\ disk' = disk /\ version' = version /\ stat' = stat /\ todo' = todo \ {g}
        /\ configured' = configured /\ steady' \subseteq steady
    BY <1>7 DEF PrepareSkip, PrepareVanished, PrepareFails, PrepareWithheld,
       PrepareTouch, Prepare
  <2>2. Live(f)
    BY <2>1 DEF Live, Withheld, KindRead
  <2>3. f # g
    <3>1. StatDecision(g) = "forced" /\ Decision(g) = "forced"
      BY <2>1 DEF StatDecision, Decision, DecideFromStat
    <3>2. Readable(f) /\ ~Withheld(f, disk[f].content)
      BY <2>2 DEF RunInv, LiveInv, Live, Readable
    <3>3. PrepareFails(g) => g \notin steady'
      BY DEF PrepareFails
    <3> QED
      BY <1>7, <3>1, <3>2, <3>3 DEF PrepareSkip, PrepareVanished, PrepareWithheld,
         PrepareTouch, Live
  <2> QED
    BY <1>1, <2>1, <2>2, <2>3
<1>8. ASSUME NEW g \in Files, PrepareQueue(g) PROVE Repaired(f)'
  <2>0. PICK made \in Produced(g, disk[g].content) :
               pending' = pending \cup {PendingFile(g, made)}
    BY <1>8 DEF PrepareQueue
  <2> DEFINE p == PendingFile(g, made)
  <2>1. /\ pc # "idle" /\ opts' = opts /\ disk' = disk /\ version' = version
        /\ stat' = stat /\ todo' = todo \ {g} /\ store' = store
        /\ pending' = pending \cup {p}
    BY <1>8, <2>0 DEF PrepareQueue, Prepare
  <2>2. Live(f)
    BY <1>8 DEF PrepareQueue, Prepare, Live, Withheld, KindRead
  <2>3. /\ p.file = g /\ p.upsert = p.produced
        /\ p.produced \in Produced(g, disk[g].content)
    BY <2>0, <2>1 DEF PendingFile
  <2>4. Produced(f, disk[f].content)' = Produced(f, disk[f].content)
    BY <2>1, ChunkedAlike
  <2> HIDE DEF p
  <2>5. CASE f = g
    BY <2>1, <2>3, <2>4, <2>5 DEF Repaired
  <2>6. CASE f # g
    <3>1. Repaired(f)
      BY <2>1, <2>2, <2>6 DEF ForceInv
    <3> QED
      BY <2>1, <2>3, <2>4, <2>6, <3>1 DEF Repaired
  <2> QED
    BY <2>5, <2>6
<1>9. CASE DryFlush
  BY <1>9 DEF DryFlush
<1>10. CASE Commit
  <2>1. Repaired(f)
    BY <1>10 DEF Commit, ForceInv, Live, Withheld, KindRead
  <2>2. Produced(f, disk[f].content)' = Produced(f, disk[f].content)
    BY <1>10, ChunkedAlike DEF Commit
  <2>3. \A p \in pending : p.upsert \subseteq store[opts.space][p.file]
    BY <1>10 DEF Commit, WriteInv, StoreInv
  <2> QED
    BY <1>10, <2>1, <2>2, <2>3 DEF Commit, Repaired
<1>11. CASE FinishRun \/ Abort \/ AbortUpsert
  BY <1>11 DEF FinishRun, Abort, AbortUpsert, Reset
<1> QED
  BY <1>2, <1>3, <1>4, <1>5, <1>6, <1>7, <1>8, <1>9, <1>10, <1>11
  DEF Next, Progress, Failure, Walk, PrepareOne, Flush, Remove

(* A run with --force that completes has put back every vector of every    *)
(* file nobody touched while it ran, whatever was lost before it, by       *)
(* whichever run, in whichever space.  (_prepare, force)                   *)
THEOREM ForcedRunRepairsHolds == Spec => []ForcedRunRepairs
<1>1. Init => ForceInv
  BY DEF Init, Idle, ForceInv
<1>2. RunInv /\ WriteInv /\ ForceInv /\ [Next]_vars => ForceInv'
  BY ForceStep
<1>3. RunInv /\ PhaseInv /\ ForceInv => ForcedRunRepairs
  <2> SUFFICES ASSUME RunInv, PhaseInv, ForceInv, RunDone, opts.force, ~opts.dry,
                      NEW f \in Files, Accountable(f), disk[f] # None
               PROVE  \E made \in Produced(f, disk[f].content) :
                        made \subseteq store[opts.space][f]
    BY DEF ForcedRunRepairs
  <2>1. pc = "orphans" /\ todo = {} /\ pending = {}
    BY DEF RunDone, PhaseInv
  <2>2. CASE Withheld(f, disk[f].content)
    BY <2>2 DEF Produced, ChunkedBy
  <2>3. CASE ~Withheld(f, disk[f].content)
    <3>1. Live(f)
      BY <2>3 DEF Accountable, Live
    <3>2. stat[f] # None
      BY <2>1, <3>1 DEF RunInv, LiveInv, Accountable
    <3> QED
      BY <2>1, <3>1, <3>2 DEF ForceInv, Repaired
  <2> QED
    BY <2>2, <2>3
<1> QED
  BY <1>1, <1>2, <1>3, RunInvariant, WriteInvariant, PhaseInvariant, PTL DEF Spec

-----------------------------------------------------------------------------
(* The manifest and the store, when no run is stopped half way and one     *)
(* embedding space is used throughout.                                     *)

\* What the manifest has of a file is in the store, but for what a flush has
\* already written of it.
MatchInv(s) ==
  /\ pc # "idle" => opts.space = s
  /\ \A t \in Spaces \ {s}, f \in Files :
       store[t][f] = {} /\ manifest.chunks[t][f] = {}
  /\ \A f \in Files \ {victim} :
       \/ /\ pc \notin {"delete", "commit"} \/ \A p \in pending : p.file # f
          /\ store[s][f] = manifest.chunks[s][f]
       \/ \E p \in pending :
            /\ p.file = f
            /\ \/ /\ pc = "delete"
                  /\ store[s][f] = manifest.chunks[s][f] \cup p.upsert
               \/ /\ pc = "commit"
                  /\ store[s][f] = (manifest.chunks[s][f] \cup p.upsert) \ p.delete

\* The store of one file and one space, after vectors went up, or out.
LEMMA UpsertEffect ==
  ASSUME WriteInv, Upsert, NEW t \in Spaces, NEW f \in Files
  PROVE  /\ t # opts.space => store'[t][f] = store[t][f]
         /\ (\A p \in pending : p.file # f) => store'[t][f] = store[t][f]
         /\ \A p \in pending : p.file = f /\ t = opts.space =>
              store'[t][f] = store[t][f] \cup p.upsert
<1> DEFINE chosen == [p \in pending |-> p.upsert]
           mine   == {q \in pending : q.file = f}
<1>1. store' = WithVectors(chosen)
  BY DEF Upsert
<1>2. \A p \in pending : p.file = f => mine = {p} /\ chosen[p] = p.upsert
  BY DEF WriteInv, PendingInv
<1>3. (\A p \in pending : p.file # f) => mine = {}
  OBVIOUS
<1> HIDE DEF chosen
<1>4. store'[t][f] = IF t = opts.space THEN store[t][f] \cup UNION {chosen[p] : p \in mine}
                     ELSE store[t][f]
  BY <1>1 DEF WithVectors, WriteInv, TypeOK
<1>5. \A p \in pending : p.file = f => UNION {chosen[q] : q \in mine} = p.upsert
  BY <1>2
<1>6. mine = {} => UNION {chosen[q] : q \in mine} = {}
  OBVIOUS
<1> HIDE DEF mine
<1> QED
  BY <1>3, <1>4, <1>5, <1>6

LEMMA DeleteStaleEffect ==
  ASSUME WriteInv, DeleteStale, NEW t \in Spaces, NEW f \in Files
  PROVE  /\ t # opts.space => store'[t][f] = store[t][f]
         /\ (\A p \in pending : p.file # f) => store'[t][f] = store[t][f]
         /\ \A p \in pending : p.file = f /\ t = opts.space =>
              store'[t][f] = store[t][f] \ p.delete
<1> DEFINE mine == {q \in pending : q.file = f}
<1>1. \A p \in pending : p.file = f => mine = {p}
  BY DEF WriteInv, PendingInv
<1>2. (\A p \in pending : p.file # f) => mine = {}
  OBVIOUS
<1>3. store'[t][f] = IF t = opts.space THEN store[t][f] \ UNION {p.delete : p \in mine}
                     ELSE store[t][f]
  BY DEF DeleteStale, WriteInv, TypeOK
<1>4. \A p \in pending : p.file = f => UNION {q.delete : q \in mine} = p.delete
  BY <1>1
<1>5. mine = {} => UNION {q.delete : q \in mine} = {}
  OBVIOUS
<1> HIDE DEF mine
<1> QED
  BY <1>2, <1>3, <1>4, <1>5

\* After a commit, the chunk rows of a file that was pending are those made
\* of it, and the others are as they were.
LEMMA CommitEffect ==
  ASSUME WriteInv, Commit, NEW t \in Spaces, NEW f \in Files
  PROVE  /\ t # opts.space => manifest'.chunks[t][f] = manifest.chunks[t][f]
         /\ (\A p \in pending : p.file # f) =>
              manifest'.chunks[t][f] = manifest.chunks[t][f]
         /\ \A p \in pending : p.file = f /\ t = opts.space =>
              manifest'.chunks[t][f] = p.produced
<1>1. manifest' = RecordAll(manifest, pending, opts.space)
  BY DEF Commit
<1>2. ASSUME NEW p \in pending, p.file = f, t = opts.space
      PROVE  manifest'.chunks[t][f] = p.produced
  <2> DEFINE q == CHOOSE q \in pending : q.file = f
  <2>1. q = p
    BY <1>2 DEF WriteInv, PendingInv
  <2>2. f \in {r.file : r \in pending}
    BY <1>2
  <2> HIDE DEF q
  <2>3. manifest'.chunks[t][f] = (manifest.chunks[t][f] \ q.delete) \cup q.produced
    BY <1>1, <1>2, <2>2 DEF RecordAll, q
  <2>4. p.delete = manifest.chunks[t][f] \ p.produced
    BY <1>2 DEF WriteInv, PendingInv
  <2> QED
    BY <2>1, <2>3, <2>4
<1>3. t # opts.space => manifest'.chunks[t][f] = manifest.chunks[t][f]
  BY <1>1 DEF RecordAll
<1>4. (\A p \in pending : p.file # f) => manifest'.chunks[t][f] = manifest.chunks[t][f]
  BY <1>1 DEF RecordAll
<1> QED
  BY <1>2, <1>3, <1>4

\* Steps that write neither database and leave the flush where it was.
LEMMA MatchKept ==
  ASSUME NEW s \in Spaces, MatchInv(s),
         UNCHANGED <<manifest, store, victim>>,
         pc' # "idle" => opts'.space = s,
         \/ UNCHANGED <<pc, pending>>
         \/ pc \notin {"delete", "commit"} /\ pc' \notin {"delete", "commit"}
  PROVE  MatchInv(s)'
BY DEF MatchInv

LEMMA MatchStep ==
  ASSUME NEW s \in Spaces, \A o \in RunOptions : o.space = s, MaxAborts = 0,
         RunInv, WriteInv, MatchInv(s), [Next]_vars
  PROVE  MatchInv(s)'
<1> USE DEF outside, run, ghosts
<1>0. pc # "idle" => opts.space = s
  BY DEF MatchInv
<1>1. CASE Outside \/ UNCHANGED vars
  BY <1>0, <1>1, MatchKept
     DEF Outside, Edit, Delete, Unmount, Mount, Reconfigure, Upgrade, vars
<1>2. CASE (\E o \in RunOptions : StartRun(o)) \/ Walk \/ EndPrepare
  BY <1>0, <1>2, MatchKept DEF StartRun, Walk, WalkRoot, WalkFile, EndWalk, EndPrepare
<1>3. ASSUME NEW g \in Files,
             PrepareSkip(g) \/ PrepareVanished(g) \/ PrepareFails(g) \/ PrepareWithheld(g)
               \/ PrepareQueue(g) \/ WalkMisses(g)
      PROVE MatchInv(s)'
  BY <1>0, <1>3, MatchKept DEF PrepareSkip, PrepareVanished, PrepareFails, PrepareWithheld,
     PrepareQueue, WalkMisses, Prepare
<1>4. ASSUME NEW g \in Files, PrepareTouch(g) PROVE MatchInv(s)'
  <2>1. manifest'.chunks = manifest.chunks
    BY <1>4, TouchChunks DEF PrepareTouch, WriteInv, TypeOK
  <2> QED
    BY <1>0, <1>4, <2>1 DEF PrepareTouch, Prepare, MatchInv
<1>5. CASE FlushRest \/ DryFlush
  BY <1>0, <1>5, MatchKept DEF FlushRest, DryFlush
<1>6. CASE Upsert
  <2>1. /\ pc = "upsert" /\ pc' = "delete" /\ opts.space = s /\ opts' = opts
        /\ manifest' = manifest /\ pending' = pending /\ victim' = victim
    BY <1>0, <1>6 DEF Upsert
  <2>2. \A t \in Spaces \ {s}, f \in Files : store'[t][f] = {}
    BY <1>6, <2>1, UpsertEffect DEF MatchInv
  <2>3. ASSUME NEW f \in Files \ {victim}
        PROVE  \/ /\ \A p \in pending : p.file # f
                  /\ store'[s][f] = manifest.chunks[s][f]
               \/ \E p \in pending :
                    /\ p.file = f
                    /\ store'[s][f] = manifest.chunks[s][f] \cup p.upsert
    BY <1>6, <2>1, UpsertEffect DEF MatchInv
  <2> QED
    BY <2>1, <2>2, <2>3 DEF MatchInv
<1>7. CASE DeleteStale
  <2>1. /\ pc = "delete" /\ pc' = "commit" /\ opts.space = s /\ opts' = opts
        /\ manifest' = manifest /\ pending' = pending /\ victim' = victim
    BY <1>0, <1>7 DEF DeleteStale
  <2>2. \A t \in Spaces \ {s}, f \in Files : store'[t][f] = {}
    BY <1>7, <2>1, DeleteStaleEffect DEF MatchInv
  <2>3. ASSUME NEW f \in Files \ {victim}
        PROVE  \/ /\ \A p \in pending : p.file # f
                  /\ store'[s][f] = manifest.chunks[s][f]
               \/ \E p \in pending :
                    /\ p.file = f
                    /\ store'[s][f] = (manifest.chunks[s][f] \cup p.upsert) \ p.delete
    BY <1>7, <2>1, DeleteStaleEffect DEF MatchInv
  <2> QED
    BY <2>1, <2>2, <2>3 DEF MatchInv
<1>8. CASE Commit
  <2>1. /\ pc = "commit" /\ pc' = "prepare" /\ opts.space = s /\ opts' = opts
        /\ store' = store /\ victim' = victim
    BY <1>0, <1>8 DEF Commit
  <2>2. \A t \in Spaces \ {s}, f \in Files : manifest'.chunks[t][f] = {}
    BY <1>8, <2>1, CommitEffect DEF MatchInv
  <2>3. ASSUME NEW f \in Files \ {victim}
        PROVE  store[s][f] = manifest'.chunks[s][f]
    <3>1. CASE \A p \in pending : p.file # f
      BY <1>8, <2>1, <3>1, CommitEffect DEF MatchInv
    <3>2. ASSUME NEW p \in pending, p.file = f
          PROVE  store[s][f] = manifest'.chunks[s][f]
      <4>1. store[s][f] = (manifest.chunks[s][f] \cup p.upsert) \ p.delete
        BY <2>1, <3>2 DEF MatchInv, WriteInv, PendingInv
      <4>2. /\ p.delete = manifest.chunks[s][f] \ p.produced
            /\ p.upsert \subseteq p.produced
            /\ p.produced \ manifest.chunks[s][f] \subseteq p.upsert
        BY <2>1, <3>2 DEF WriteInv, PendingInv
      <4>3. manifest'.chunks[s][f] = p.produced
        BY <1>8, <2>1, <3>2, CommitEffect
      <4> QED
        BY <4>1, <4>2, <4>3
    <3> QED
      BY <3>1, <3>2
  <2> QED
    BY <2>1, <2>2, <2>3 DEF MatchInv
<1>9. ASSUME NEW g \in Files, DropVectors(g) PROVE MatchInv(s)'
  <2>1. /\ pc \in {"purge", "orphans"} /\ pc' = pc /\ opts.space = s /\ opts' = opts
        /\ manifest' = manifest /\ victim = None /\ victim' = g
    BY <1>0, <1>9 DEF DropVectors
  <2>2. \A t \in Spaces, f \in Files : (t # s \/ f # g) => store'[t][f] = store[t][f]
    BY <1>9, <2>1 DEF DropVectors, WriteInv, TypeOK
  <2>3. \A f \in Files : f # victim
    BY <2>1, ManifestAssumption
  <2> QED
    BY <2>1, <2>2, <2>3 DEF MatchInv
<1>10. CASE ForgetVictim
  <2>1. /\ pc' = pc /\ opts' = opts /\ store' = store /\ victim' = None
        /\ victim \in Files /\ pc \in {"purge", "orphans"} /\ opts.space = s
        /\ store[s][victim] = {}
    BY <1>0, <1>10 DEF ForgetVictim, WriteInv, TypeOK, StoreInv
  <2>2. \A t \in Spaces, f \in Files :
          manifest'.chunks[t][f] = IF f = victim THEN {} ELSE manifest.chunks[t][f]
    BY <1>10 DEF ForgetVictim, ForgetFile, WriteInv, TypeOK, Tables
  <2>3. \A t \in Spaces \ {s}, f \in Files : store[t][f] = {} /\ manifest'.chunks[t][f] = {}
    BY <2>2 DEF MatchInv
  <2>4. \A f \in Files : store[s][f] = manifest'.chunks[s][f]
    BY <2>1, <2>2 DEF MatchInv
  <2> QED
    BY <2>1, <2>3, <2>4 DEF MatchInv
<1>11. CASE PickOrphans
  BY <1>0, <1>11, MatchKept DEF PickOrphans
<1>12. CASE FinishRun
  BY <1>12, MatchKept DEF FinishRun, RunDone, Reset, WriteInv, StoreInv
<1>13. ~Abort /\ ~AbortUpsert
  BY DEF Abort, AbortUpsert, RunInv, TypeOK
<1> QED
  BY <1>1, <1>2, <1>3, <1>4, <1>5, <1>6, <1>7, <1>8, <1>9, <1>10, <1>11, <1>12, <1>13
  DEF Next, Progress, Failure, Walk, PrepareOne, Flush, Remove

\* One space from the start, and no run stopped half way.
THEOREM MatchInvariant ==
  ASSUME NEW s \in Spaces, \A o \in RunOptions : o.space = s, MaxAborts = 0
  PROVE  Spec => []MatchInv(s)
<1>1. Init => MatchInv(s)
  BY DEF Init, Idle, MatchInv, EmptyManifest
<1>2. RunInv /\ WriteInv /\ MatchInv(s) /\ [Next]_vars => MatchInv(s)'
  BY MatchStep
<1> QED
  BY <1>1, <1>2, RunInvariant, WriteInvariant, PTL DEF Spec

(* As long as one embedding space is in use and every run comes to its     *)
(* end, the store holds what the manifest says it holds, of every file     *)
(* that no flush or removal is in the middle of.  Both conditions are      *)
(* needed: crash_loses_vectors and swap_back_is_stale break them.          *)
(* (_flush, _purge, _remove_orphans)                                       *)
THEOREM StoreMatchesManifestHolds ==
  ASSUME NEW s \in Spaces, \A o \in RunOptions : o.space = s, MaxAborts = 0
  PROVE  Spec => []StoreMatchesManifest
<1>1. MatchInv(s) => StoreMatchesManifest
  <2> SUFFICES ASSUME MatchInv(s), NEW t \in Spaces, NEW f \in Files, f # victim,
                      pc \in {"delete", "commit"} => \A p \in pending : p.file # f
               PROVE  store[t][f] = manifest.chunks[t][f]
    BY DEF StoreMatchesManifest
  <2>1. CASE t = s
    BY <2>1 DEF MatchInv
  <2>2. CASE t # s
    <3>1. \A u \in Spaces \ {s}, g \in Files :
            store[u][g] = {} /\ manifest.chunks[u][g] = {}
      BY DEF MatchInv
    <3>2. t \in Spaces \ {s} /\ f \in Files
      BY <2>2
    <3>3. store[t][f] = {} /\ manifest.chunks[t][f] = {}
      BY <3>1, <3>2
    <3> QED
      BY <3>3
  <2> QED
    BY <2>1, <2>2
<1> QED
  BY <1>1, MatchInvariant, PTL

-----------------------------------------------------------------------------
(* What the rows say.                                                      *)

\* Only the text chunker's version is compared for a PDF, so a new version
\* of the PDF chunker alone would go unnoticed.
PdfVersionSettled ==
  "pdf" \notin Upgradable \/ \A f \in Files : KindOf[f] # "pdf"

\* A row was made of bytes that had no secret, by the chunker that would be
\* used again, and if it has the mtime of the file it has its content.
RowOK(f, row) ==
  /\ ~Withheld(f, row.sha)
  /\ row.chunker = Chunker(f, row.sha)
  /\ row.version \in 1..MaxVersion
  /\ row.chunker = "pdf" => row.version = version["pdf"]
  /\ row.mtime <= clock
  /\ disk[f] # None /\ row.mtime = disk[f].mtime => row.sha = disk[f].content

\* What a row may have been made with: the chunker it names, or, of a code file
\* that was degraded, the text chunker of whatever release.
MadeAs(f, row) ==
  {Split(row.sha, row.chunker, row.version)} \cup Degraded(f, row.sha, 1..MaxVersion)

\* The chunk rows of a file are those its row was made with.
FileRowsOK(f, s) ==
  IF manifest.files[f] = None
  THEN manifest.spaces[f] = {} /\ \A t \in Spaces : manifest.chunks[t][f] = {}
  ELSE /\ RowOK(f, manifest.files[f])
       /\ s \in manifest.spaces[f] =>
            manifest.chunks[s][f] \in MadeAs(f, manifest.files[f])

PendingRowOK(p) ==
  /\ RowOK(p.file, p.row)
  /\ p.row.version = version[p.row.chunker]
  /\ p.produced \in Produced(p.file, p.row.sha)

RowsInv(s) ==
  /\ pc # "idle" => opts.space = s
  /\ \A f \in Files : disk[f] # None => disk[f].mtime <= clock
  /\ \A f \in Files : stat[f] # None => stat[f] <= clock
  /\ \A f \in Files : FileRowsOK(f, s)
  /\ \A p \in pending : PendingRowOK(p)

LEMMA PdfChunker ==
  ASSUME NEW f \in Files, NEW c, Chunker(f, c) = "pdf"
  PROVE  KindOf[f] = "pdf"
BY IndexerAssumption DEF Chunker, ChunkerByKind, KindRead, Kinds

\* Steps that leave the disk and the installed chunkers alone.
LEMMA RowOKKept ==
  ASSUME NEW f, NEW row, RowOK(f, row), UNCHANGED <<version, clock, disk>>
  PROVE  RowOK(f, row)'
BY DEF RowOK, Withheld, KindRead, Chunker

LEMMA FileRowsKept ==
  ASSUME NEW f, NEW s, FileRowsOK(f, s), UNCHANGED <<version, clock, disk>>,
         manifest'.files[f] = manifest.files[f],
         manifest'.spaces[f] = manifest.spaces[f],
         \A t \in Spaces \cup {s} : manifest'.chunks[t][f] = manifest.chunks[t][f]
  PROVE  FileRowsOK(f, s)'
BY RowOKKept DEF FileRowsOK, MadeAs, Degraded, Chunker, KindRead

LEMMA PendingRowKept ==
  ASSUME NEW p, PendingRowOK(p), UNCHANGED <<version, clock, disk>>
  PROVE  PendingRowOK(p)'
BY RowOKKept DEF PendingRowOK, Produced, ChunkedBy, Degraded, Withheld, KindRead, Chunker

\* Steps that write no row.
LEMMA RowsKept ==
  ASSUME NEW s \in Spaces, RowsInv(s), UNCHANGED <<version, clock, disk, manifest>>,
         pc' # "idle" => opts'.space = s,
         stat' = stat \/ stat' = [f \in Files |-> None],
         pending' = pending \/ pending' = {}
  PROVE  RowsInv(s)'
<1>1. \A f \in Files : FileRowsOK(f, s)'
  BY FileRowsKept DEF RowsInv
<1>2. \A p \in pending' : PendingRowOK(p)'
  BY PendingRowKept DEF RowsInv
<1>3. /\ \A f \in Files : disk'[f] # None => disk'[f].mtime <= clock'
      /\ \A f \in Files : stat'[f] # None => stat'[f] <= clock'
  BY DEF RowsInv
<1> QED
  BY <1>1, <1>2, <1>3 DEF RowsInv

\* The outside world makes its changes at times of their own.
LEMMA RowsOutside ==
  ASSUME NEW s \in Spaces, PdfVersionSettled, TypeOK, PhaseInv, RowsInv(s), Outside
  PROVE  RowsInv(s)'
<1> USE DEF outside, run, ghosts
<1>0. /\ \A f \in Files : manifest.files[f] # None => manifest.files[f].mtime \in Nat
      /\ \A f \in Files : stat[f] # None => stat[f] \in Nat
      /\ \A f \in Files : disk[f] # None => disk[f].mtime \in Nat
      /\ \A p \in pending : p.row.mtime \in Nat
      /\ clock \in Nat
  BY IndexerAssumption DEF TypeOK, Tables, Row, OnDisk, Pending
<1>1. ASSUME NEW g \in Files, NEW c \in Contents, Edit(g, c) PROVE RowsInv(s)'
  <2>1. /\ clock' = clock + 1 /\ UNCHANGED <<version, manifest, pc, opts, stat, pending>>
        /\ \A f \in Files : f # g => disk'[f] = disk[f]
        /\ disk'[g].mtime = clock + 1
    BY <1>1 DEF Edit, TypeOK
  <2>2. ASSUME NEW f \in Files, NEW row, RowOK(f, row), row.mtime \in Nat
        PROVE  RowOK(f, row)'
    <3>1. row.mtime <= clock' /\ row.mtime # clock + 1
      BY <1>0, <2>1, <2>2 DEF RowOK
    <3>2. disk'[f] # None /\ row.mtime = disk'[f].mtime => row.sha = disk'[f].content
      BY <2>1, <2>2, <3>1 DEF RowOK
    <3> QED
      BY <2>1, <2>2, <3>1, <3>2 DEF RowOK, Withheld, KindRead, Chunker
  <2>3. \A f \in Files : FileRowsOK(f, s)'
    BY <1>0, <2>1, <2>2 DEF RowsInv, FileRowsOK, MadeAs, Degraded, Chunker, KindRead
  <2>4. \A p \in pending : PendingRowOK(p)'
    <3> TAKE p \in pending
    <3>1. PendingRowOK(p) /\ p.file \in Files
      BY DEF RowsInv, TypeOK, Pending
    <3> QED
      BY <1>0, <2>1, <2>2, <3>1
      DEF PendingRowOK, Produced, ChunkedBy, Degraded, Withheld, KindRead, Chunker
  <2>5. /\ \A f \in Files : disk'[f] # None => disk'[f].mtime <= clock'
        /\ \A f \in Files : stat'[f] # None => stat'[f] <= clock'
    BY <1>0, <2>1 DEF RowsInv
  <2> QED
    BY <2>1, <2>3, <2>4, <2>5 DEF RowsInv
<1>2. ASSUME NEW g \in Files, Delete(g) PROVE RowsInv(s)'
  <2>1. /\ UNCHANGED <<clock, version, manifest, pc, opts, stat, pending>>
        /\ \A f \in Files : f # g => disk'[f] = disk[f]
        /\ disk'[g] = None
    BY <1>2 DEF Delete, TypeOK
  <2>2. ASSUME NEW f \in Files, NEW row, RowOK(f, row) PROVE RowOK(f, row)'
    BY <2>1, <2>2 DEF RowOK, Withheld, KindRead, Chunker
  <2>3. \A f \in Files : FileRowsOK(f, s)'
    BY <2>1, <2>2 DEF RowsInv, FileRowsOK, MadeAs, Degraded, Chunker, KindRead
  <2>4. \A p \in pending : PendingRowOK(p)'
    <3> TAKE p \in pending
    <3>1. PendingRowOK(p) /\ p.file \in Files
      BY DEF RowsInv, TypeOK, Pending
    <3> QED
      BY <2>1, <2>2, <3>1
      DEF PendingRowOK, Produced, ChunkedBy, Degraded, Withheld, KindRead, Chunker
  <2> QED
    BY <2>1, <2>3, <2>4 DEF RowsInv
<1>3. ASSUME NEW n \in ChunkerNames, Upgrade(n) PROVE RowsInv(s)'
  <2>1. /\ pending = {} /\ n \in Upgradable /\ pc' = "idle"
        /\ UNCHANGED <<clock, disk, manifest, pc, opts, stat, pending>>
        /\ n # "pdf" => version'["pdf"] = version["pdf"]
    BY <1>3 DEF Upgrade, PhaseInv, TypeOK, ChunkerNames
  <2>2. ASSUME NEW f \in Files, NEW row, RowOK(f, row) PROVE RowOK(f, row)'
    <3>1. row.chunker = "pdf" => version'["pdf"] = version["pdf"]
      BY <2>1, <2>2, PdfChunker DEF RowOK, PdfVersionSettled
    <3> QED
      BY <2>1, <2>2, <3>1 DEF RowOK, Withheld, KindRead, Chunker
  <2>3. \A f \in Files : FileRowsOK(f, s)'
    BY <2>1, <2>2 DEF RowsInv, FileRowsOK, MadeAs, Degraded, Chunker, KindRead
  <2> QED
    BY <2>1, <2>3 DEF RowsInv
<1>4. ASSUME NEW r \in Roots, Unmount(r) \/ Mount(r) \/ Reconfigure(r) PROVE RowsInv(s)'
  BY <1>4, RowsKept DEF Unmount, Mount, Reconfigure, RowsInv
<1> QED
  BY <1>1, <1>2, <1>3, <1>4 DEF Outside

\* The row and the spaces of a file, after a commit.
LEMMA CommitRows ==
  ASSUME WriteInv, Commit, NEW f \in Files
  PROVE  /\ (\A p \in pending : p.file # f) =>
              /\ manifest'.files[f] = manifest.files[f]
              /\ manifest'.spaces[f] = manifest.spaces[f]
         /\ \A p \in pending : p.file = f =>
              /\ manifest'.files[f] = p.row
              /\ manifest'.spaces[f] = manifest.spaces[f] \cup {opts.space}
<1> DEFINE written == {p.file : p \in pending}
           of(g)   == CHOOSE p \in pending : p.file = g
<1>1. /\ manifest'.files[f] = IF f \in written THEN of(f).row ELSE manifest.files[f]
      /\ manifest'.spaces[f] = IF f \in written THEN manifest.spaces[f] \cup {opts.space}
                               ELSE manifest.spaces[f]
  BY DEF Commit, RecordAll
<1>2. \A p \in pending : p.file = f => f \in written /\ of(f) = p
  BY DEF WriteInv, PendingInv
<1>3. (\A p \in pending : p.file # f) => f \notin written
  OBVIOUS
<1> HIDE DEF written, of
<1> QED
  BY <1>1, <1>2, <1>3

\* What is queued was read as it is on disk.
LEMMA QueuedRowOK ==
  ASSUME NEW s \in Spaces, TypeOK, RowsInv(s), NEW f \in Files, PrepareQueue(f),
         NEW made \in Produced(f, disk[f].content)
  PROVE  PendingRowOK(PendingFile(f, made))
<1> DEFINE p == PendingFile(f, made)
           c == disk[f].content
<1>1. /\ p.file = f /\ p.row.sha = c /\ p.row.mtime = stat[f]
      /\ p.row.chunker = Chunker(f, c) /\ p.row.version = version[Chunker(f, c)]
      /\ p.produced \in Produced(f, c)
  BY DEF PendingFile
<1>2. ~Withheld(f, c) /\ f \in todo /\ disk[f] # None
  BY DEF PrepareQueue, Prepare, Readable
<1>3. stat[f] <= clock /\ c \in Contents
  BY <1>2 DEF RowsInv, TypeOK, OnDisk
<1>4. version[Chunker(f, c)] \in 1..MaxVersion
  BY <1>3, ChunkerTypes DEF TypeOK
<1> HIDE DEF p
<1> QED
  BY <1>1, <1>2, <1>3, <1>4 DEF PendingRowOK, RowOK, p

LEMMA RowsCommit ==
  ASSUME NEW s \in Spaces, WriteInv, RowsInv(s), Commit
  PROVE  RowsInv(s)'
<1> USE DEF outside, run, ghosts
<1>1. /\ opts.space = s /\ opts' = opts /\ stat' = stat /\ pending' = {}
      /\ UNCHANGED <<version, clock, disk>>
  BY DEF Commit, RowsInv
<1>2. ASSUME NEW f \in Files, \A p \in pending : p.file # f
      PROVE  FileRowsOK(f, s)'
    <2>1. \A t \in Spaces : manifest'.chunks[t][f] = manifest.chunks[t][f]
      BY <1>2, CommitEffect
    <2>2. FileRowsOK(f, s)
      BY DEF RowsInv
    <2> QED
      BY <1>1, <1>2, <2>1, <2>2, CommitRows, FileRowsKept
<1>3. ASSUME NEW p \in pending
      PROVE  FileRowsOK(p.file, s)'
    <2>1. PICK f \in Files : f = p.file
      BY DEF WriteInv, TypeOK, Pending
    <2>2. /\ manifest'.files[f] = p.row /\ p.row \in Row
          /\ manifest'.chunks[s][f] = p.produced
      BY <1>1, <2>1, CommitRows, CommitEffect DEF WriteInv, TypeOK, Pending
    <2>3. PendingRowOK(p)
      BY DEF RowsInv
    <2>4. RowOK(f, p.row)'
      BY <1>1, <2>1, <2>3, RowOKKept DEF PendingRowOK
    <2>5. p.produced \in MadeAs(f, p.row)
      <3>1. p.produced \in Standing(f, p.row.sha)
        BY <2>1, <2>3, ProducedStands DEF PendingRowOK, WriteInv, TypeOK
      <3> QED
        BY <2>1, <2>3, <3>1 DEF PendingRowOK, RowOK, Standing, ChunkedBy, MadeAs
    <2>6. FileRowsOK(f, s)'
      BY <2>2, <2>4, <2>5, RowAssumption DEF FileRowsOK, MadeAs, Degraded, Chunker, KindRead
    <2> QED
      BY <2>1, <2>6
<1>4. \A f \in Files : FileRowsOK(f, s)'
  BY <1>2, <1>3
<1> QED
  BY <1>1, <1>4 DEF RowsInv

LEMMA RowsTouch ==
  ASSUME NEW s \in Spaces, TypeOK, RowsInv(s), NEW f \in Files, PrepareTouch(f)
  PROVE  RowsInv(s)'
<1> USE DEF outside, run, ghosts
<1>1. /\ opts' = opts /\ stat' = stat /\ pending' = pending /\ pc' = pc
      /\ UNCHANGED <<version, clock, disk>>
      /\ disk[f] # None /\ stat[f] \in Nat /\ stat[f] <= clock /\ stat[f] # None
  BY DEF PrepareTouch, Prepare, Readable, RowsInv, TypeOK
<1>2. manifest.files[f] # None /\ manifest.files[f].sha = disk[f].content
  BY DEF PrepareTouch, Decision, StatDecision, DecideFromStat, DecideFromHash
<1>3. manifest.files[f] \in Row /\ manifest \in Tables
  BY <1>2 DEF TypeOK, Tables
<1>4. /\ manifest'.files[f] = [manifest.files[f] EXCEPT !.mtime = stat[f]]
      /\ \A g \in Files : g # f => manifest'.files[g] = manifest.files[g]
      /\ manifest'.spaces = manifest.spaces /\ manifest'.chunks = manifest.chunks
  BY <1>3 DEF PrepareTouch, Touch, Tables
<1>5. /\ manifest'.files[f] \in Row
      /\ manifest'.files[f].mtime = stat[f]
      /\ manifest'.files[f].sha = manifest.files[f].sha
      /\ manifest'.files[f].chunker = manifest.files[f].chunker
      /\ manifest'.files[f].version = manifest.files[f].version
  BY <1>1, <1>3, <1>4 DEF Row
<1>6. FileRowsOK(f, s)'
  <2>1. RowOK(f, manifest.files[f]) /\ FileRowsOK(f, s)
    BY <1>2 DEF RowsInv, FileRowsOK
  <2>2. PICK old, row : old = manifest.files[f] /\ row = manifest'.files[f]
    OBVIOUS
  <2>3. RowOK(f, old) /\ old.sha = disk[f].content
    BY <1>2, <2>1, <2>2
  <2>4. /\ row \in Row /\ row.mtime = stat[f] /\ row.sha = old.sha
        /\ row.chunker = old.chunker /\ row.version = old.version
    BY <1>5, <2>2
  <2>5. RowOK(f, row)'
    BY <1>1, <2>3, <2>4 DEF RowOK, Withheld, KindRead, Chunker
  <2>6. MadeAs(f, row) = MadeAs(f, old)
    BY <2>4 DEF MadeAs, Degraded, Chunker, KindRead
  <2>7. s \in manifest'.spaces[f] => manifest'.chunks[s][f] \in MadeAs(f, row)
    BY <1>2, <1>4, <2>1, <2>2, <2>6 DEF FileRowsOK
  <2> QED
    BY <2>2, <2>4, <2>5, <2>7, RowAssumption
    DEF FileRowsOK, MadeAs, Degraded, Chunker, KindRead
<1>7. \A g \in Files : g # f => FileRowsOK(g, s)'
  BY <1>1, <1>4, FileRowsKept DEF RowsInv
<1>8. \A p \in pending' : PendingRowOK(p)'
  BY <1>1, PendingRowKept DEF RowsInv
<1> QED
  BY <1>1, <1>6, <1>7, <1>8 DEF RowsInv

LEMMA RowsStep ==
  ASSUME NEW s \in Spaces, \A o \in RunOptions : o.space = s, PdfVersionSettled,
         WriteInv, PhaseInv, RowsInv(s), [Next]_vars
  PROVE  RowsInv(s)'
<1> USE DEF outside, run, ghosts
<1>0. pc # "idle" => opts.space = s
  BY DEF RowsInv
<1>1. CASE Outside
  BY <1>1, RowsOutside DEF WriteInv
<1>2. CASE (\E o \in RunOptions : StartRun(o)) \/ EndPrepare \/ EndWalk
             \/ (\E r \in Roots : WalkRoot(r)) \/ UNCHANGED vars
  BY <1>0, <1>2, RowsKept DEF StartRun, EndPrepare, EndWalk, WalkRoot, vars
<1>3. ASSUME NEW g \in Files, WalkFile(g) PROVE RowsInv(s)'
  <2>1. /\ opts' = opts /\ pc' = pc /\ pending' = pending /\ manifest' = manifest
        /\ UNCHANGED <<version, clock, disk>>
    BY <1>3 DEF WalkFile
  <2>2. \A f \in Files : stat'[f] # None => stat'[f] <= clock
    BY <1>3 DEF WalkFile, Readable, RowsInv, WriteInv, TypeOK
  <2>3. \A f \in Files : FileRowsOK(f, s)'
    BY <2>1, FileRowsKept DEF RowsInv
  <2>4. \A p \in pending' : PendingRowOK(p)'
    BY <2>1, PendingRowKept DEF RowsInv
  <2> QED
    BY <2>1, <2>2, <2>3, <2>4 DEF RowsInv
<1>4. ASSUME NEW g \in Files,
             PrepareSkip(g) \/ PrepareVanished(g) \/ PrepareFails(g) \/ PrepareWithheld(g)
               \/ WalkMisses(g)
      PROVE RowsInv(s)'
  BY <1>0, <1>4, RowsKept DEF PrepareSkip, PrepareVanished, PrepareFails, PrepareWithheld,
     WalkMisses, Prepare
<1>5. ASSUME NEW g \in Files, PrepareTouch(g) PROVE RowsInv(s)'
  BY <1>5, RowsTouch DEF WriteInv
<1>6. ASSUME NEW g \in Files, PrepareQueue(g) PROVE RowsInv(s)'
  <2>0. PICK made \in Produced(g, disk[g].content) :
               pending' = pending \cup {PendingFile(g, made)}
    BY <1>6 DEF PrepareQueue
  <2>1. /\ opts' = opts /\ pc # "idle" /\ pending' = pending \cup {PendingFile(g, made)}
        /\ manifest' = manifest /\ stat' = stat /\ UNCHANGED <<version, clock, disk>>
    BY <1>6, <2>0 DEF PrepareQueue, Prepare
  <2>2. \A p \in pending' : PendingRowOK(p)
    BY <1>6, <2>1, QueuedRowOK DEF RowsInv, WriteInv
  <2>3. \A p \in pending' : PendingRowOK(p)'
    BY <2>1, <2>2, PendingRowKept
  <2>4. \A f \in Files : FileRowsOK(f, s)'
    BY <2>1, FileRowsKept DEF RowsInv
  <2> QED
    BY <2>1, <2>3, <2>4 DEF RowsInv
<1>7. CASE FlushRest \/ DryFlush \/ Upsert \/ DeleteStale
  BY <1>0, <1>7, RowsKept DEF FlushRest, DryFlush, Upsert, DeleteStale
<1>8. CASE Commit
  BY <1>8, RowsCommit
<1>9. CASE (\E g \in Files : DropVectors(g)) \/ PickOrphans \/ FinishRun \/ Abort
             \/ AbortUpsert
  BY <1>0, <1>9, RowsKept DEF DropVectors, PickOrphans, FinishRun, Abort, AbortUpsert, Reset
<1>10. CASE ForgetVictim
  <2>1. /\ opts' = opts /\ pc' = pc /\ pending' = pending /\ stat' = stat
        /\ UNCHANGED <<version, clock, disk>> /\ victim \in Files
    BY <1>10 DEF ForgetVictim, WriteInv, TypeOK
  <2>2. /\ manifest'.files[victim] = None /\ manifest'.spaces[victim] = {}
        /\ \A t \in Spaces : manifest'.chunks[t][victim] = {}
        /\ \A f \in Files \ {victim} :
             /\ manifest'.files[f] = manifest.files[f]
             /\ manifest'.spaces[f] = manifest.spaces[f]
             /\ \A t \in Spaces : manifest'.chunks[t][f] = manifest.chunks[t][f]
    BY <1>10, <2>1 DEF ForgetVictim, ForgetFile, WriteInv, TypeOK, Tables
  <2>3. ASSUME NEW f \in Files PROVE FileRowsOK(f, s)'
    <3>1. CASE f = victim
      BY <2>2, <3>1 DEF FileRowsOK
    <3>2. CASE f # victim
      BY <2>1, <2>2, <3>2, FileRowsKept DEF RowsInv
    <3> QED
      BY <3>1, <3>2
  <2>4. \A p \in pending' : PendingRowOK(p)'
    BY <2>1, PendingRowKept DEF RowsInv
  <2> QED
    BY <2>1, <2>3, <2>4 DEF RowsInv
<1> QED
  BY <1>1, <1>2, <1>3, <1>4, <1>5, <1>6, <1>7, <1>8, <1>9, <1>10
  DEF Next, Progress, Failure, Walk, PrepareOne, Flush, Remove

\* One space from the start, whatever else is edited, fails or stops.
THEOREM RowsInvariant ==
  ASSUME NEW s \in Spaces, \A o \in RunOptions : o.space = s, PdfVersionSettled
  PROVE  Spec => []RowsInv(s)
<1>1. Init => RowsInv(s)
  BY DEF Init, Idle, RowsInv, FileRowsOK, EmptyManifest
<1>2. WriteInv /\ PhaseInv /\ RowsInv(s) /\ [Next]_vars => RowsInv(s)'
  BY RowsStep
<1> QED
  BY <1>1, <1>2, WriteInvariant, PhaseInvariant, PTL DEF Spec

-----------------------------------------------------------------------------
(* What a completed run has recorded.                                      *)

\* The walk comes to every file that nobody touches, and takes its mtime.
WalkInv ==
  /\ pc = "idle" => unobservable = {}
  /\ \A f \in steady : RootOf[f] \notin unobservable
  /\ pc # "idle" => \A f \in Files : Accountable(f) =>
       /\ stat[f] # None => disk[f] # None /\ stat[f] = disk[f].mtime
       /\ disk[f] # None /\ stat[f] = None =>
            pc = "walk" /\ (RootOf[f] \in roots \/ f \in unwalked)

\* A file the ladder is done with is recorded or about to be; one with a
\* secret has no row or is about to lose it.
Settled(f) ==
  \/ \E p \in pending : p.file = f /\ p.row.sha = disk[f].content
  \/ /\ \A p \in pending : p.file # f
     /\ IF Withheld(f, disk[f].content)
        THEN f \in InHands \/ manifest.files[f] = None
        ELSE RecordedAsOnDisk(f, opts.space)

LadderInv ==
  pc # "idle" /\ ~opts.dry =>
    \A f \in Files : Accountable(f) /\ stat[f] # None /\ f \notin todo => Settled(f)

\* Once the orphans are picked, a file that is gone has no row or is about
\* to lose it, unless its whole root is held back.
Removed(f) ==
  \/ f \in InHands \/ manifest.files[f] = None
  \/ f \in KeptByBrake /\ InHands \cap FilesOf(RootOf[f]) = {}

GoneInv ==
  pc = "orphans" => \A f \in Files : Accountable(f) /\ stat[f] = None => Removed(f)

\* A file nobody has touched after a step was not touched by it.
LEMMA AccountableBefore ==
  ASSUME RunInv, [Next]_vars, pc # "idle", pc' # "idle",
         NEW f \in Files, Accountable(f)'
  PROVE  /\ Accountable(f) /\ disk'[f] = disk[f]
         /\ UNCHANGED <<opts, version, configured>>
<1> USE DEF outside, run, ghosts, Accountable, InScope
<1>1. CASE Outside
  <2>1. ASSUME NEW g \in Files, NEW c \in Contents, Edit(g, c)
        PROVE  /\ Accountable(f) /\ disk'[f] = disk[f]
               /\ UNCHANGED <<opts, version, configured>>
    BY <2>1 DEF Edit, RunInv, TypeOK
  <2>2. ASSUME NEW g \in Files, Delete(g)
        PROVE  /\ Accountable(f) /\ disk'[f] = disk[f]
               /\ UNCHANGED <<opts, version, configured>>
    BY <2>2 DEF Delete, RunInv, TypeOK
  <2> QED
    BY <1>1, <2>1, <2>2 DEF Outside, Unmount, Mount, Reconfigure, Upgrade
<1>2. CASE (\E o \in RunOptions : StartRun(o)) \/ Walk \/ EndPrepare \/ UNCHANGED vars
  BY <1>2 DEF StartRun, Walk, WalkRoot, WalkFile, EndWalk, EndPrepare, vars
<1>3. CASE PrepareOne
  BY <1>3 DEF PrepareOne, PrepareSkip, PrepareVanished, PrepareWithheld,
              PrepareTouch, PrepareQueue, Prepare
<1>4. CASE Flush \/ Remove
  BY <1>4 DEF Flush, FlushRest, DryFlush, Upsert, DeleteStale, Commit, Remove,
              DropVectors, ForgetVictim, PickOrphans
<1>5. CASE FinishRun \/ Failure
  BY <1>5 DEF FinishRun, Failure, WalkMisses, PrepareFails, Prepare, Abort,
              AbortUpsert, Reset
<1> QED
  BY <1>1, <1>2, <1>3, <1>4, <1>5 DEF Next, Progress

\* A run begins with StartRun, and has seen nothing then.
LEMMA BeginsFresh ==
  ASSUME RunInv, [Next]_vars, pc = "idle", pc' # "idle"
  PROVE  /\ \E o \in RunOptions : StartRun(o)
         /\ pc' = "walk" /\ stat' = [f \in Files |-> None]
<1> USE DEF outside, run, ghosts
<1>1. \E o \in RunOptions : StartRun(o)
  BY DEF Next, vars, Outside, Edit, Delete, Unmount, Mount, Reconfigure, Upgrade,
     Progress, Failure, Walk, WalkRoot, WalkFile, EndWalk, PrepareOne, PrepareSkip,
     PrepareVanished, PrepareWithheld, PrepareTouch, PrepareQueue, Prepare, Flush,
     FlushRest, DryFlush, Upsert, DeleteStale, Commit, EndPrepare, Remove, DropVectors,
     ForgetVictim, PickOrphans, FinishRun, RunDone, WalkMisses, PrepareFails, Abort,
     AbortUpsert, RunInv, IdleInv
<1>2. \A f \in Files : stat[f] = None
  BY DEF RunInv, IdleInv, AbsentInv
<1>3. stat = [f \in Files |-> None]
  BY <1>2 DEF RunInv, TypeOK
<1> QED
  BY <1>1, <1>3 DEF StartRun

LEMMA UnobservableStep == RunInv /\ WalkInv /\ [Next]_vars =>
  /\ pc' = "idle" => unobservable' = {}
  /\ \A f \in steady' : RootOf[f] \notin unobservable'
<1> SUFFICES ASSUME RunInv, WalkInv, [Next]_vars
             PROVE  /\ pc' = "idle" => unobservable' = {}
                    /\ \A f \in steady' : RootOf[f] \notin unobservable'
  OBVIOUS
<1> USE DEF outside, run, ghosts, WalkInv
<1>1. CASE Outside \/ UNCHANGED vars
  BY <1>1 DEF Outside, Edit, Delete, Unmount, Mount, Reconfigure, Upgrade, vars
<1>2. CASE (\E o \in RunOptions : StartRun(o)) \/ EndPrepare
  BY <1>2 DEF StartRun, EndPrepare
<1>3. CASE Walk
  BY <1>3 DEF Walk, WalkRoot, WalkFile, EndWalk, RunInv, LiveInv
<1>4. CASE PrepareOne
  BY <1>4 DEF PrepareOne, PrepareSkip, PrepareVanished, PrepareWithheld,
              PrepareTouch, PrepareQueue, Prepare
<1>5. CASE Flush \/ Remove
  BY <1>5 DEF Flush, FlushRest, DryFlush, Upsert, DeleteStale, Commit, Remove,
              DropVectors, ForgetVictim, PickOrphans, RunInv, IdleInv
<1>6. CASE FinishRun \/ Failure
  BY <1>6 DEF FinishRun, Failure, WalkMisses, PrepareFails, Prepare, Abort,
              AbortUpsert, Reset
<1> QED
  BY <1>1, <1>2, <1>3, <1>4, <1>5, <1>6 DEF Next, Progress

\* What a step may do to the run's view of the walk.
LEMMA WalkChange ==
  ASSUME RunInv, [Next]_vars, pc # "idle", pc' # "idle"
  PROVE  \/ \E r \in Roots : WalkRoot(r)
         \/ \E g \in Files : WalkFile(g) \/ WalkMisses(g)
         \/ EndWalk
         \/ UNCHANGED <<stat, roots, unwalked>> /\ (pc = "walk" => pc' = "walk")
<1> USE DEF outside, run, ghosts
<1>1. CASE Outside \/ UNCHANGED vars
  BY <1>1 DEF Outside, Edit, Delete, Unmount, Mount, Reconfigure, Upgrade, vars
<1>2. CASE (\E o \in RunOptions : StartRun(o)) \/ EndPrepare
  BY <1>2 DEF StartRun, EndPrepare
<1>3. CASE Walk
  BY <1>3 DEF Walk
<1>4. CASE PrepareOne
  BY <1>4 DEF PrepareOne, PrepareSkip, PrepareVanished, PrepareWithheld,
              PrepareTouch, PrepareQueue, Prepare
<1>5. CASE Flush \/ Remove
  BY <1>5 DEF Flush, FlushRest, DryFlush, Upsert, DeleteStale, Commit, Remove,
              DropVectors, ForgetVictim, PickOrphans
<1>6. CASE FinishRun \/ Failure
  BY <1>6 DEF FinishRun, Failure, PrepareFails, Prepare, Abort, AbortUpsert, Reset
<1> QED
  BY <1>1, <1>2, <1>3, <1>4, <1>5, <1>6 DEF Next, Progress

LEMMA WalkStep == RunInv /\ WalkInv /\ [Next]_vars => WalkInv'
<1> SUFFICES ASSUME RunInv, WalkInv, [Next]_vars, pc' # "idle",
                    NEW f \in Files, Accountable(f)'
             PROVE  /\ stat'[f] # None => disk'[f] # None /\ stat'[f] = disk'[f].mtime
                    /\ disk'[f] # None /\ stat'[f] = None =>
                         pc' = "walk" /\ (RootOf[f] \in roots' \/ f \in unwalked')
  BY UnobservableStep DEF WalkInv
<1> USE DEF outside, run, ghosts
<1>1. CASE pc = "idle"
  <2>1. PICK o \in RunOptions : StartRun(o)
    BY <1>1, BeginsFresh
  <2>2. RootOf[f] \in roots'
    BY <2>1 DEF StartRun, Accountable, InScope
  <2> QED
    BY <1>1, <2>2, BeginsFresh
<1>2. CASE pc # "idle"
  <2>1. Accountable(f) /\ disk'[f] = disk[f]
    BY <1>2, AccountableBefore
  <2>2. RootOf[f] \in mounted
    BY <2>1 DEF Accountable, RunInv, LiveInv
  <2>3. ASSUME NEW r \in Roots, WalkRoot(r)
        PROVE  /\ stat'[f] = stat[f] /\ pc' = "walk"
               /\ RootOf[f] \in roots \/ f \in unwalked =>
                    RootOf[f] \in roots' \/ f \in unwalked'
    BY <2>2, <2>3 DEF WalkRoot, FilesOf
  <2>4. ASSUME NEW g \in Files, WalkFile(g)
        PROVE  /\ stat'[f] # None => disk'[f] # None /\ stat'[f] = disk'[f].mtime
               /\ disk'[f] # None /\ stat'[f] = None =>
                    pc' = "walk" /\ (RootOf[f] \in roots' \/ f \in unwalked')
    <3>1. CASE f # g
      BY <1>2, <2>1, <2>4, <3>1 DEF WalkFile, WalkInv, RunInv, TypeOK
    <3>2. CASE f = g /\ disk[f] # None
      <4>1. disk[f].mtime # None
        BY <3>2, IndexerAssumption, RowAssumption DEF RunInv, TypeOK, OnDisk
      <4> QED
        BY <2>1, <2>2, <2>4, <3>2, <4>1 DEF WalkFile, Readable, RunInv, TypeOK
    <3>3. CASE f = g /\ disk[f] = None
      BY <1>2, <2>1, <2>4, <3>3 DEF WalkFile, Readable, WalkInv
    <3> QED
      BY <3>1, <3>2, <3>3
  <2>5. ASSUME NEW g \in Files, WalkMisses(g)
        PROVE  f # g /\ stat' = stat /\ pc' = pc /\ roots' = roots
               /\ unwalked' = unwalked \ {g}
    BY <2>5 DEF WalkMisses, Accountable
  <2> QED
    BY <1>2, <2>1, <2>3, <2>4, <2>5, WalkChange DEF WalkInv, EndWalk
<1> QED
  BY <1>1, <1>2

\* A row that the ladder finds current has the chunks that would be made
\* again.
LEMMA CurrentRow ==
  ASSUME NEW s \in Spaces, TypeOK, RowsInv(s), NEW f \in Files,
         manifest.files[f] # None, s \in manifest.spaces[f],
         manifest.files[f].version = ChunkerVersion(f)
  PROVE  manifest.chunks[s][f] \in Standing(f, manifest.files[f].sha)
<1> DEFINE row == manifest.files[f]
           c   == row.sha
           n   == Chunker(f, c)
<1>1. /\ RowOK(f, row)
      /\ \/ manifest.chunks[s][f] = Split(c, row.chunker, row.version)
         \/ manifest.chunks[s][f] \in Degraded(f, c, 1..MaxVersion)
  BY DEF RowsInv, FileRowsOK, MadeAs
<1>2. row \in Row /\ c \in Contents /\ KindOf[f] \in Kinds
  BY IndexerAssumption DEF TypeOK, Tables, Row
<1>3. ~Withheld(f, c) /\ row.chunker = n /\ n \in ChunkerNames /\ row.version \in 1..MaxVersion
  BY <1>1, <1>2, ChunkerTypes DEF RowOK
<1>4. version[n] \in 1..MaxVersion
  BY <1>3 DEF TypeOK
<1>8. CASE manifest.chunks[s][f] \in Degraded(f, c, 1..MaxVersion)
  BY <1>3, <1>8 DEF Standing, ChunkedBy
<1> SUFFICES ASSUME manifest.chunks[s][f] = Split(c, n, row.version)
             PROVE  manifest.chunks[s][f] \in Standing(f, c)
  BY <1>1, <1>3, <1>8
<1>5. CASE n = "opaque"
  BY <1>2, <1>3, <1>4, <1>5, SplitAssumption DEF Standing, ChunkedBy
<1>6. CASE n = "pdf"
  BY <1>1, <1>3, <1>6 DEF RowOK, Standing, ChunkedBy
<1>7. CASE n \in {"code", "markdown", "text"}
  <2>1. ChunkerForKind[KindOf[f]] = n
    BY <1>2, <1>7 DEF Chunker, ChunkerByKind, ChunkerForKind, KindRead, Kinds
  <2> QED
    BY <1>3, <2>1 DEF ChunkerVersion, Standing, ChunkedBy
<1> QED
  BY <1>3, <1>5, <1>6, <1>7 DEF ChunkerNames

\* A step that leaves a file's rows as they were leaves it settled.
LEMMA SettledKept ==
  ASSUME NEW f \in Files, Settled(f),
         UNCHANGED <<opts, version>>, disk'[f] = disk[f], opts.space \in Spaces,
         \A p \in pending : p.file = f => p \in pending',
         \A p \in pending' : p.file = f => p \in pending,
         manifest'.files[f] = manifest.files[f],
         manifest'.spaces[f] = manifest.spaces[f],
         manifest'.chunks[opts.space][f] = manifest.chunks[opts.space][f],
         f \in InHands => f \in InHands' \/ manifest.files[f] = None
  PROVE  Settled(f)'
<1>1. /\ Withheld(f, disk[f].content)' <=> Withheld(f, disk[f].content)
      /\ Standing(f, disk[f].content)' = Standing(f, disk[f].content)
  BY ChunkedAlike DEF Withheld, KindRead
<1>2. RecordedAsOnDisk(f, opts.space) => RecordedAsOnDisk(f, opts.space)'
  BY <1>1 DEF RecordedAsOnDisk
<1>3. CASE \E p \in pending : p.file = f /\ p.row.sha = disk[f].content
  BY <1>3 DEF Settled
<1>4. CASE ~\E p \in pending : p.file = f /\ p.row.sha = disk[f].content
  BY <1>1, <1>2, <1>4 DEF Settled
<1> QED
  BY <1>3, <1>4

\* The ladder's own steps, for the file they are about.
LEMMA PreparedIsSettled ==
  ASSUME NEW s \in Spaces, RunInv, WriteInv, RowsInv(s), WalkInv,
         NEW f \in Files, Accountable(f), Accountable(f)', PrepareOne \/ PrepareFails(f),
         Prepare(f)
  PROVE  Settled(f)'
<1> USE DEF outside, run, ghosts
<1>1. /\ pc = "prepare" /\ f \in todo /\ opts.space = s /\ opts' = opts
      /\ UNCHANGED <<disk, version, clock, stat>> /\ stat[f] # None
      /\ \A p \in pending : p.file # f
  BY DEF Prepare, RowsInv, RunInv, TypeOK, WriteInv, PendingInv
<1>2. disk[f] # None /\ stat[f] = disk[f].mtime /\ Readable(f)
  BY <1>1 DEF WalkInv, RunInv, LiveInv, Accountable, Readable
<1>3. /\ Withheld(f, disk[f].content)' <=> Withheld(f, disk[f].content)
      /\ Standing(f, disk[f].content)' = Standing(f, disk[f].content)
  BY <1>1, ChunkedAlike DEF Withheld, KindRead
<1>4. PICK g \in Files : \/ PrepareSkip(g) \/ PrepareVanished(g) \/ PrepareWithheld(g)
                         \/ PrepareTouch(g) \/ PrepareQueue(g) \/ PrepareFails(g)
  BY DEF PrepareOne
<1>5. g = f
  BY <1>4 DEF PrepareSkip, PrepareVanished, PrepareWithheld, PrepareTouch, PrepareQueue,
     PrepareFails, Prepare
<1>6. CASE PrepareSkip(f)
  <2>1. /\ StatDecision(f) = "skip_unchanged"
        /\ manifest' = manifest /\ pending' = pending
    BY <1>6 DEF PrepareSkip
  <2>2. /\ manifest.files[f] # None /\ manifest.files[f].version = ChunkerVersion(f)
        /\ s \in manifest.spaces[f] /\ manifest.files[f].mtime = stat[f]
    BY <1>1, <2>1 DEF StatDecision, DecideFromStat
  <2>3. manifest.files[f].sha = disk[f].content /\ ~Withheld(f, disk[f].content)
    BY <1>2, <2>2 DEF RowsInv, FileRowsOK, RowOK
  <2>4. manifest.chunks[s][f] \in Standing(f, disk[f].content)
    BY <2>2, <2>3, CurrentRow DEF RunInv
  <2>5. RecordedAsOnDisk(f, opts.space)'
    BY <1>1, <1>2, <1>3, <2>1, <2>2, <2>3, <2>4 DEF RecordedAsOnDisk
  <2> QED
    BY <1>1, <1>3, <2>1, <2>3, <2>5 DEF Settled
<1>7. CASE PrepareTouch(f)
  <2>1. /\ StatDecision(f) = "reindex"
        /\ DecideFromHash(manifest, f, disk[f].content) = "skip_same_content"
    BY <1>7 DEF PrepareTouch, Decision, StatDecision, DecideFromStat
  <2>2. /\ manifest.files[f] # None /\ manifest.files[f].version = ChunkerVersion(f)
        /\ s \in manifest.spaces[f] /\ manifest.files[f].sha = disk[f].content
    BY <1>1, <2>1 DEF StatDecision, DecideFromStat, DecideFromHash
  <2>3. ~Withheld(f, disk[f].content) /\ pending' = pending
    BY <1>7 DEF PrepareTouch
  <2>4. manifest.chunks[s][f] \in Standing(f, disk[f].content)
    BY <2>2, CurrentRow DEF RunInv
  <2>5. manifest \in Tables /\ manifest.files[f] \in Row /\ stat[f] \in Nat
    BY <1>1, <2>2 DEF RunInv, TypeOK, Tables
  <2>6. /\ manifest'.files[f] = [manifest.files[f] EXCEPT !.mtime = stat[f]]
        /\ manifest'.spaces = manifest.spaces /\ manifest'.chunks = manifest.chunks
    BY <1>7, <2>5 DEF PrepareTouch, Touch, Tables
  <2>7. manifest'.files[f] \in Row /\ manifest'.files[f].sha = manifest.files[f].sha
    BY <2>5, <2>6 DEF Row
  <2>8. RecordedAsOnDisk(f, opts.space)'
    BY <1>1, <1>2, <1>3, <2>2, <2>3, <2>4, <2>6, <2>7, RowAssumption DEF RecordedAsOnDisk
  <2> QED
    BY <1>1, <1>3, <2>3, <2>8 DEF Settled
<1>8. CASE PrepareQueue(f)
  <2>0. PICK made \in Produced(f, disk[f].content) :
               pending' = pending \cup {PendingFile(f, made)}
    BY <1>8 DEF PrepareQueue
  <2> DEFINE p == PendingFile(f, made)
  <2>1. p.file = f /\ p.row.sha = disk[f].content
    BY DEF PendingFile
  <2>2. pending' = pending \cup {p}
    BY <2>0
  <2> HIDE DEF p
  <2> QED
    BY <1>1, <2>1, <2>2 DEF Settled
<1>9. CASE PrepareWithheld(f)
  BY <1>1, <1>3, <1>9 DEF PrepareWithheld, Settled, InHands
<1>10. CASE PrepareVanished(f) \/ PrepareFails(f)
  BY <1>2, <1>10 DEF PrepareVanished, PrepareFails, Accountable
<1> QED
  BY <1>4, <1>5, <1>6, <1>7, <1>8, <1>9, <1>10

LEMMA LadderStep ==
  ASSUME NEW s \in Spaces, RunInv, WriteInv, RowsInv(s), WalkInv, LadderInv, [Next]_vars
  PROVE  LadderInv'
<1> SUFFICES ASSUME pc' # "idle", ~opts'.dry,
                    NEW f \in Files, Accountable(f)', stat'[f] # None, f \notin todo'
             PROVE  Settled(f)'
  BY DEF LadderInv
<1> USE DEF outside, run, ghosts
<1>1. pc # "idle"
  BY BeginsFresh
<1>2. /\ Accountable(f) /\ disk'[f] = disk[f] /\ UNCHANGED <<opts, version>>
      /\ opts.space = s
  BY <1>1, AccountableBefore DEF RowsInv
<1>3. ASSUME stat[f] # None, f \notin todo, manifest' = manifest, pending' = pending,
             f \in InHands => f \in InHands'
      PROVE  Settled(f)'
  <2>1. Settled(f)
    BY <1>1, <1>2, <1>3 DEF LadderInv
  <2> QED
    BY <1>2, <1>3, <2>1, SettledKept
<1>4. CASE Outside \/ EndPrepare \/ EndWalk \/ FlushRest \/ Upsert \/ DeleteStale
             \/ (\E r \in Roots : WalkRoot(r)) \/ (\E g \in Files : WalkMisses(g))
             \/ UNCHANGED vars
  <2>1. /\ stat' = stat /\ todo' = todo /\ manifest' = manifest /\ pending' = pending
        /\ condemned' = condemned /\ victim' = victim
    BY <1>4 DEF Outside, Edit, Delete, Unmount, Mount, Reconfigure, Upgrade, EndPrepare,
       EndWalk, FlushRest, Upsert, DeleteStale, WalkRoot, WalkMisses, vars
  <2> QED
    BY <1>3, <2>1 DEF InHands
<1>5. ASSUME NEW g \in Files, WalkFile(g) PROVE Settled(f)'
  <2>1. stat[f] # None /\ f \notin todo
    BY <1>5 DEF WalkFile, RunInv, TypeOK
  <2> QED
    BY <1>3, <1>5, <2>1 DEF WalkFile, InHands
<1>6. ASSUME NEW g \in Files, PrepareOne \/ PrepareFails(g), Prepare(g)
      PROVE Settled(f)'
  <2>1. CASE f = g
    BY <1>2, <1>6, <2>1, PreparedIsSettled
  <2>2. CASE f # g
    <3>1. stat' = stat /\ f \notin todo
      BY <1>6, <2>2 DEF Prepare
    <3>2. Settled(f)
      BY <1>1, <1>2, <3>1 DEF LadderInv
    <3>3. PICK h \in Files : \/ PrepareSkip(h) \/ PrepareVanished(h) \/ PrepareWithheld(h)
                             \/ PrepareTouch(h) \/ PrepareQueue(h) \/ PrepareFails(h)
      BY <1>6 DEF PrepareOne
    <3>4. h = g
      BY <1>6, <3>3 DEF PrepareSkip, PrepareVanished, PrepareWithheld, PrepareTouch,
         PrepareQueue, PrepareFails, Prepare
    <3>5. InHands \subseteq InHands'
      BY <3>3 DEF InHands, PrepareSkip, PrepareVanished, PrepareWithheld, PrepareTouch,
         PrepareQueue, PrepareFails, Prepare
    <3>6. CASE PrepareQueue(g)
      <4>1. PICK made : pending' = pending \cup {PendingFile(g, made)}
        BY <3>6 DEF PrepareQueue
      <4>2. PendingFile(g, made).file = g /\ manifest' = manifest
        BY <3>6 DEF PrepareQueue, PendingFile
      <4> QED
        BY <1>2, <2>2, <3>2, <3>5, <4>1, <4>2, SettledKept
    <3>7. CASE PrepareTouch(g)
      <4>1. /\ manifest'.files[f] = manifest.files[f]
            /\ manifest'.spaces = manifest.spaces /\ manifest'.chunks = manifest.chunks
            /\ pending' = pending
        BY <2>2, <3>7 DEF PrepareTouch, Touch, RunInv, TypeOK, Tables
      <4> QED
        BY <1>2, <3>2, <3>5, <4>1, SettledKept
    <3>8. CASE PrepareSkip(g) \/ PrepareVanished(g) \/ PrepareWithheld(g) \/ PrepareFails(g)
      <4>1. manifest' = manifest /\ pending' = pending
        BY <3>8 DEF PrepareSkip, PrepareVanished, PrepareWithheld, PrepareFails
      <4> QED
        BY <1>2, <3>2, <3>5, <4>1, SettledKept
    <3> QED
      BY <3>3, <3>4, <3>6, <3>7, <3>8
  <2> QED
    BY <2>1, <2>2
<1>7. CASE DryFlush
  BY <1>7 DEF DryFlush
<1>8. CASE Commit
  <2>1. stat' = stat /\ todo' = todo /\ pending' = {} /\ InHands' = InHands
    BY <1>8 DEF Commit, InHands
  <2>2. Settled(f)
    BY <1>1, <1>2, <2>1 DEF LadderInv
  <2>3. CASE \A p \in pending : p.file # f
    <3>1. /\ manifest'.files[f] = manifest.files[f] /\ manifest'.spaces[f] = manifest.spaces[f]
          /\ manifest'.chunks[s][f] = manifest.chunks[s][f]
      BY <1>8, <2>3, CommitRows, CommitEffect
    <3> QED
      BY <1>2, <2>1, <2>2, <2>3, <3>1, SettledKept
  <2>4. ASSUME NEW p \in pending, p.file = f PROVE Settled(f)'
    <3>1. p.row.sha = disk[f].content
      BY <2>2, <2>4 DEF Settled, WriteInv, PendingInv
    <3>2. /\ manifest'.files[f] = p.row /\ s \in manifest'.spaces[f]
          /\ manifest'.chunks[s][f] = p.produced
      BY <1>2, <1>8, <2>4, CommitRows, CommitEffect
    <3>3. ~Withheld(f, p.row.sha) /\ p.produced \in Standing(f, p.row.sha)
      BY <2>4, ProducedStands DEF RowsInv, PendingRowOK, RowOK, WriteInv, TypeOK
    <3>4. p.row # None
      BY <2>4, RowAssumption DEF RunInv, TypeOK, Pending
    <3>5. /\ Withheld(f, disk[f].content)' <=> Withheld(f, disk[f].content)
          /\ Standing(f, disk[f].content)' = Standing(f, disk[f].content)
      BY <1>2, ChunkedAlike DEF Withheld, KindRead
    <3>6. disk[f] # None
      BY <1>1, <1>2, <2>1 DEF WalkInv
    <3> QED
      BY <1>2, <2>1, <3>1, <3>2, <3>3, <3>4, <3>5, <3>6 DEF Settled, RecordedAsOnDisk
  <2> QED
    BY <2>3, <2>4
<1>9. ASSUME NEW g \in Files, DropVectors(g) PROVE Settled(f)'
  <2>1. InHands' = InHands
    BY <1>9, ManifestAssumption DEF DropVectors, InHands
  <2> QED
    BY <1>3, <1>9, <2>1 DEF DropVectors
<1>10. CASE ForgetVictim
  <2>1. /\ stat' = stat /\ todo' = todo /\ pending' = pending /\ condemned' = condemned
        /\ victim' = None /\ pending = {}
    BY <1>10 DEF ForgetVictim, WriteInv, PendingInv, StoreInv
  <2>2. Settled(f)
    BY <1>1, <1>2, <2>1 DEF LadderInv
  <2>3. CASE f = victim
    <3>1. Withheld(f, disk[f].content)
      BY <1>2, <1>1, <2>1, <2>3 DEF RunInv, LiveInv, Live, Accountable, WalkInv
    <3>2. manifest'.files[f] = None
      BY <1>10, <2>3 DEF ForgetVictim, ForgetFile, RunInv, TypeOK, Tables
    <3>3. Withheld(f, disk[f].content)'
      BY <1>2, <3>1 DEF Withheld, KindRead
    <3> QED
      BY <2>1, <3>2, <3>3 DEF Settled
  <2>4. CASE f # victim
    <3>1. /\ manifest'.files[f] = manifest.files[f] /\ manifest'.spaces[f] = manifest.spaces[f]
          /\ manifest'.chunks[s][f] = manifest.chunks[s][f]
      BY <1>10, <2>4 DEF ForgetVictim, ForgetFile, RunInv, TypeOK, Tables
    <3>2. f \in InHands => f \in InHands'
      BY <2>1, <2>4 DEF InHands
    <3> QED
      BY <1>2, <2>1, <2>2, <3>1, <3>2, SettledKept
  <2> QED
    BY <2>3, <2>4
<1>11. CASE PickOrphans
  <2>1. InHands = {}
    BY <1>11 DEF PickOrphans, InHands
  <2> QED
    BY <1>3, <1>11, <2>1 DEF PickOrphans
<1>12. CASE FinishRun \/ Abort \/ AbortUpsert
  BY <1>12 DEF FinishRun, Abort, AbortUpsert, Reset
<1>13. CASE \E o \in RunOptions : StartRun(o)
  BY <1>1, <1>13 DEF StartRun
<1>14. PrepareOne => \E g \in Files : Prepare(g)
  BY DEF PrepareOne, PrepareSkip, PrepareVanished, PrepareWithheld, PrepareTouch, PrepareQueue
<1>15. \A g \in Files : PrepareFails(g) => Prepare(g)
  BY DEF PrepareFails
<1> QED
  BY <1>4, <1>5, <1>6, <1>7, <1>8, <1>9, <1>10, <1>11, <1>12, <1>13, <1>14, <1>15
  DEF Next, Progress, Failure, Walk, Flush, Remove

\* What the brakes make of a file that is gone.
LEMMA GonePick ==
  ASSUME RunInv, WalkInv, PickOrphans, NEW f \in Files, Accountable(f), stat[f] = None
  PROVE  Removed(f)'
<1> DEFINE visible == {g \in Orphans(manifest, Seen, opts.scope) :
                         RootOf[g] \notin unobservable}
           of(r)   == visible \cap FilesOf(r)
           held    == {r \in Roots : LooksLikeAnAccident(r, of(r))}
           root    == RootOf[f]
<1>1. condemned' = {g \in visible : opts.allow \/ RootOf[g] \notin held}
  BY DEF PickOrphans
<1>2. /\ victim' = None /\ InHands' = condemned'
      /\ UNCHANGED <<manifest, opts, stat>>
  BY DEF PickOrphans, InHands
<1>3. CASE manifest.files[f] = None
  BY <1>2, <1>3 DEF Removed
<1>4. CASE manifest.files[f] # None /\ (opts.allow \/ root \notin held)
  <2>1. f \in visible
    BY <1>4 DEF Orphans, Recorded, Seen, Accountable, InScope, WalkInv
  <2>2. f \in condemned'
    BY <1>1, <1>4, <2>1
  <2> QED
    BY <1>2, <2>2 DEF Removed
<1>5. CASE manifest.files[f] # None /\ ~opts.allow /\ root \in held
  <2>1. root \notin unobservable /\ opts.scope \in {None, root}
    BY DEF Accountable, InScope, WalkInv
  <2>2. of(root) = (Recorded(manifest) \cap FilesOf(root)) \ Seen
    BY <2>1 DEF Orphans, FilesOf
  <2>3. LooksLikeAnAccident(root, (Recorded(manifest) \cap FilesOf(root)) \ Seen)
    BY <1>5, <2>2
  <2>4. f \in KeptByBrake
    BY <1>5, <2>3 DEF KeptByBrake, Recorded, Seen
  <2>5. KeptByBrake' = KeptByBrake
    BY <1>2 DEF KeptByBrake, LooksLikeAnAccident, Seen
  <2>6. condemned' \cap FilesOf(root) = {}
    BY <1>1, <1>5 DEF FilesOf
  <2> QED
    BY <1>2, <2>4, <2>5, <2>6 DEF Removed
<1> QED
  BY <1>3, <1>4, <1>5

LEMMA GoneForget ==
  ASSUME RunInv, ForgetVictim, NEW f \in Files, Removed(f)
  PROVE  Removed(f)'
<1> DEFINE root == RootOf[f]
<1>1. /\ manifest \in Tables /\ victim \in Files /\ victim \in InHands
      /\ InHands' = condemned /\ UNCHANGED <<opts, stat, condemned>>
  BY DEF ForgetVictim, InHands, RunInv, TypeOK
<1>2. \A g \in Files : manifest'.files[g] = IF g = victim THEN None ELSE manifest.files[g]
  BY <1>1 DEF ForgetVictim, ForgetFile, Tables
<1>3. CASE f \in InHands \/ manifest.files[f] = None
  BY <1>1, <1>2, <1>3 DEF Removed, InHands
<1>4. CASE f \in KeptByBrake /\ InHands \cap FilesOf(root) = {}
  <2>1. Recorded(manifest)' \cap FilesOf(root) = Recorded(manifest) \cap FilesOf(root)
    BY <1>1, <1>2, <1>4 DEF Recorded, FilesOf
  <2>2. Seen' = Seen
    BY <1>1 DEF Seen
  <2>3. f \in KeptByBrake'
    BY <1>1, <1>4, <2>1, <2>2 DEF KeptByBrake, LooksLikeAnAccident, FilesOf
  <2>4. InHands' \cap FilesOf(root) = {}
    BY <1>1, <1>4 DEF InHands
  <2> QED
    BY <2>3, <2>4 DEF Removed, FilesOf
<1> QED
  BY <1>3, <1>4 DEF Removed

LEMMA GoneStep == RunInv /\ WalkInv /\ GoneInv /\ [Next]_vars => GoneInv'
<1> SUFFICES ASSUME RunInv, WalkInv, GoneInv, [Next]_vars, pc' = "orphans",
                    NEW f \in Files, Accountable(f)', stat'[f] = None
             PROVE  Removed(f)'
  BY DEF GoneInv
<1> USE DEF outside, run, ghosts
<1>1. pc # "idle"
  BY BeginsFresh
<1>2. Accountable(f)
  BY <1>1, AccountableBefore
<1>3. ASSUME pc = "orphans", UNCHANGED <<stat, manifest, opts>>, InHands' = InHands
      PROVE  Removed(f)'
  <2>1. Removed(f)
    BY <1>2, <1>3 DEF GoneInv
  <2>2. KeptByBrake' = KeptByBrake
    BY <1>3 DEF KeptByBrake, LooksLikeAnAccident, Seen
  <2> QED
    BY <1>3, <2>1, <2>2 DEF Removed
<1>4. CASE Outside \/ UNCHANGED vars
  <2>1. pc = "orphans" /\ UNCHANGED <<stat, manifest, opts, condemned, victim>>
    BY <1>4 DEF Outside, Edit, Delete, Unmount, Mount, Reconfigure, Upgrade, vars
  <2> QED
    BY <1>3, <2>1 DEF InHands
<1>5. ASSUME NEW g \in Files, DropVectors(g) PROVE Removed(f)'
  <2>1. InHands' = InHands
    BY <1>5, ManifestAssumption DEF DropVectors, InHands
  <2> QED
    BY <1>3, <1>5, <2>1 DEF DropVectors
<1>6. CASE ForgetVictim
  <2>1. Removed(f)
    BY <1>2, <1>6 DEF ForgetVictim, GoneInv
  <2> QED
    BY <1>6, <2>1, GoneForget
<1>7. CASE PickOrphans
  BY <1>2, <1>7, GonePick DEF PickOrphans
<1>8. ~Walk /\ ~(\E o \in RunOptions : StartRun(o)) /\ ~Flush /\ ~EndPrepare /\ ~FinishRun
  BY DEF Walk, WalkRoot, WalkFile, EndWalk, StartRun, Flush, FlushRest, DryFlush, Upsert,
     DeleteStale, Commit, EndPrepare, FinishRun, Reset
<1>9. ~PrepareOne /\ ~Failure
  BY DEF PrepareOne, PrepareSkip, PrepareVanished, PrepareWithheld, PrepareTouch,
     PrepareQueue, Prepare, Failure, WalkMisses, PrepareFails, Abort, AbortUpsert, Reset
<1> QED
  BY <1>4, <1>5, <1>6, <1>7, <1>8, <1>9 DEF Next, Progress, Remove

RecordInv(s) == RunInv /\ WriteInv /\ PhaseInv /\ RowsInv(s) /\ WalkInv /\ LadderInv /\ GoneInv

\* What a run knows of each file it listed, from the walk to its last step.
THEOREM RecordInvariant ==
  ASSUME NEW s \in Spaces, \A o \in RunOptions : o.space = s, PdfVersionSettled
  PROVE  Spec => []RecordInv(s)
<1>1. Init => WalkInv /\ LadderInv /\ GoneInv
  BY DEF Init, Idle, WalkInv, LadderInv, GoneInv
<1>2. /\ RunInv /\ RunInv' /\ WriteInv /\ RowsInv(s) /\ WalkInv /\ LadderInv /\ GoneInv
      /\ [Next]_vars
      => WalkInv' /\ LadderInv' /\ GoneInv'
  BY WalkStep, LadderStep, GoneStep
<1>3. Spec => [](RunInv /\ WriteInv /\ PhaseInv)
  BY RunInvariant, WriteInvariant, PhaseInvariant, PTL
<1>4. Spec => []RowsInv(s)
  BY RowsInvariant
<1> QED
  BY <1>1, <1>2, <1>3, <1>4, PTL DEF Spec, RecordInv

\* What a completed run has done, whatever it was before it.
LEMMA DoneIsRecorded ==
  ASSUME NEW s \in Spaces, RecordInv(s), RunDone, ~opts.dry,
         NEW f \in Files, Accountable(f), f \notin KeptByBrake
  PROVE  RecordedAsOnDisk(f, opts.space) /\ opts.space = s
<1>1. /\ pc = "orphans" /\ todo = {} /\ pending = {} /\ InHands = {} /\ opts.space = s
  BY DEF RunDone, RecordInv, PhaseInv, InHands, RowsInv
<1>2. manifest.files[f] = None => manifest.chunks[s][f] = {}
  BY DEF RecordInv, RowsInv, FileRowsOK
<1>3. CASE disk[f] = None
  <2>1. stat[f] = None
    BY <1>1, <1>3 DEF RecordInv, WalkInv
  <2>2. manifest.files[f] = None
    BY <1>1, <2>1 DEF RecordInv, GoneInv, Removed
  <2> QED
    BY <1>1, <1>2, <1>3, <2>2 DEF RecordedAsOnDisk
<1>4. CASE disk[f] # None
  <2>1. stat[f] # None
    BY <1>1, <1>4 DEF RecordInv, WalkInv
  <2>2. Settled(f)
    BY <1>1, <2>1 DEF RecordInv, LadderInv
  <2> QED
    BY <1>1, <1>2, <1>4, <2>2 DEF Settled, RecordedAsOnDisk
<1> QED
  BY <1>3, <1>4

(* A run that completes has the manifest describe every file nobody        *)
(* touched while it lasted, those of a root that is held back included;    *)
(* only a row of a file it did not see may be kept, by the second brake.   *)
(* However many runs were stopped half way before it.  (_index)            *)
THEOREM RunRecords ==
  ASSUME NEW s \in Spaces, \A o \in RunOptions : o.space = s, PdfVersionSettled
  PROVE  Spec => [](RunDone /\ ~opts.dry =>
                      \A f \in Files : Accountable(f) /\ f \notin KeptByBrake =>
                        RecordedAsOnDisk(f, opts.space))
<1>1. RecordInv(s) => (RunDone /\ ~opts.dry =>
                         \A f \in Files : Accountable(f) /\ f \notin KeptByBrake =>
                           RecordedAsOnDisk(f, opts.space))
  BY DoneIsRecorded
<1> QED
  BY <1>1, RecordInvariant, PTL

(* A run that completes has indexed every file nobody touched while it     *)
(* lasted: row, chunks and vectors are those of the bytes on disk, and a   *)
(* file that is gone or holds a secret has neither row nor vectors, unless *)
(* the second brake keeps the row of a file that was not seen.  It         *)
(* takes runs that are not stopped, one space, and no upgrade of the PDF   *)
(* chunker, whose version no rung compares.  (_index)                      *)
THEOREM RunConvergesHolds ==
  ASSUME NEW s \in Spaces, \A o \in RunOptions : o.space = s, PdfVersionSettled,
         MaxAborts = 0
  PROVE  Spec => []RunConverges
<1>1. RecordInv(s) /\ MatchInv(s) => RunConverges
  <2> SUFFICES ASSUME RecordInv(s), MatchInv(s), RunDone, ~opts.dry,
                      NEW f \in Files, Accountable(f), f \notin KeptByBrake
               PROVE  RecordedAsOnDisk(f, opts.space) /\ StoredAsOnDisk(f, opts.space)
    BY DEF RunConverges
  <2>1. RecordedAsOnDisk(f, opts.space) /\ opts.space = s
    BY DoneIsRecorded
  <2>2. pending = {} /\ victim = None /\ f # victim
    BY ManifestAssumption DEF RunDone, RecordInv, PhaseInv
  <2>3. store[s][f] = manifest.chunks[s][f]
    BY <2>2 DEF MatchInv
  <2>4. disk[f] # None /\ Withheld(f, disk[f].content)
          => Standing(f, disk[f].content) = {{}}
    BY DEF Standing, ChunkedBy
  <2> QED
    BY <2>1, <2>3, <2>4 DEF RecordedAsOnDisk, StoredAsOnDisk
<1>2. Spec => []RecordInv(s)
  BY RecordInvariant
<1>3. Spec => []MatchInv(s)
  BY MatchInvariant
<1> QED
  BY <1>1, <1>2, <1>3, PTL

=============================================================================
