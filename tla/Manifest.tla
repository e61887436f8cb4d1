------------------------------ MODULE Manifest ------------------------------
(***************************************************************************)
(* The SQLite manifest (src/workspace_indexer/state/manifest.py), the local *)
(* record of what has been indexed.  It is a value, not a state machine:   *)
(* each operator below is what one method reads or writes, and the modules *)
(* that use it hold the manifest in a variable of their own.               *)
(*                                                                         *)
(* Three tables matter to the index and are modelled:                      *)
(*   files        one row per file, with the stat() and hash the ladder    *)
(*                compares;                                                *)
(*   file_spaces  which embedding spaces a file is complete for;           *)
(*   chunks       which chunk ids a file has in each space.                *)
(* The last two cascade with their file (ON DELETE CASCADE).  A chunk id   *)
(* is a hash over the file's root and path, so ids of two files never      *)
(* meet and chunks are kept per file.                                      *)
(***************************************************************************)
EXTENDS Naturals, FiniteSets

CONSTANTS
  Files,        \* (root_label, rel_path) pairs the workspace can hold
  Roots,        \* root labels
  RootOf,       \* [Files -> Roots]
  Spaces,       \* embedding spaces, one collection each
  Contents,     \* file contents; a content is its own sha256
  Chunks,       \* what distinguishes the chunk ids of one file
  None          \* no row, no file, no stat: Python's None

ChunkerNames == {"code", "markdown", "text", "opaque", "pdf"}

ASSUME ManifestAssumption ==
  /\ RootOf \in [Files -> Roots]
  /\ None \notin Files \cup Roots

\* A row of `files`: mtime_ns stands for the (mtime_ns, size) pair of rung 1.
Row == [mtime : Nat, sha : Contents, chunker : ChunkerNames, version : Nat]

ASSUME RowAssumption == None \notin Row /\ None \notin Nat

Tables ==
  [files  : [Files -> Row \cup {None}],
   spaces : [Files -> SUBSET Spaces],
   chunks : [Spaces -> [Files -> SUBSET Chunks]]]

EmptyManifest ==
  [files  |-> [f \in Files |-> None],
   spaces |-> [f \in Files |-> {}],
   chunks |-> [s \in Spaces |-> [f \in Files |-> {}]]]

FilesOf(r) == {f \in Files : RootOf[f] = r}

Recorded(m) == {f \in Files : m.files[f] # None}

Decisions ==
  {"forced", "new", "rechunk_strategy", "backfill_space", "skip_unchanged",
   "reindex", "skip_same_content"}

\* Mutant: no rung 4.
DecideFromStatSameStrategy(m, f, mtime, space, version, force) ==
  IF force THEN "forced"
  ELSE IF m.files[f] = None THEN "new"
  ELSE IF space \notin m.spaces[f] THEN "backfill_space"
  ELSE IF m.files[f].mtime = mtime THEN "skip_unchanged"
  ELSE "reindex"

\* Rungs 1, 4 and 6: what stat() alone answers.  The order is the code's.
DecideFromStat(m, f, mtime, space, version, force) ==
  IF force THEN "forced"
  ELSE IF m.files[f] = None THEN "new"
  ELSE IF m.files[f].version # version THEN "rechunk_strategy"
  ELSE IF space \notin m.spaces[f] THEN "backfill_space"
  ELSE IF m.files[f].mtime = mtime THEN "skip_unchanged"
  ELSE "reindex"

\* Rung 2: the bytes were read, and their hash is compared with the row's.
DecideFromHash(m, f, sha) ==
  IF m.files[f] = None THEN "new"
  ELSE IF m.files[f].sha = sha THEN "skip_same_content"
  ELSE "reindex"

\* The new mtime of a file whose content turned out identical.
Touch(m, f, mtime) ==
  [m EXCEPT !.files[f].mtime = mtime]

\* Produced ids against the stored ids of one file and one space.
DiffChunks(m, f, space, produced) ==
  [upsert |-> produced \ m.chunks[space][f],
   delete |-> m.chunks[space][f] \ produced]

\* Mutant: chunk rows are added and never taken away.
RecordAllKeepsStale(m, pending, space) ==
  LET of(f) == CHOOSE p \in pending : p.file = f
      written == {p.file : p \in pending}
  IN [files  |-> [f \in Files |-> IF f \in written THEN of(f).row
                                  ELSE m.files[f]],
      spaces |-> [f \in Files |-> IF f \in written
                                  THEN m.spaces[f] \cup {space}
                                  ELSE m.spaces[f]],
      chunks |-> [s \in Spaces |-> [f \in Files |->
                    IF s = space /\ f \in written
                    THEN m.chunks[s][f] \cup of(f).produced
                    ELSE m.chunks[s][f]]]]

\* What _record writes for a set of prepared files, in the one transaction
\* that _flush commits: the row, the chunk rows (stale ones forgotten, all
\* produced ones recorded) and the space marker.  Each file is pending once.
RecordAll(m, pending, space) ==
  LET of(f) == CHOOSE p \in pending : p.file = f
      written == {p.file : p \in pending}
  IN [files  |-> [f \in Files |-> IF f \in written THEN of(f).row
                                  ELSE m.files[f]],
      spaces |-> [f \in Files |-> IF f \in written
                                  THEN m.spaces[f] \cup {space}
                                  ELSE m.spaces[f]],
      chunks |-> [s \in Spaces |-> [f \in Files |->
                    IF s = space /\ f \in written
                    THEN (m.chunks[s][f] \ of(f).delete) \cup of(f).produced
                    ELSE m.chunks[s][f]]]]

\* Mutant: foreign keys are off, and nothing cascades.
ForgetFileAlone(m, f) == [m EXCEPT !.files[f] = None]

\* DELETE FROM files: the cascade takes the file's rows of EVERY space.
ForgetFile(m, f) ==
  [files  |-> [m.files EXCEPT ![f] = None],
   spaces |-> [m.spaces EXCEPT ![f] = {}],
   chunks |-> [s \in Spaces |-> [m.chunks[s] EXCEPT ![f] = {}]]]

\* Mutant: WHERE root_label = NULL, for an unscoped run.
OrphansOfOneRoot(m, seen, scope) ==
  {f \in Recorded(m) \ seen : scope = RootOf[f]}

\* Mutant: a scoped run judges every root by its own walk.
OrphansEverywhere(m, seen, scope) == Recorded(m) \ seen

\* Rung 5: rows with no corresponding file, within the root that was walked
\* (`scope` is None for an unscoped run).
Orphans(m, seen, scope) ==
  {f \in Recorded(m) \ seen : scope \in {None, RootOf[f]}}

=============================================================================
